------------------------------ MODULE ConfigStore ------------------------------
(***************************************************************************)
(* config.py: config.ini, read and rewritten whole and in place, and the   *)
(* key file its secrets are encrypted with.  Handlers on the event loop    *)
(* write; plain handlers and dependencies in worker threads read, and a    *)
(* read may migrate the old [aws] section or seed the key.                 *)
(***************************************************************************)
EXTENDS Naturals, FiniteSets

CONSTANTS
  Endpoints,
  Loop, Readers, \* the event loop and the worker threads
  Keys,          \* encryption keys
  Foreign,       \* the key of another installation, whose exports are imported
  Envs,          \* what ENCRYPTION_KEY may be at a start: keys or None
  Edits,         \* what administrators do
  CanCrash,      \* whether the process is killed
  KeyFileFails,  \* whether the key file may be unreadable or refuse a write for a while
  None, Missing, Torn, \* no value; no key file; a file emptied to be written
  Absent, Blank, Plain \* a secret that is not there, is empty, is not encrypted

Callers == Readers \cup {Loop}
Secrets == Keys \cup {Absent, Blank, Plain} \* a key stands for what it encrypted
Contents ==
  [legacy : BOOLEAN,    \* the old [aws] section
   malformed : BOOLEAN, \* a flag that is neither true nor false
   endpoints : [Endpoints -> Secrets], store : Secrets, smtp : Secrets,
   schedule : [Endpoints -> {"absent", "off", "on"}]] \* by the endpoint it backs up
AllEdits ==
  [kind : {"endpoint", "forget"}, endpoint : Endpoints] \cup [kind : {"store", "smtp"}, blank : BOOLEAN]
    \cup [kind : {"encrypt", "other"}] \cup [kind : {"import"}, content : Contents]

Use == [kind |-> "use"]
Startup == [kind |-> "startup"]
Sanitise == [kind |-> "sanitise"]

ASSUME ConfigConstants ==
  /\ Edits \subseteq AllEdits
  /\ Loop \notin Readers /\ Foreign \in Keys /\ Envs \subseteq (Keys \ {Foreign}) \cup {None}
  /\ None \notin {Use, Startup, Sanitise}
  /\ CanCrash \in BOOLEAN /\ KeyFileFails \in BOOLEAN /\ Keys \cap {None, Missing, Torn, Absent, Blank, Plain} = {}

Empty ==
  [legacy |-> FALSE, malformed |-> FALSE, endpoints |-> [e \in Endpoints |-> Absent], store |-> Absent, smtp |-> Absent,
   schedule |-> [e \in Endpoints |-> "absent"]]

VARIABLES
  file,     \* config.ini
  bak,      \* config.ini.bak
  keyFile,  \* .encryption_key
  env,      \* ENCRYPTION_KEY of this process
  migrated, \* _migration_done
  call,     \* where each caller stands
  spoilt,   \* history: keys not persisted, seeded beside another, or overwritten unread
  late      \* history: a thread was migrating when the last import began

configVars == <<file, bak, keyFile, env, migrated, call, spoilt, late>>

Asked == Edits \cup {Use, Startup, Sanitise}
Calls ==
  [phase : {"idle", "ensure", "migrate", "migrating", "read", "key", "seed", "seeding", "write", "writing"},
   edit : Asked \cup {None}, config : Contents, key : Keys \cup {None}]
NoCall == [phase |-> "idle", edit |-> None, config |-> Empty, key |-> None]

ConfigTypeOK ==
  /\ file \in Contents \cup {Torn} /\ bak \in Contents \cup {None}
  /\ keyFile \in Keys \cup {Missing, Torn} /\ env \in Envs /\ migrated \in BOOLEAN
  /\ call \in [Callers -> Calls]
  /\ spoilt \subseteq Keys /\ late \in BOOLEAN

ConfigInit ==
  /\ file = Empty /\ bak = None /\ keyFile = Missing /\ env \in Envs /\ migrated = TRUE
  /\ call = [a \in Callers |-> NoCall]
  /\ spoilt = {} /\ late = FALSE

-----------------------------------------------------------------------------
\* configparser reads an emptied file as one without sections.
Read == IF file = Torn THEN Empty ELSE file

Migrated(c) == [c EXCEPT !.legacy = FALSE]

Encrypted(c) ==
  {c.store, c.smtp} \cup {c.endpoints[e] : e \in Endpoints}

Migrates(a) == call[a].phase \in {"migrate", "migrating"}
Seeds(a) == call[a].phase \in {"seed", "seeding"}

\* Mutant: an import is taken as it is.
SanitisedNothing(c) == c

\* _sanitize_imported_schedules(): off, where the endpoint is not defined; the error of a
\* malformed flag ends it before it writes, and is only logged.
Sanitised(c) ==
  IF c.malformed THEN c
  ELSE [c EXCEPT !.schedule = [e \in Endpoints |->
          IF @[e] = "on" /\ c.endpoints[e] = Absent THEN "off" ELSE @[e]]]

NeedsKey(edit, c) ==
  CASE edit.kind \in {"forget", "other", "startup", "import"} -> FALSE
    [] edit.kind = "sanitise" -> ({c.store} \cup {c.endpoints[e] : e \in Endpoints}) \cap Keys # {}
    [] edit.kind = "endpoint" -> TRUE
    [] edit.kind = "smtp"  -> ~ edit.blank
    [] edit.kind = "store" -> edit.blank => c.store \in Keys \cup {Plain}
    [] edit.kind = "encrypt" -> \E e \in Endpoints : c.endpoints[e] = Plain
    [] edit.kind = "use" -> Encrypted(c) \cap Keys # {}

\* What is read from a secret encrypted with another key is empty.
Reencrypted(s, k) == IF s \in {k, Plain} THEN k ELSE Blank

EndpointSaved(c, e, k) == [c EXCEPT !.endpoints[e] = k]
EndpointDeleted(c, e) == [c EXCEPT !.endpoints[e] = Absent]
PasswordsEncrypted(c, k) == [c EXCEPT !.endpoints = [e \in Endpoints |-> IF @[e] = Plain THEN k ELSE @[e]]]

\* A blank field of a store is filled with what was decrypted, that of the
\* mail settings with what is stored.
StoreSaved(c, blank, k) == [c EXCEPT !.store = IF blank THEN Reencrypted(@, k) ELSE k]
SmtpSaved(c, blank, k) == [c EXCEPT !.smtp = IF ~ blank THEN k ELSE IF @ = Absent THEN Blank ELSE @]

Edited(edit, c, k) ==
  CASE edit.kind = "endpoint" -> EndpointSaved(c, edit.endpoint, k)
    [] edit.kind = "forget" -> EndpointDeleted(c, edit.endpoint)
    [] edit.kind = "store" -> StoreSaved(c, edit.blank, k)
    [] edit.kind = "smtp" -> SmtpSaved(c, edit.blank, k)
    [] edit.kind = "encrypt" -> PasswordsEncrypted(c, k)
    [] edit.kind = "sanitise" -> Sanitised(c)
    [] edit.kind \in {"other", "startup", "use"} -> c

\* After the read, and the key where one is needed: write, if there is a change.
Goes(a, c, k) ==
  LET edit == call[a].edit
      new == Edited(edit, c, k)
  IN call' = [call EXCEPT ![a] =
       IF \/ edit.kind \in {"endpoint", "store", "smtp", "other"}
          \/ edit.kind \in {"forget", "encrypt", "sanitise"} /\ new # c
       THEN [phase |-> "write", edit |-> edit, config |-> new, key |-> k] ELSE NoCall]

-----------------------------------------------------------------------------
\* import_config_content(): .ini.bak.
BackedUp == Read

\* A handler on the loop; "other" saves a section that is left out here.
Ask(edit) ==
  /\ call[Loop] = NoCall /\ edit.kind # "import"
  /\ call' = [call EXCEPT ![Loop] = [NoCall EXCEPT !.phase = "ensure", !.edit = edit]]
  /\ UNCHANGED <<file, bak, keyFile, env, migrated, spoilt, late>>

\* import_config_content(), once the content is accepted: an export of this installation
\* or of another one, or written by hand.
Import(edit) ==
  /\ call[Loop] = NoCall /\ edit.kind = "import"
  /\ Encrypted(edit.content) \cap Keys \subseteq {Foreign, keyFile} \cup spoilt
  /\ late' = \E r \in Readers : Migrates(r)
  /\ bak' = BackedUp
  /\ call' = [call EXCEPT ![Loop] = [NoCall EXCEPT !.phase = "write", !.edit = edit, !.config = edit.content]]
  /\ UNCHANGED <<file, keyFile, env, migrated, spoilt>>

\* A thread uses the configuration: a session check, a pull, a tunnel.
Uses(r) ==
  /\ call[r] = NoCall /\ call[Loop].edit # Startup
  /\ call' = [call EXCEPT ![r] = [NoCall EXCEPT !.phase = "ensure", !.edit = Use]]
  /\ UNCHANGED <<file, bak, keyFile, env, migrated, spoilt, late>>

\* ensure_config_exists(): the first read after a start or an import migrates.
Ensure(a) ==
  /\ call[a].phase = "ensure"
  /\ migrated' = TRUE
  /\ call' = [call EXCEPT ![a] =
       IF ~ migrated /\ Read.legacy THEN [@ EXCEPT !.phase = "migrate", !.config = Migrated(Read)]
       ELSE [@ EXCEPT !.phase = "read"]]
  /\ UNCHANGED <<file, bak, keyFile, env, spoilt, late>>

ReadConfig(a) ==
  /\ call[a].phase = "read"
  /\ IF NeedsKey(call[a].edit, Read)
     THEN call' = [call EXCEPT ![a].phase = "key", ![a].config = Read]
     ELSE Goes(a, Read, None)
  /\ UNCHANGED <<file, bak, keyFile, env, migrated, spoilt, late>>

\* Mutant: ENCRYPTION_KEY before the file.
KeyOfEnvironment == IF env # None THEN env ELSE IF keyFile \in Keys THEN keyFile ELSE None

\* The persisted key wins over ENCRYPTION_KEY, if it is one.
PersistedKey == IF keyFile \in Keys THEN keyFile ELSE None

KeyFound(a) ==
  /\ call[a].phase = "key" /\ PersistedKey # None
  /\ Goes(a, call[a].config, PersistedKey)
  /\ UNCHANGED <<file, bak, keyFile, env, migrated, spoilt, late>>

Fresh(k) ==
  /\ k \notin {Foreign, keyFile} \cup Envs \cup Encrypted(Read) \cup spoilt
  /\ \A a \in Callers : k \notin Encrypted(call[a].config) \cup {call[a].key}

\* No key, none that is valid -- or any error while it is read.
KeySeeded(a) ==
  /\ call[a].phase = "key" /\ (PersistedKey = None \/ KeyFileFails)
  /\ \E k \in Keys :
       /\ IF env # None THEN k = env ELSE Fresh(k)
       /\ call' = [call EXCEPT ![a].phase = "seed", ![a].key = k]
       /\ LET others == {b \in Callers \ {a} : Seeds(b)}
          IN spoilt' = spoilt \cup ({keyFile} \cap Keys)
               \cup (IF others = {} THEN {} ELSE {k} \cup {call[b].key : b \in others})
  /\ UNCHANGED <<file, bak, keyFile, env, migrated, late>>

KeyOpened(a) ==
  /\ call[a].phase = "seed"
  /\ keyFile' = Torn /\ call' = [call EXCEPT ![a].phase = "seeding"]
  /\ UNCHANGED <<file, bak, env, migrated, spoilt, late>>

KeyWritten(a) ==
  /\ call[a].phase = "seeding"
  /\ keyFile' = call[a].key /\ Goes(a, call[a].config, call[a].key)
  /\ UNCHANGED <<file, bak, env, migrated, spoilt, late>>

\* What cannot be persisted is logged, and used.
KeyNotWritten(a) ==
  /\ KeyFileFails /\ Seeds(a)
  /\ spoilt' = spoilt \cup {call[a].key} /\ Goes(a, call[a].config, call[a].key)
  /\ UNCHANGED <<file, bak, keyFile, env, migrated, late>>

\* write_config(): the open empties the file.
Opened(a) ==
  /\ call[a].phase \in {"write", "migrate"}
  /\ file' = Torn
  /\ call' = [call EXCEPT ![a].phase = IF @ = "write" THEN "writing" ELSE "migrating"]
  /\ UNCHANGED <<bak, keyFile, env, migrated, spoilt, late>>

\* An import then lets the migration run again, and sanitises the schedules.
Written(a) ==
  /\ call[a].phase \in {"writing", "migrating"}
  /\ file' = call[a].config
  /\ LET imports == call[a].phase = "writing" /\ call[a].edit.kind = "import"
     IN /\ migrated' = (migrated /\ ~ imports)
        /\ call' = [call EXCEPT ![a] =
             CASE imports -> [NoCall EXCEPT !.phase = "ensure", !.edit = Sanitise]
               [] call[a].phase = "migrating" -> [@ EXCEPT !.phase = "read"]
               [] OTHER -> NoCall]
  /\ UNCHANGED <<bak, keyFile, env, spoilt, late>>

\* The process is killed, and starts with what ENCRYPTION_KEY is by then.
Crash ==
  /\ CanCrash
  /\ env' \in Envs /\ migrated' = FALSE /\ late' = FALSE
  /\ call' = [[a \in Callers |-> NoCall] EXCEPT ![Loop].phase = "ensure", ![Loop].edit = Startup]
  /\ UNCHANGED <<file, bak, keyFile, spoilt>>

ConfigNext ==
  \/ \E edit \in Edits : Ask(edit) \/ Import(edit)
  \/ \E r \in Readers : Uses(r)
  \/ \E a \in Callers :
       \/ Ensure(a) \/ ReadConfig(a) \/ Opened(a) \/ Written(a)
       \/ KeyFound(a) \/ KeySeeded(a) \/ KeyOpened(a) \/ KeyWritten(a) \/ KeyNotWritten(a)
  \/ Crash

ConfigSpec == ConfigInit /\ [][ConfigNext]_configVars

-----------------------------------------------------------------------------
(* Properties *)

\* config.py: key and ciphertext share fate.  What this installation has encrypted opens with
\* the key on the volume, after any crash and under any later ENCRYPTION_KEY, unless
\* its key was never persisted, was seeded while another caller seeded, or was taken
\* for invalid when it could not be read.
OwnSecretsReadable ==
  \A k \in Encrypted(Read) \cap (Keys \ {Foreign}) : keyFile = k \/ k \in spoilt

\* An import, of the old format too, is answered when every schedule of the file that
\* is on has the endpoint it backs up, whatever was killed, read, saved or
\* migrated by a thread before and meanwhile -- unless a flag of the file is malformed, or
\* a thread still wrote back a file from before the import.
ImportedSchedulesResolve ==
  [][call[Loop].edit = Sanitise /\ call'[Loop] = NoCall /\ ~ late /\ ~ Read'.malformed
       => \A e \in Endpoints : Read'.schedule[e] = "on" => Read'.endpoints[e] # Absent]_configVars

-----------------------------------------------------------------------------
(* What the code does not keep *)

\* What this installation has encrypted opens with the key on the volume.
SecretsShareFate ==
  \A k \in Encrypted(Read) \cap (Keys \ {Foreign}) : keyFile = k

\* An import of any file is answered when its schedules that are on have their endpoints.
AnswersAreSafe ==
  [][call[Loop].edit = Sanitise /\ call'[Loop] = NoCall
       => \A e \in Endpoints : Read'.schedule[e] = "on" => Read'.endpoints[e] # Absent]_configVars

\* Once everything has come to rest a file of the old format is migrated.
OldFormatIsGone == migrated /\ (\A a \in Callers : call[a] = NoCall) => ~ Read.legacy

\* config.py: an unresolved schedule is imported disabled.  When no import is under
\* way, none of the file is on without the endpoint it backs up (in instances
\* where endpoints are not deleted).
ImportedDisabled ==
  call[Loop] = NoCall => \A e \in Endpoints : Read.schedule[e] = "on" => Read.endpoints[e] # Absent

\* When an import empties the file, the copy already holds what was there.
ImportCanBeUndone ==
  [][file # Torn /\ file' = Torn /\ call[Loop].phase = "write" /\ call[Loop].edit.kind = "import"
       => bak = file]_configVars

\* A save that leaves the secret of a store blank keeps the secret.
BlankKeepsSecret ==
  [][call[Loop].phase # "write" /\ call'[Loop].phase = "write" /\ call[Loop].edit = [kind |-> "store", blank |-> TRUE]
       => (call'[Loop].config.store = Blank => Read.store \in {Absent, Blank})]_configVars

\* A started process finds the configuration it had.
ConfigSurvives == call[Loop].edit = Startup => file # Torn

=============================================================================
