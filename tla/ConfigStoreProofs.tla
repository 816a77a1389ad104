--------------------------- MODULE ConfigStoreProofs ---------------------------
(***************************************************************************)
(* Proofs about ConfigStore, for any number of callers, endpoints, keys    *)
(* and administrators' edits, killed at any step or never: which secrets   *)
(* open with the key on the volume, and that the guard of an import holds  *)
(* when the import is answered, beside threads that migrate.               *)
(***************************************************************************)
EXTENDS ConfigStore, TLAPS

AllKinds == {"endpoint", "forget", "store", "smtp", "encrypt", "other", "import", "use", "startup", "sanitise"}

\* What this installation has encrypted, of a configuration.
Own(c) == Encrypted(c) \cap (Keys \ {Foreign})

-----------------------------------------------------------------------------
(* Configurations and edits *)

LEMMA KeysDiffer ==
  /\ None \notin Keys /\ Missing \notin Keys /\ Torn \notin Keys
  /\ Absent \notin Keys /\ Blank \notin Keys /\ Plain \notin Keys
  /\ \A e \in Envs : e \in Keys \/ e = None
  /\ Loop \in Callers /\ Loop \notin Readers
BY ConfigConstants DEF ConfigConstants, Callers

LEMMA EditForms ==
  ASSUME NEW edit \in Asked
  PROVE  /\ edit.kind \in AllKinds
         /\ edit.kind \in {"endpoint", "forget"} => edit.endpoint \in Endpoints
         /\ edit.kind \in {"store", "smtp"} => edit.blank \in BOOLEAN
         /\ edit.kind = "import" => edit \in Edits /\ edit.content \in Contents
<1>1. CASE edit \in [kind : {"endpoint", "forget"}, endpoint : Endpoints]
  BY <1>1 DEF AllKinds
<1>2. CASE edit \in [kind : {"store", "smtp"}, blank : BOOLEAN]
  BY <1>2 DEF AllKinds
<1>3. CASE edit \in [kind : {"encrypt", "other"}]
  BY <1>3 DEF AllKinds
<1>4. CASE edit \in Edits /\ edit \in [kind : {"import"}, content : Contents]
  BY <1>4 DEF AllKinds
<1>5. CASE edit \in {Use, Startup, Sanitise}
  BY <1>5 DEF AllKinds, Use, Startup, Sanitise
<1>6. QED
  BY <1>1, <1>2, <1>3, <1>4, <1>5, ConfigConstants DEF Asked, ConfigConstants, AllEdits

LEMMA EmptyIsContent == Empty \in Contents /\ Own(Empty) = {}
BY KeysDiffer DEF Empty, Contents, Secrets, Own, Encrypted

LEMMA MigratedIsContent ==
  ASSUME NEW c \in Contents
  PROVE  Migrated(c) \in Contents /\ Own(Migrated(c)) = Own(c)
BY DEF Migrated, Contents, Own, Encrypted

\* A configuration in which one more thing than in c may be encrypted with k.
LEMMA SecretsFrom ==
  ASSUME NEW c \in Contents, NEW d \in Contents, NEW k,
         d.store \in {c.store, k, Blank}, d.smtp \in {c.smtp, k, Blank},
         \A e \in Endpoints : d.endpoints[e] \in {c.endpoints[e], k, Absent}
  PROVE  Own(d) \subseteq Own(c) \cup {k}
BY KeysDiffer DEF Own, Encrypted

\* What an edit makes of a configuration with a key, or with none where it needs none.
LEMMA EditedKeepsSecrets ==
  ASSUME NEW edit \in Asked, edit.kind # "import", NEW c \in Contents, NEW k,
         k \in Keys \/ (k = None /\ ~ NeedsKey(edit, c))
  PROVE  /\ Edited(edit, c, k) \in Contents
         /\ Own(Edited(edit, c, k)) \subseteq Own(c) \cup {k}
<1> DEFINE d == Edited(edit, c, k)
<1>1. c = [legacy |-> c.legacy, malformed |-> c.malformed, endpoints |-> c.endpoints, store |-> c.store, smtp |-> c.smtp, schedule |-> c.schedule]
      /\ c.legacy \in BOOLEAN /\ c.malformed \in BOOLEAN /\ c.endpoints \in [Endpoints -> Secrets] /\ c.store \in Secrets /\ c.smtp \in Secrets
      /\ c.schedule \in [Endpoints -> {"absent", "off", "on"}]
  BY DEF Contents
<1>2. CASE edit.kind = "endpoint"
  <2>1. k \in Keys /\ d = EndpointSaved(c, edit.endpoint, k) /\ edit.endpoint \in Endpoints
    BY <1>2, EditForms DEF NeedsKey, Edited
  <2>2. d = [c EXCEPT !.endpoints = [@ EXCEPT ![edit.endpoint] = k]]
    BY <2>1, <1>1 DEF EndpointSaved
  <2>3. d \in Contents /\ d.store = c.store /\ d.smtp = c.smtp
        /\ \A e \in Endpoints : d.endpoints[e] \in {c.endpoints[e], k}
    BY <2>1, <2>2, <1>1 DEF Contents, Secrets
  <2> HIDE DEF d
  <2>4. QED
    BY <2>3, SecretsFrom DEF d
<1>3. CASE edit.kind = "forget"
  <2>1. d = EndpointDeleted(c, edit.endpoint) /\ edit.endpoint \in Endpoints
    BY <1>3, EditForms DEF NeedsKey, Edited
  <2>2. d = [c EXCEPT !.endpoints = [@ EXCEPT ![edit.endpoint] = Absent]]
    BY <2>1, <1>1 DEF EndpointDeleted
  <2>3. d \in Contents /\ d.store = c.store /\ d.smtp = c.smtp
        /\ \A e \in Endpoints : d.endpoints[e] \in {c.endpoints[e], Absent}
    BY <2>1, <2>2, <1>1 DEF Contents, Secrets
  <2> HIDE DEF d
  <2>4. QED
    BY <2>3, SecretsFrom DEF d
<1>4. CASE edit.kind = "store"
  <2>1. d = [c EXCEPT !.store = IF edit.blank THEN Reencrypted(c.store, k) ELSE k]
    BY <1>4, <1>1 DEF Edited, StoreSaved
  <2>2. edit.blank \in BOOLEAN /\ (k \in Keys \/ (edit.blank /\ c.store \notin Keys \cup {Plain}))
    BY <1>4, EditForms DEF NeedsKey
  <2>3. d \in Contents /\ d.store \in {c.store, k, Blank} /\ d.smtp = c.smtp
        /\ \A e \in Endpoints : d.endpoints[e] = c.endpoints[e]
    BY <2>1, <2>2, <1>1 DEF Contents, Secrets, Reencrypted
  <2> HIDE DEF d
  <2>4. QED
    BY <2>3, SecretsFrom DEF d
<1>5. CASE edit.kind = "smtp"
  <2>1. d = [c EXCEPT !.smtp = IF ~ edit.blank THEN k ELSE IF c.smtp = Absent THEN Blank ELSE c.smtp]
    BY <1>5, <1>1 DEF Edited, SmtpSaved
  <2>2. edit.blank \in BOOLEAN /\ (k \in Keys \/ edit.blank)
    BY <1>5, EditForms DEF NeedsKey
  <2>3. d \in Contents /\ d.smtp \in {c.smtp, k, Blank} /\ d.store = c.store
        /\ \A e \in Endpoints : d.endpoints[e] = c.endpoints[e]
    BY <2>1, <2>2, <1>1 DEF Contents, Secrets
  <2> HIDE DEF d
  <2>4. QED
    BY <2>3, SecretsFrom DEF d
<1>6. CASE edit.kind = "encrypt"
  <2>1. d = [c EXCEPT !.endpoints = [e \in Endpoints |-> IF c.endpoints[e] = Plain THEN k ELSE c.endpoints[e]]]
    BY <1>6, <1>1 DEF Edited, PasswordsEncrypted
  <2>2. k \in Keys \/ \A e \in Endpoints : c.endpoints[e] # Plain
    BY <1>6 DEF NeedsKey
  <2>3. d \in Contents /\ d.store = c.store /\ d.smtp = c.smtp
        /\ \A e \in Endpoints : d.endpoints[e] \in {c.endpoints[e], k}
    BY <2>1, <2>2, <1>1 DEF Contents, Secrets
  <2> HIDE DEF d
  <2>4. QED
    BY <2>3, SecretsFrom DEF d
<1>7. CASE edit.kind = "sanitise"
  <2>1. d = Sanitised(c)
    BY <1>7 DEF Edited
  <2>2. d \in Contents /\ d.store = c.store /\ d.smtp = c.smtp /\ d.endpoints = c.endpoints
    BY <2>1, <1>1 DEF Contents, Sanitised
  <2> HIDE DEF d
  <2>3. QED
    BY <2>2, SecretsFrom DEF d
<1>8. CASE edit.kind \in {"other", "startup", "use"}
  BY <1>8 DEF Edited
<1>9. QED
  BY <1>2, <1>3, <1>4, <1>5, <1>6, <1>7, <1>8, EditForms DEF AllKinds

-----------------------------------------------------------------------------
(* The calls *)

\* A call is for something; only what has been accepted is written as an import, and who
\* seeds has the key to write.
Sound(q) ==
  /\ q \in Calls
  /\ q.phase # "idle" => q.edit \in Asked
  /\ q.phase \notin {"idle", "write", "writing"} => q.edit.kind # "import"
  /\ q.phase \in {"seed", "seeding"} => q.key \in Keys

CallsIInv == ConfigTypeOK /\ \A a \in Callers : Sound(call[a])

-----------------------------------------------------------------------------
(* Every call is sound *)

LEMMA NoCallIsSound == Sound(NoCall)
BY EmptyIsContent DEF Sound, NoCall, Calls

LEMMA CallsInitially == ConfigInit => CallsIInv
BY NoCallIsSound, EmptyIsContent, ConfigConstants DEF ConfigInit, CallsIInv, ConfigTypeOK, Sound, ConfigConstants

LEMMA ReadIsContent == ConfigTypeOK => Read \in Contents
BY EmptyIsContent DEF ConfigTypeOK, Read

LEMMA PersistedIsKey == ConfigTypeOK => PersistedKey \in Keys \cup {None} /\ (PersistedKey # None => PersistedKey = keyFile)
BY DEF ConfigTypeOK, PersistedKey

\* After the read a call ends, or is about to write what its edit makes of it.
ToWrite(q, c, k) == [phase |-> "write", edit |-> q.edit, config |-> Edited(q.edit, c, k), key |-> k]

LEMMA GoesSomewhere ==
  ASSUME CallsIInv, NEW a \in Callers, call[a].phase \notin {"idle", "write", "writing"}, NEW c \in Contents, NEW k,
         k \in Keys \/ (k = None /\ ~ NeedsKey(call[a].edit, c)), Goes(a, c, k)
  PROVE  /\ \/ /\ call' = [call EXCEPT ![a] = NoCall] /\ call[a].edit.kind \notin {"endpoint", "store", "smtp", "other"}
               /\ call[a].edit.kind \in {"forget", "encrypt", "sanitise"} => Edited(call[a].edit, c, k) = c
            \/ /\ call' = [call EXCEPT ![a] = ToWrite(call[a], c, k)] /\ call[a].edit.kind \notin {"use", "startup"}
               /\ call[a].edit.kind = "sanitise" => Edited(call[a].edit, c, k) # c
         /\ Sound(ToWrite(call[a], c, k))
<1>1. call \in [Callers -> Calls] /\ Sound(call[a])
  BY DEF CallsIInv, ConfigTypeOK
<1>2. call[a].edit \in Asked /\ call[a].edit.kind # "import"
  BY <1>1 DEF Sound
<1>3. Edited(call[a].edit, c, k) \in Contents
  BY <1>2, EditedKeepsSecrets
<1>4. Sound(ToWrite(call[a], c, k))
  BY <1>2, <1>3 DEF Sound, ToWrite, Calls
<1> DEFINE new == Edited(call[a].edit, c, k)
           writes == \/ call[a].edit.kind \in {"endpoint", "store", "smtp", "other"}
                     \/ call[a].edit.kind \in {"forget", "encrypt", "sanitise"} /\ new # c
<1>5. call' = [call EXCEPT ![a] = IF writes THEN ToWrite(call[a], c, k) ELSE NoCall]
  BY <1>1 DEF Goes, ToWrite
<1>6. QED
  BY <1>2, <1>4, <1>5, EditForms DEF AllKinds

LEMMA OneCallMoves ==
  ASSUME CallsIInv, NEW a \in Callers, NEW q, Sound(q), call' = [call EXCEPT ![a] = q],
         file' \in Contents \cup {Torn}, bak' \in Contents \cup {None}, keyFile' \in Keys \cup {Missing, Torn},
         env' \in Envs, migrated' \in BOOLEAN, spoilt' \subseteq Keys, late' \in BOOLEAN
  PROVE  CallsIInv'
<1>1. call \in [Callers -> Calls] /\ q \in Calls
  BY DEF CallsIInv, ConfigTypeOK, Sound
<1>2. call' \in [Callers -> Calls]
  BY <1>1
<1>3. \A b \in Callers : Sound(call'[b])
  BY <1>1 DEF CallsIInv
<1>4. QED
  BY <1>2, <1>3 DEF CallsIInv, ConfigTypeOK, Sound

\* What each step makes of the call that takes it.
LEMMA AskMoves ==
  ASSUME CallsIInv, NEW edit \in Edits, Ask(edit)
  PROVE  LET q == [NoCall EXCEPT !.phase = "ensure", !.edit = edit]
         IN call' = [call EXCEPT ![Loop] = q] /\ Sound(q)
BY NoCallIsSound DEF Ask, Sound, NoCall, Calls, Asked

LEMMA ImportMoves ==
  ASSUME CallsIInv, NEW edit \in Edits, Import(edit)
  PROVE  LET q == [NoCall EXCEPT !.phase = "write", !.edit = edit, !.config = edit.content]
         IN call' = [call EXCEPT ![Loop] = q] /\ Sound(q)
<1>1. edit \in Asked /\ edit.content \in Contents
  BY EditForms DEF Import, Asked
<1>2. QED
  BY <1>1 DEF Import, Sound, NoCall, Calls

LEMMA UsesMoves ==
  ASSUME CallsIInv, NEW r \in Readers, Uses(r)
  PROVE  LET q == [NoCall EXCEPT !.phase = "ensure", !.edit = Use]
         IN call' = [call EXCEPT ![r] = q] /\ Sound(q)
BY EmptyIsContent DEF Uses, Sound, NoCall, Calls, Asked, Use

LEMMA EnsureMoves ==
  ASSUME CallsIInv, NEW a \in Callers, Ensure(a)
  PROVE  LET q == IF ~ migrated /\ Read.legacy THEN [call[a] EXCEPT !.phase = "migrate", !.config = Migrated(Read)]
                  ELSE [call[a] EXCEPT !.phase = "read"]
         IN call' = [call EXCEPT ![a] = q] /\ Sound(q)
<1>1. call \in [Callers -> Calls] /\ Sound(call[a]) /\ Migrated(Read) \in Contents
  BY ReadIsContent, MigratedIsContent DEF CallsIInv, ConfigTypeOK
<1>2. QED
  BY <1>1 DEF Ensure, Sound, Calls

LEMMA ReadMoves ==
  ASSUME CallsIInv, NEW a \in Callers, ReadConfig(a)
  PROVE  \/ LET q == [call[a] EXCEPT !.phase = "key", !.config = Read]
            IN call' = [call EXCEPT ![a] = q] /\ Sound(q)
         \/ Goes(a, Read, None) /\ ~ NeedsKey(call[a].edit, Read)
<1>1. call \in [Callers -> Calls] /\ Sound(call[a]) /\ Read \in Contents
  BY ReadIsContent DEF CallsIInv, ConfigTypeOK
<1>2. CASE NeedsKey(call[a].edit, Read)
  <2>2. Sound([call[a] EXCEPT !.phase = "key", !.config = Read])
    BY <1>1 DEF ReadConfig, Sound, Calls
  <2>3. QED
    BY <1>1, <1>2, <2>2 DEF ReadConfig
<1>3. QED
  BY <1>1, <1>2 DEF ReadConfig

LEMMA SeedMoves ==
  ASSUME CallsIInv, NEW a \in Callers, KeySeeded(a)
  PROVE  \E k \in Keys : LET q == [call[a] EXCEPT !.phase = "seed", !.key = k]
                         IN call' = [call EXCEPT ![a] = q] /\ Sound(q)
<1>1. call \in [Callers -> Calls] /\ Sound(call[a])
  BY DEF CallsIInv, ConfigTypeOK
<1>2. PICK k \in Keys : call' = [call EXCEPT ![a].phase = "seed", ![a].key = k]
  BY DEF KeySeeded
<1>3. Sound([call[a] EXCEPT !.phase = "seed", !.key = k])
  BY <1>1 DEF KeySeeded, Sound, Calls
<1>4. QED
  BY <1>1, <1>2, <1>3

LEMMA OpenMoves ==
  ASSUME CallsIInv, NEW a \in Callers, KeyOpened(a) \/ Opened(a)
  PROVE  \E phase \in {"seeding", "writing", "migrating"} :
           LET q == [call[a] EXCEPT !.phase = phase]
           IN /\ call' = [call EXCEPT ![a] = q] /\ Sound(q)
              /\ phase = "seeding" => call[a].phase = "seed"
              /\ phase = "writing" => call[a].phase = "write"
              /\ phase = "migrating" => call[a].phase = "migrate"
<1>1. call \in [Callers -> Calls] /\ Sound(call[a])
  BY DEF CallsIInv, ConfigTypeOK
<1>2. CASE KeyOpened(a)
  BY <1>1, <1>2 DEF KeyOpened, Sound, Calls
<1>3. CASE Opened(a)
  <2>1. CASE call[a].phase = "write"
    BY <1>1, <1>3, <2>1 DEF Opened, Sound, Calls
  <2>2. CASE call[a].phase = "migrate"
    BY <1>1, <1>3, <2>2 DEF Opened, Sound, Calls
  <2>3. QED
    BY <1>3, <2>1, <2>2 DEF Opened
<1>4. QED
  BY <1>2, <1>3

LEMMA WrittenMoves ==
  ASSUME CallsIInv, NEW a \in Callers, Written(a)
  PROVE  \E q : /\ call' = [call EXCEPT ![a] = q] /\ Sound(q)
                /\ \/ call[a].phase = "writing" /\ call[a].edit.kind = "import"
                      /\ q = [NoCall EXCEPT !.phase = "ensure", !.edit = Sanitise]
                   \/ call[a].phase = "migrating" /\ q = [call[a] EXCEPT !.phase = "read"]
                   \/ call[a].phase = "writing" /\ call[a].edit.kind # "import" /\ q = NoCall
<1>1. call \in [Callers -> Calls] /\ Sound(call[a])
  BY DEF CallsIInv, ConfigTypeOK
<1>2. Sound([NoCall EXCEPT !.phase = "ensure", !.edit = Sanitise])
  BY EmptyIsContent DEF Sound, NoCall, Calls, Asked, Sanitise
<1>3. CASE call[a].phase = "writing" /\ call[a].edit.kind = "import"
  BY <1>2, <1>3 DEF Written
<1>4. CASE call[a].phase = "migrating"
  <2>1. Sound([call[a] EXCEPT !.phase = "read"])
    BY <1>1, <1>4 DEF Sound, Calls
  <2>2. QED
    BY <1>4, <2>1 DEF Written
<1>5. CASE call[a].phase = "writing" /\ call[a].edit.kind # "import"
  BY <1>5, NoCallIsSound DEF Written
<1>6. QED
  BY <1>3, <1>4, <1>5 DEF Written

LEMMA CrashMoves ==
  ASSUME Crash
  PROVE  /\ \A a \in Callers : Sound(call'[a]) /\ call'[a].config = Empty /\ call'[a].phase \in {"idle", "ensure"}
         /\ \A a \in Callers : a # Loop => call'[a] = NoCall
         /\ call'[Loop].phase = "ensure" /\ call'[Loop].edit = Startup /\ call' \in [Callers -> Calls]
<1> DEFINE q == [NoCall EXCEPT !.phase = "ensure", !.edit = Startup]
<1>1. Sound(q) /\ q.config = Empty /\ q.phase = "ensure" /\ q.edit = Startup
  BY EmptyIsContent DEF Sound, NoCall, Calls, Asked, Startup
<1>2. call' = [[a \in Callers |-> NoCall] EXCEPT ![Loop] = q]
  BY KeysDiffer DEF Crash
<1> HIDE DEF q
<1>3. \A a \in Callers : call'[a] = IF a = Loop THEN q ELSE NoCall
  BY <1>2
<1>4. NoCall.config = Empty /\ NoCall.phase = "idle"
  BY DEF NoCall
<1>5. call' \in [Callers -> Calls]
  BY <1>1, <1>2, NoCallIsSound DEF Sound
<1>6. QED
  BY <1>1, <1>3, <1>4, <1>5, NoCallIsSound, KeysDiffer

LEMMA CallsInductive == CallsIInv /\ [ConfigNext]_configVars => CallsIInv'
<1> SUFFICES ASSUME CallsIInv, [ConfigNext]_configVars
             PROVE  CallsIInv'
  OBVIOUS
<1>1. /\ ConfigTypeOK /\ Loop \in Callers /\ Read \in Contents
      /\ file \in Contents \cup {Torn} /\ bak \in Contents \cup {None} /\ keyFile \in Keys \cup {Missing, Torn}
      /\ env \in Envs /\ migrated \in BOOLEAN /\ spoilt \subseteq Keys /\ late \in BOOLEAN
  BY KeysDiffer, ReadIsContent DEF CallsIInv, ConfigTypeOK
<1>2. \A a \in Callers : call[a] \in Calls /\ call[a].config \in Contents /\ Sound(call[a])
  BY <1>1 DEF CallsIInv, ConfigTypeOK, Calls
<1>3. ASSUME NEW edit \in Edits, Ask(edit)
      PROVE  CallsIInv'
  BY <1>1, <1>3, AskMoves, OneCallMoves DEF Ask
<1>4. ASSUME NEW edit \in Edits, Import(edit)
      PROVE  CallsIInv'
  BY <1>1, <1>4, ImportMoves, OneCallMoves DEF Import, BackedUp
<1>5. ASSUME NEW r \in Readers, Uses(r)
      PROVE  CallsIInv'
  BY <1>1, <1>5, UsesMoves, OneCallMoves DEF Uses, Callers
<1>6. ASSUME NEW a \in Callers, Ensure(a)
      PROVE  CallsIInv'
  BY <1>1, <1>6, EnsureMoves, OneCallMoves DEF Ensure
<1>7. ASSUME NEW a \in Callers, NEW c \in Contents, NEW k, Goes(a, c, k), call[a].phase \notin {"idle", "write", "writing"},
             k \in Keys \/ (k = None /\ ~ NeedsKey(call[a].edit, c)),
             UNCHANGED <<file, bak, env, migrated, late>>, keyFile' \in {keyFile, k} /\ (keyFile' # keyFile => k \in Keys),
             spoilt' \in {spoilt, spoilt \cup {k}} /\ (spoilt' # spoilt => k \in Keys)
      PROVE  CallsIInv'
  <2>1. /\ \/ call' = [call EXCEPT ![a] = NoCall]
           \/ call' = [call EXCEPT ![a] = ToWrite(call[a], c, k)]
        /\ Sound(ToWrite(call[a], c, k))
    BY <1>7, GoesSomewhere
  <2>2. QED
    <3>1. /\ file' \in Contents \cup {Torn} /\ bak' \in Contents \cup {None}
          /\ keyFile' \in Keys \cup {Missing, Torn} /\ env' \in Envs /\ migrated' \in BOOLEAN
          /\ spoilt' \subseteq Keys /\ late' \in BOOLEAN
      BY <1>1, <1>7
    <3>2. CASE call' = [call EXCEPT ![a] = NoCall]
      BY <3>1, <3>2, NoCallIsSound, OneCallMoves
    <3>3. CASE call' = [call EXCEPT ![a] = ToWrite(call[a], c, k)]
      BY <2>1, <3>1, <3>3, OneCallMoves
    <3>4. QED
      BY <2>1, <3>2, <3>3
<1>8. ASSUME NEW a \in Callers, ReadConfig(a)
      PROVE  CallsIInv'
  <2>1. CASE Goes(a, Read, None) /\ ~ NeedsKey(call[a].edit, Read)
    BY <1>1, <1>7, <1>8, <2>1 DEF ReadConfig
  <2>2. QED
    BY <1>1, <1>8, <2>1, ReadMoves, OneCallMoves DEF ReadConfig
<1>9. ASSUME NEW a \in Callers, KeyFound(a)
      PROVE  CallsIInv'
  BY <1>1, <1>2, <1>7, <1>9, PersistedIsKey DEF KeyFound
<1>10. ASSUME NEW a \in Callers, KeyWritten(a) \/ KeyNotWritten(a)
       PROVE  CallsIInv'
  BY <1>1, <1>2, <1>7, <1>10 DEF KeyWritten, KeyNotWritten, Seeds, Sound
<1>11. ASSUME NEW a \in Callers, KeySeeded(a)
       PROVE  CallsIInv'
  <2>1. PICK k \in Keys :
          /\ LET others == {b \in Callers \ {a} : Seeds(b)}
             IN spoilt' = spoilt \cup ({keyFile} \cap Keys)
                  \cup (IF others = {} THEN {} ELSE {k} \cup {call[b].key : b \in others})
    BY <1>11 DEF KeySeeded
  <2>2. spoilt' \subseteq Keys
    BY <1>1, <1>2, <2>1 DEF Sound, Seeds
  <2>3. QED
    BY <1>1, <1>11, <2>2, SeedMoves, OneCallMoves DEF KeySeeded
<1>12. ASSUME NEW a \in Callers, KeyOpened(a)
       PROVE  CallsIInv'
  <2>1. PICK phase \in {"seeding", "writing", "migrating"} :
          LET q == [call[a] EXCEPT !.phase = phase] IN call' = [call EXCEPT ![a] = q] /\ Sound(q)
    BY <1>12, OpenMoves
  <2>2. QED
    BY <1>1, <1>12, <2>1, OneCallMoves DEF KeyOpened
<1>13. ASSUME NEW a \in Callers, Opened(a)
       PROVE  CallsIInv'
  <2>1. PICK phase \in {"seeding", "writing", "migrating"} :
          LET q == [call[a] EXCEPT !.phase = phase] IN call' = [call EXCEPT ![a] = q] /\ Sound(q)
    BY <1>13, OpenMoves
  <2>2. QED
    BY <1>1, <1>13, <2>1, OneCallMoves DEF Opened
<1>14. ASSUME NEW a \in Callers, Written(a)
       PROVE  CallsIInv'
  <2>1. PICK q : call' = [call EXCEPT ![a] = q] /\ Sound(q)
    BY <1>14, WrittenMoves
  <2>2. file' \in Contents /\ migrated' \in BOOLEAN /\ UNCHANGED <<bak, keyFile, env, spoilt, late>>
    BY <1>1, <1>2, <1>14 DEF Written
  <2>3. QED
    BY <1>1, <2>1, <2>2, OneCallMoves
<1>15. CASE Crash
  BY <1>1, <1>15, CrashMoves DEF Crash, CallsIInv, ConfigTypeOK
<1>16. CASE UNCHANGED configVars
  BY <1>16 DEF configVars, CallsIInv, ConfigTypeOK
<1>17. QED
  BY <1>3, <1>4, <1>5, <1>6, <1>8, <1>9, <1>10, <1>11, <1>12, <1>13, <1>14, <1>15, <1>16 DEF ConfigNext

\* Every call of every caller is one the code can be in, whatever the interleaving and
\* wherever the process is killed: an import is never re-encrypted or decrypted on the
\* way to the file, and no key is written that was not drawn.
THEOREM CallsInvariant == ConfigSpec => []CallsIInv
BY CallsInitially, CallsInductive, PTL DEF ConfigSpec

\* The types of the configuration store are kept by every step, for any callers.
THEOREM ConfigTypes == ConfigSpec => []ConfigTypeOK
<1>1. CallsIInv => ConfigTypeOK
  BY DEF CallsIInv
<1>2. QED
  BY <1>1, CallsInvariant, PTL

-----------------------------------------------------------------------------
(* Key and ciphertext share fate *)

Openable == {keyFile} \cup spoilt

\* What is encrypted, in the file and in what a call is about to write, opens with the key
\* on the volume or is spoilt; so is the key on the volume while somebody seeds
\* another one, and both keys where two seed at once.
SecretIInv ==
  /\ CallsIInv
  /\ Own(Read) \subseteq Openable
  /\ \A a \in Callers : Own(call[a].config) \subseteq Openable
  /\ \A a \in Callers : Seeds(a) => keyFile \notin Keys \ spoilt
  /\ \A a, b \in Callers : a # b /\ Seeds(a) /\ Seeds(b) => call[a].key \in spoilt

LEMMA SecretInitially == ConfigInit => SecretIInv
<1>1. ConfigInit => Read = Empty /\ \A a \in Callers : call[a].config = Empty /\ call[a].phase = "idle"
  BY DEF ConfigInit, Read, NoCall
<1>2. QED
  BY <1>1, CallsInitially, EmptyIsContent DEF SecretIInv, Seeds

\* A step of one call that leaves the key file alone.
LEMMA SecretOneCall ==
  ASSUME SecretIInv, CallsIInv', NEW a \in Callers, NEW q, call' = [call EXCEPT ![a] = q], UNCHANGED keyFile,
         spoilt \subseteq spoilt', Own(q.config) \subseteq {keyFile} \cup spoilt',
         q.phase \in {"seed", "seeding"} =>
           /\ keyFile \notin Keys \ spoilt'
           /\ \A b \in Callers \ {a} : Seeds(b) => q.key \in spoilt' /\ call[b].key \in spoilt',
         file' \in {file, Torn, call[a].config}
  PROVE  SecretIInv'
<1>1. \A b \in Callers : call'[b] = IF b = a THEN q ELSE call[b]
  BY DEF SecretIInv, CallsIInv, ConfigTypeOK
<1>2. Read' \in {Read, Empty, call[a].config}
  BY DEF Read
<1>3. Own(Read)' \subseteq Openable'
  <2>1. Own(Read)' = Own(Read')
    BY DEF Own, Encrypted
  <2>2. QED
    BY <1>2, <2>1, EmptyIsContent DEF SecretIInv, Openable
<1>4. \A b \in Callers : Own(call'[b].config) \subseteq Openable'
  BY <1>1 DEF SecretIInv, Openable
<1>5. \A b \in Callers : Own(call[b].config)' = Own(call'[b].config)
  BY DEF Own, Encrypted
<1>6. \A b \in Callers : Seeds(b)' => keyFile \notin Keys \ spoilt'
  BY <1>1 DEF SecretIInv, Seeds
<1>7. \A b, c \in Callers : b # c /\ Seeds(b)' /\ Seeds(c)' => call'[b].key \in spoilt'
  BY <1>1 DEF SecretIInv, Seeds
<1>8. QED
  BY <1>3, <1>4, <1>5, <1>6, <1>7 DEF SecretIInv

LEMMA SecretAsked ==
  ASSUME SecretIInv, CallsIInv', (\E edit \in Edits : Ask(edit) \/ Import(edit)) \/ \E r \in Readers : Uses(r)
  PROVE  SecretIInv'
<1>1. CallsIInv /\ Loop \in Callers /\ Readers \subseteq Callers
  BY KeysDiffer DEF SecretIInv, Callers
<1>2. ASSUME NEW edit \in Edits, Ask(edit)
      PROVE  SecretIInv'
  <2> DEFINE q == [NoCall EXCEPT !.phase = "ensure", !.edit = edit]
  <2>1. call' = [call EXCEPT ![Loop] = q] /\ q.config = Empty /\ q.phase = "ensure"
    BY <1>1, <1>2, AskMoves DEF NoCall
  <2> HIDE DEF q
  <2>2. QED
    BY <1>1, <1>2, <2>1, EmptyIsContent, SecretOneCall DEF Ask
<1>3. ASSUME NEW edit \in Edits, Import(edit)
      PROVE  SecretIInv'
  <2> DEFINE q == [NoCall EXCEPT !.phase = "write", !.edit = edit, !.config = edit.content]
  <2>1. call' = [call EXCEPT ![Loop] = q] /\ q.config = edit.content /\ q.phase = "write"
    BY <1>1, <1>3, ImportMoves DEF NoCall
  <2>2. Own(edit.content) \subseteq Openable
    BY <1>3 DEF Import, Own, Openable
  <2> HIDE DEF q
  <2>3. QED
    BY <1>1, <1>3, <2>1, <2>2, SecretOneCall DEF Import, Openable
<1>4. ASSUME NEW r \in Readers, Uses(r)
      PROVE  SecretIInv'
  <2> DEFINE q == [NoCall EXCEPT !.phase = "ensure", !.edit = Use]
  <2>1. call' = [call EXCEPT ![r] = q] /\ q.config = Empty /\ q.phase = "ensure"
    BY <1>1, <1>4, UsesMoves DEF NoCall
  <2> HIDE DEF q
  <2>2. QED
    BY <1>1, <1>4, <2>1, EmptyIsContent, SecretOneCall DEF Uses
<1>5. QED
  BY <1>2, <1>3, <1>4

\* No key gets in but the one at hand.
LEMMA SecretGoes ==
  ASSUME SecretIInv, NEW a \in Callers, call[a].phase \notin {"idle", "write", "writing"}, NEW c \in Contents, NEW k,
         k \in Keys \/ (k = None /\ ~ NeedsKey(call[a].edit, c)), Goes(a, c, k)
  PROVE  \E q : /\ call' = [call EXCEPT ![a] = q]
                /\ Own(q.config) \subseteq Own(c) \cup {k} /\ q.phase \notin {"seed", "seeding"}
<1>1. CallsIInv /\ call[a].edit \in Asked /\ call[a].edit.kind # "import"
  BY DEF SecretIInv, CallsIInv, Sound
<1>2. Own(Edited(call[a].edit, c, k)) \subseteq Own(c) \cup {k}
  BY <1>1, EditedKeepsSecrets
<1>3. NoCall.config = Empty /\ NoCall.phase = "idle"
  BY DEF NoCall
<1>4. ToWrite(call[a], c, k).config = Edited(call[a].edit, c, k) /\ ToWrite(call[a], c, k).phase = "write"
  BY DEF ToWrite
<1>5. CASE call' = [call EXCEPT ![a] = NoCall]
  BY <1>3, <1>5, EmptyIsContent
<1>6. CASE call' = [call EXCEPT ![a] = ToWrite(call[a], c, k)]
  BY <1>2, <1>4, <1>6
<1>7. QED
  BY <1>1, <1>5, <1>6, GoesSomewhere

LEMMA SecretInCalls ==
  ASSUME SecretIInv, CallsIInv', NEW a \in Callers,
         Ensure(a) \/ ReadConfig(a) \/ KeyFound(a) \/ KeySeeded(a) \/ Opened(a) \/ Written(a)
  PROVE  SecretIInv'
<1>1. /\ CallsIInv /\ ConfigTypeOK /\ Read \in Contents /\ Own(Read) \subseteq {keyFile} \cup spoilt
      /\ call[a] \in Calls /\ call[a].config \in Contents /\ Own(call[a].config) \subseteq {keyFile} \cup spoilt
  BY ReadIsContent DEF SecretIInv, CallsIInv, ConfigTypeOK, Calls, Openable
<1>2. CASE Ensure(a)
  <2> DEFINE q == IF ~ migrated /\ Read.legacy THEN [call[a] EXCEPT !.phase = "migrate", !.config = Migrated(Read)]
                  ELSE [call[a] EXCEPT !.phase = "read"]
  <2>1. call' = [call EXCEPT ![a] = q] /\ UNCHANGED <<file, keyFile, spoilt>>
    BY <1>1, <1>2, EnsureMoves DEF Ensure
  <2>2. q.config \in {Migrated(Read), call[a].config} /\ q.phase \in {"migrate", "read"}
    BY <1>1 DEF Calls
  <2> HIDE DEF q
  <2>3. Own(q.config) \subseteq {keyFile} \cup spoilt'
    BY <1>1, <2>1, <2>2, MigratedIsContent
  <2>4. QED
    BY <2>1, <2>2, <2>3, SecretOneCall
<1>3. CASE ReadConfig(a)
  <2>1. call[a].phase = "read" /\ UNCHANGED <<file, keyFile, spoilt>>
    BY <1>3 DEF ReadConfig
  <2>2. CASE Goes(a, Read, None) /\ ~ NeedsKey(call[a].edit, Read)
    <3>1. PICK q : /\ call' = [call EXCEPT ![a] = q]
                   /\ Own(q.config) \subseteq Own(Read) \cup {None} /\ q.phase \notin {"seed", "seeding"}
      BY <1>1, <2>1, <2>2, SecretGoes
    <3>2. Own(q.config) \subseteq {keyFile} \cup spoilt'
      BY <1>1, <2>1, <3>1, KeysDiffer DEF Own
    <3>3. QED
      BY <2>1, <3>1, <3>2, SecretOneCall
  <2>3. CASE ~ (Goes(a, Read, None) /\ ~ NeedsKey(call[a].edit, Read))
    <3> DEFINE q == [call[a] EXCEPT !.phase = "key", !.config = Read]
    <3>1. call' = [call EXCEPT ![a] = q]
      BY <1>1, <1>3, <2>3, ReadMoves
    <3>2. q.config = Read /\ q.phase = "key"
      BY <1>1 DEF Calls
    <3> HIDE DEF q
    <3>3. QED
      BY <1>1, <2>1, <3>1, <3>2, SecretOneCall
  <2>4. QED
    BY <2>2, <2>3
<1>4. CASE KeyFound(a)
  <2>1. call[a].phase = "key" /\ UNCHANGED <<file, keyFile, spoilt>> /\ keyFile \in Keys /\ Goes(a, call[a].config, keyFile)
    BY <1>1, <1>4, PersistedIsKey DEF KeyFound
  <2>2. PICK q : /\ call' = [call EXCEPT ![a] = q]
                 /\ Own(q.config) \subseteq Own(call[a].config) \cup {keyFile} /\ q.phase \notin {"seed", "seeding"}
    BY <1>1, <2>1, SecretGoes
  <2>3. QED
    BY <1>1, <2>1, <2>2, SecretOneCall
<1>5. CASE KeySeeded(a)
  <2>1. PICK k \in Keys :
          /\ call' = [call EXCEPT ![a].phase = "seed", ![a].key = k]
          /\ LET others == {b \in Callers \ {a} : Seeds(b)}
             IN spoilt' = spoilt \cup ({keyFile} \cap Keys)
                  \cup (IF others = {} THEN {} ELSE {k} \cup {call[b].key : b \in others})
    BY <1>5 DEF KeySeeded
  <2> DEFINE q == [call[a] EXCEPT !.phase = "seed", !.key = k]
  <2>2. q.config = call[a].config /\ q.key = k /\ call' = [call EXCEPT ![a] = q]
    BY <1>1, <2>1 DEF Calls, ConfigTypeOK
  <2>3. UNCHANGED <<file, keyFile>> /\ spoilt \subseteq spoilt' /\ keyFile \notin Keys \ spoilt'
    BY <1>5, <2>1 DEF KeySeeded
  <2>4. \A b \in Callers \ {a} : Seeds(b) => k \in spoilt' /\ call[b].key \in spoilt'
    BY <2>1
  <2> HIDE DEF q
  <2>5. QED
    BY <1>1, <2>2, <2>3, <2>4, SecretOneCall
<1>6. CASE Opened(a)
  <2>1. PICK phase \in {"seeding", "writing", "migrating"} :
          /\ call' = [call EXCEPT ![a] = [call[a] EXCEPT !.phase = phase]]
          /\ phase = "seeding" => call[a].phase = "seed"
    BY <1>1, <1>6, OpenMoves
  <2> DEFINE q == [call[a] EXCEPT !.phase = phase]
  <2>2. q.config = call[a].config /\ q.phase \notin {"seed", "seeding"} /\ call' = [call EXCEPT ![a] = q]
    BY <1>1, <1>6, <2>1 DEF Calls, Opened
  <2> HIDE DEF q
  <2>3. QED
    BY <1>1, <1>6, <2>2, SecretOneCall DEF Opened
<1>7. CASE Written(a)
  <2>1. PICK q : /\ call' = [call EXCEPT ![a] = q]
                 /\ \/ q = [NoCall EXCEPT !.phase = "ensure", !.edit = Sanitise]
                    \/ q = [call[a] EXCEPT !.phase = "read"]
                    \/ q = NoCall
    BY <1>1, <1>7, WrittenMoves
  <2>2. q.config \in {Empty, call[a].config} /\ q.phase \notin {"seed", "seeding"}
    <3>1. CASE q = [call[a] EXCEPT !.phase = "read"]
      BY <1>1, <3>1 DEF Calls
    <3>2. CASE q = NoCall
      BY <3>2 DEF NoCall
    <3>3. CASE q = [NoCall EXCEPT !.phase = "ensure", !.edit = Sanitise]
      <4>1. q = [phase |-> "ensure", edit |-> Sanitise, config |-> Empty, key |-> None]
        BY <3>3 DEF NoCall
      <4>2. QED
        BY <4>1
    <3>4. QED
      BY <2>1, <3>1, <3>2, <3>3
  <2>3. QED
    BY <1>1, <1>7, <2>1, <2>2, EmptyIsContent, SecretOneCall DEF Written
<1>8. QED
  BY <1>2, <1>3, <1>4, <1>5, <1>6, <1>7

LEMMA SecretKeyWrites ==
  ASSUME SecretIInv, CallsIInv', NEW a \in Callers, KeyOpened(a) \/ KeyWritten(a) \/ KeyNotWritten(a)
  PROVE  SecretIInv'
<1>1. /\ CallsIInv /\ ConfigTypeOK /\ call \in [Callers -> Calls] /\ Sound(call[a])
      /\ call[a] \in Calls /\ call[a].config \in Contents /\ Seeds(a)
  BY DEF SecretIInv, CallsIInv, ConfigTypeOK, Calls, KeyOpened, KeyWritten, KeyNotWritten, Seeds
<1>2. UNCHANGED file /\ Own(Read)' = Own(Read) /\ \A b \in Callers : Own(call[b].config)' = Own(call'[b].config)
  BY DEF KeyOpened, KeyWritten, KeyNotWritten, Own, Encrypted, Read
<1>3. /\ keyFile \notin Keys \ spoilt /\ Own(Read) \subseteq spoilt /\ \A b \in Callers : Own(call[b].config) \subseteq spoilt
  BY <1>1 DEF SecretIInv, Own, Openable
<1>4. CASE KeyOpened(a)
  <2>1. PICK phase \in {"seeding", "writing", "migrating"} :
          /\ call' = [call EXCEPT ![a] = [call[a] EXCEPT !.phase = phase]]
          /\ phase = "writing" => call[a].phase = "write"
          /\ phase = "migrating" => call[a].phase = "migrate"
    BY <1>1, <1>4, OpenMoves
  <2>2. \A b \in Callers : call'[b].config = call[b].config /\ call'[b].key = call[b].key /\ (Seeds(b)' => Seeds(b))
    BY <1>1, <2>1 DEF Calls, Seeds
  <2>3. keyFile' = Torn /\ spoilt' = spoilt
    BY <1>4 DEF KeyOpened
  <2>4. QED
    BY <1>2, <1>3, <2>2, <2>3, KeysDiffer DEF SecretIInv, Openable
<1> DEFINE k == call[a].key
<1>5. CASE KeyWritten(a)
  <2>1. call[a].phase = "seeding" /\ k \in Keys /\ keyFile' = k /\ spoilt' = spoilt /\ Goes(a, call[a].config, k)
    BY <1>1, <1>5 DEF KeyWritten, Sound
  <2>2. \A b \in Callers \ {a} : Seeds(b) => k \in spoilt
    BY <1>1 DEF SecretIInv
  <2> HIDE DEF k
  <2>3. PICK q : /\ call' = [call EXCEPT ![a] = q]
                 /\ Own(q.config) \subseteq Own(call[a].config) \cup {k} /\ q.phase \notin {"seed", "seeding"}
    BY <1>1, <2>1, SecretGoes
  <2>4. \A b \in Callers : call'[b] = IF b = a THEN q ELSE call[b]
    BY <1>1, <2>3
  <2>5. \A b \in Callers : Own(call'[b].config) \subseteq {k} \cup spoilt
    BY <1>3, <2>3, <2>4
  <2>6. \A b \in Callers : Seeds(b)' => b # a /\ Seeds(b) /\ call'[b] = call[b]
    BY <2>3, <2>4 DEF Seeds
  <2>7. QED
    BY <1>2, <1>3, <2>1, <2>2, <2>5, <2>6 DEF SecretIInv, Openable
<1>6. CASE KeyNotWritten(a)
  <2>1. /\ call[a].phase \in {"seed", "seeding"} /\ k \in Keys /\ keyFile' = keyFile /\ spoilt' = spoilt \cup {k}
        /\ Goes(a, call[a].config, k)
    BY <1>1, <1>6 DEF KeyNotWritten, Sound, Seeds
  <2> HIDE DEF k
  <2>2. PICK q : /\ call' = [call EXCEPT ![a] = q]
                 /\ Own(q.config) \subseteq Own(call[a].config) \cup {k} /\ q.phase \notin {"seed", "seeding"}
    BY <1>1, <2>1, SecretGoes
  <2>3. Own(q.config) \subseteq {keyFile} \cup spoilt'
    BY <1>3, <2>1, <2>2
  <2>4. QED
    BY <1>2, <2>1, <2>2, <2>3, SecretOneCall
<1>7. QED
  BY <1>4, <1>5, <1>6

LEMMA SecretInductive == SecretIInv /\ [ConfigNext]_configVars => SecretIInv'
<1> SUFFICES ASSUME SecretIInv, [ConfigNext]_configVars
             PROVE  SecretIInv'
  OBVIOUS
<1>1. CallsIInv'
  BY CallsInductive DEF SecretIInv
<1>2. CASE Crash
  <2>1. Own(Read)' = Own(Read) /\ \A b \in Callers : Own(call[b].config)' = Own(call'[b].config)
    BY <1>2 DEF Crash, Own, Encrypted, Read
  <2>2. UNCHANGED <<keyFile, spoilt>> /\ \A b \in Callers : call'[b].config = Empty /\ call'[b].phase \in {"idle", "ensure"}
    BY <1>2, CrashMoves DEF Crash
  <2>3. QED
    BY <1>1, <2>1, <2>2, EmptyIsContent DEF SecretIInv, Openable, Seeds
<1>3. CASE UNCHANGED configVars
  <2>1. Own(Read)' = Own(Read) /\ \A b \in Callers : Own(call[b].config)' = Own(call[b].config)
    BY <1>3 DEF configVars, Own, Encrypted, Read
  <2>2. QED
    BY <1>1, <1>3, <2>1 DEF SecretIInv, configVars, Openable, Seeds
<1>4. QED
  BY <1>1, <1>2, <1>3, SecretAsked, SecretInCalls, SecretKeyWrites DEF ConfigNext

\* Whatever this installation has encrypted opens with the key on the volume, after any
\* crash, import and change of ENCRYPTION_KEY and for any number of callers, unless its
\* key could not be persisted, was seeded beside another, or could not be read once.
THEOREM OwnSecretsStayReadable == ConfigSpec => []OwnSecretsReadable
<1>1. SecretIInv => OwnSecretsReadable
  BY DEF SecretIInv, OwnSecretsReadable, Own, Openable
<1>2. QED
  BY <1>1, SecretInitially, SecretInductive, PTL DEF ConfigSpec

-----------------------------------------------------------------------------
(* Imports *)

Resolved(c) == \A e \in Endpoints : c.schedule[e] = "on" => c.endpoints[e] # Absent

\* Two forms of one imported file, before and after its migration.
Alike(c, d) == c.endpoints = d.endpoints /\ c.schedule = d.schedule /\ c.malformed = d.malformed

NoneMigrates == \A r \in Readers : ~ Migrates(r)

\* What the loop knows while it sanitises: the file, unless a thread has just emptied it, and what
\* the one thread that may be migrating is about to write are forms of the same import.
SanitisingIInv ==
  /\ call[Loop].phase \in {"migrate", "migrating"} => NoneMigrates
  /\ call[Loop].phase \in {"ensure", "read"} =>
       \A r \in Readers : Migrates(r) /\ file # Torn => Alike(file, call[r].config)
  /\ call[Loop].phase \in {"key", "seed", "seeding"} =>
       /\ file # Torn => Alike(file, call[Loop].config)
       /\ \A r \in Readers : Migrates(r) => Alike(call[r].config, call[Loop].config)
  /\ call[Loop].phase \in {"write", "writing"} => Resolved(call[Loop].config)
  /\ \A r, q \in Readers : Migrates(r) /\ Migrates(q) => r = q

Importing == call[Loop].phase \in {"write", "writing"} /\ call[Loop].edit.kind = "import"

\* Threads read and migrate; the loop never gets past its first read of a new file
\* without a migration having been decided.
ImportIInv ==
  /\ CallsIInv
  /\ \A r \in Readers : call[r].phase # "idle" => call[r].edit = Use /\ call[r].phase \notin {"write", "writing"}
  /\ call[Loop].phase # "ensure" => migrated
  /\ ~ late /\ (~ migrated \/ Importing) => NoneMigrates
  /\ ~ late /\ call[Loop].edit = Sanitise => SanitisingIInv

LEMMA EditsAreTold ==
  /\ Use.kind = "use" /\ Startup.kind = "startup" /\ Sanitise.kind = "sanitise"
  /\ NoCall.edit # Sanitise /\ NoCall.phase = "idle" /\ NoCall.config = Empty
  /\ \A edit \in Edits : edit # Sanitise
<1>1. Use.kind = "use" /\ Startup.kind = "startup" /\ Sanitise.kind = "sanitise"
  BY DEF Use, Startup, Sanitise
<1>2. NoCall.edit # Sanitise /\ NoCall.phase = "idle" /\ NoCall.config = Empty
  BY ConfigConstants DEF NoCall, ConfigConstants
<1>3. \A edit \in Edits : edit.kind # "sanitise"
  BY ConfigConstants DEF ConfigConstants, AllEdits
<1>4. QED
  BY <1>1, <1>2, <1>3

\* Sanitising either leaves a file as it was, resolved or malformed, or resolves it.
LEMMA SanitisingResolves ==
  ASSUME NEW c \in Contents
  PROVE  /\ Sanitised(c) # c => Resolved(Sanitised(c))
         /\ Sanitised(c) = c => c.malformed \/ Resolved(c)
<1>1. CASE c.malformed
  BY <1>1 DEF Sanitised
<1>2. CASE ~ c.malformed
  <2> DEFINE d == Sanitised(c)
  <2>1. d.endpoints = c.endpoints /\ \A e \in Endpoints : d.schedule[e] = IF c.schedule[e] = "on" /\ c.endpoints[e] = Absent
                                                                         THEN "off" ELSE c.schedule[e]
    BY <1>2 DEF Contents, Sanitised
  <2> HIDE DEF d
  <2>2. Resolved(d)
    BY <2>1 DEF Resolved
  <2>3. QED
    BY <2>2 DEF d
<1>3. QED
  BY <1>1, <1>2

LEMMA ImportInitially == ConfigInit => ImportIInv
BY CallsInitially, EditsAreTold, KeysDiffer DEF ConfigInit, ImportIInv, NoneMigrates, Migrates, Importing, Callers

\* What the loop asks for is not sanitised, what it imports finds nobody migrating or is late.
LEMMA ImportAsked ==
  ASSUME ImportIInv, CallsIInv', \E edit \in Edits : Ask(edit) \/ Import(edit)
  PROVE  ImportIInv'
<1>1. CallsIInv /\ Loop \in Callers /\ Loop \notin Readers /\ Readers \subseteq Callers /\ call \in [Callers -> Calls]
  BY KeysDiffer DEF ImportIInv, CallsIInv, ConfigTypeOK, Callers
<1>2. PICK edit \in Edits : Ask(edit) \/ Import(edit)
  OBVIOUS
<1>3. call[Loop] = NoCall /\ migrated /\ UNCHANGED migrated
  BY <1>2, EditsAreTold DEF Ask, Import, ImportIInv
<1>4. CASE Ask(edit)
  <2> DEFINE q == [NoCall EXCEPT !.phase = "ensure", !.edit = edit]
  <2>1. call' = [call EXCEPT ![Loop] = q] /\ q.edit = edit /\ q.phase = "ensure" /\ UNCHANGED late
    BY <1>1, <1>4, AskMoves DEF NoCall, Ask
  <2> HIDE DEF q
  <2>2. call'[Loop] = q /\ \A r \in Readers : call'[r] = call[r]
    BY <1>1, <2>1
  <2>3. QED
    BY <1>3, <2>1, <2>2, EditsAreTold DEF ImportIInv, NoneMigrates, Migrates, Importing
<1>5. CASE Import(edit)
  <2> DEFINE q == [NoCall EXCEPT !.phase = "write", !.edit = edit, !.config = edit.content]
  <2>1. call' = [call EXCEPT ![Loop] = q] /\ q.edit = edit /\ q.phase = "write" /\ (~ late' => NoneMigrates)
    BY <1>1, <1>5, ImportMoves DEF NoCall, Import, NoneMigrates
  <2> HIDE DEF q
  <2>2. call'[Loop] = q /\ \A r \in Readers : call'[r] = call[r]
    BY <1>1, <2>1
  <2>3. QED
    BY <1>3, <2>1, <2>2, EditsAreTold DEF ImportIInv, NoneMigrates, Migrates
<1>6. QED
  BY <1>2, <1>4, <1>5

\* A thread that does not touch the file, and migrates nothing new.
LEMMA ReaderMoves ==
  ASSUME ImportIInv, CallsIInv', NEW r \in Readers, NEW q, call' = [call EXCEPT ![r] = q], UNCHANGED <<file, late>>,
         migrated => migrated',
         q.phase # "idle" => q.edit = Use /\ q.phase \notin {"write", "writing"},
         q.phase \notin {"migrate", "migrating"}
  PROVE  ImportIInv'
<1>1. Loop \notin Readers /\ r \in Callers /\ Loop \in Callers /\ Readers \subseteq Callers /\ call \in [Callers -> Calls]
  BY KeysDiffer DEF ImportIInv, CallsIInv, ConfigTypeOK, Callers
<1>2. call'[Loop] = call[Loop] /\ call'[r] = q /\ \A s \in Readers \ {r} : call'[s] = call[s]
  BY <1>1
<1>3. \A s \in Readers : Migrates(s)' => Migrates(s) /\ call'[s] = call[s]
  BY <1>2 DEF Migrates
<1>4. NoneMigrates => NoneMigrates'
  BY <1>3 DEF NoneMigrates
<1>5. SanitisingIInv => SanitisingIInv'
  BY <1>2, <1>3, <1>4 DEF SanitisingIInv, Alike, Resolved
<1>6. QED
  BY <1>2, <1>4, <1>5 DEF ImportIInv, Importing

\* A migration written goes on to its read.
LEMMA MigrationMoves ==
  ASSUME migrated \in BOOLEAN, NEW a, Written(a), call[a].phase = "migrating"
  PROVE  /\ call' = [call EXCEPT ![a] = [call[a] EXCEPT !.phase = "read"]]
         /\ file' = call[a].config /\ UNCHANGED <<migrated, late>>
<1> DEFINE imports == call[a].phase = "writing" /\ call[a].edit.kind = "import"
<1>1. /\ file' = call[a].config /\ late' = late /\ migrated' = (migrated /\ ~ imports)
      /\ call' = [call EXCEPT ![a] =
           CASE imports -> [NoCall EXCEPT !.phase = "ensure", !.edit = Sanitise]
             [] call[a].phase = "migrating" -> [call[a] EXCEPT !.phase = "read"]
             [] OTHER -> NoCall]
  BY DEF Written
<1>2. imports = FALSE
  OBVIOUS
<1> HIDE DEF imports
<1>3. QED
  BY <1>1, <1>2

LEMMA ReadersKeepImport ==
  ASSUME ImportIInv, CallsIInv', NEW r \in Readers,
         \/ Uses(r) \/ Ensure(r) \/ ReadConfig(r) \/ Opened(r) \/ Written(r)
         \/ KeyFound(r) \/ KeySeeded(r) \/ KeyOpened(r) \/ KeyWritten(r) \/ KeyNotWritten(r)
  PROVE  ImportIInv'
<1>1. /\ Loop \notin Readers /\ r \in Callers /\ Loop \in Callers /\ Readers \subseteq Callers /\ call \in [Callers -> Calls]
      /\ CallsIInv /\ Sound(call[r]) /\ call[r] \in Calls /\ call[r].config \in Contents /\ Read \in Contents
      /\ call[r].phase # "idle" => call[r].edit = Use /\ call[r].phase \notin {"write", "writing"}
  BY KeysDiffer, ReadIsContent DEF ImportIInv, CallsIInv, ConfigTypeOK, Callers, Calls
<1>2. CASE Uses(r)
  <2> DEFINE q == [NoCall EXCEPT !.phase = "ensure", !.edit = Use]
  <2>1. call' = [call EXCEPT ![r] = q] /\ q.edit = Use /\ q.phase = "ensure"
    BY <1>1, <1>2, UsesMoves DEF NoCall
  <2> HIDE DEF q
  <2>2. QED
    BY <1>2, <2>1, ReaderMoves DEF Uses
<1>3. CASE Ensure(r)
  <2>1. CASE ~ migrated /\ Read.legacy
    <3> DEFINE q == [call[r] EXCEPT !.phase = "migrate", !.config = Migrated(Read)]
    <3>1. call' = [call EXCEPT ![r] = q] /\ q.phase = "migrate" /\ q.edit = Use /\ q.config = Migrated(Read)
          /\ migrated' /\ UNCHANGED <<file, late>> /\ call[Loop].phase = "ensure"
      BY <1>1, <1>3, <2>1 DEF Ensure, Calls, ImportIInv
    <3> HIDE DEF q
    <3>2. file # Torn /\ Read = file
      BY <2>1 DEF Read, Empty
    <3>3. Alike(file, q.config)
      BY <1>1, <3>1, <3>2 DEF Alike, Migrated, Contents
    <3>4. call'[Loop] = call[Loop] /\ call'[r] = q /\ \A s \in Readers \ {r} : call'[s] = call[s]
      BY <1>1, <3>1
    <3>5. ~ late => \A s \in Readers : Migrates(s)' => s = r
      BY <2>1, <3>4 DEF ImportIInv, NoneMigrates, Migrates
    <3>6. ~ late => SanitisingIInv'
      BY <3>1, <3>3, <3>4, <3>5 DEF SanitisingIInv, Alike
    <3>7. QED
      BY <3>1, <3>4, <3>6 DEF ImportIInv, Importing
  <2>2. CASE ~ (~ migrated /\ Read.legacy)
    <3> DEFINE q == [call[r] EXCEPT !.phase = "read"]
    <3>1. call' = [call EXCEPT ![r] = q] /\ q.phase = "read" /\ q.edit = Use /\ migrated' /\ UNCHANGED <<file, late>>
      BY <1>1, <1>3, <2>2 DEF Ensure, Calls
    <3> HIDE DEF q
    <3>2. QED
      BY <3>1, ReaderMoves
  <2>3. QED
    BY <2>1, <2>2
<1>4. ASSUME NEW c \in Contents, NEW k, k \in Keys \/ (k = None /\ ~ NeedsKey(call[r].edit, c)), Goes(r, c, k),
             call[r].phase \notin {"idle", "write", "writing"}, UNCHANGED <<file, migrated, late>>
      PROVE  ImportIInv'
  <2>1. call' = [call EXCEPT ![r] = NoCall]
    BY <1>1, <1>4, GoesSomewhere, EditsAreTold
  <2>2. QED
    BY <1>4, <2>1, ReaderMoves, EditsAreTold
<1>5. CASE ReadConfig(r)
  <2>1. CASE Goes(r, Read, None) /\ ~ NeedsKey(call[r].edit, Read)
    BY <1>1, <1>4, <1>5, <2>1 DEF ReadConfig
  <2>2. CASE ~ (Goes(r, Read, None) /\ ~ NeedsKey(call[r].edit, Read))
    <3> DEFINE q == [call[r] EXCEPT !.phase = "key", !.config = Read]
    <3>1. call' = [call EXCEPT ![r] = q] /\ q.phase = "key" /\ q.edit = Use /\ UNCHANGED <<file, migrated, late>>
      BY <1>1, <1>5, <2>2, ReadMoves DEF ReadConfig, Calls
    <3> HIDE DEF q
    <3>2. QED
      BY <3>1, ReaderMoves
  <2>3. QED
    BY <2>1, <2>2
<1>6. CASE KeyFound(r) \/ KeyWritten(r) \/ KeyNotWritten(r)
  <2>1. PICK k \in Keys : Goes(r, call[r].config, k)
    BY <1>1, <1>6, PersistedIsKey DEF KeyFound, KeyWritten, KeyNotWritten, Sound, Seeds, CallsIInv
  <2>2. call[r].phase \notin {"idle", "write", "writing"} /\ UNCHANGED <<file, migrated, late>>
    BY <1>6 DEF KeyFound, KeyWritten, KeyNotWritten, Seeds
  <2>3. QED
    BY <1>1, <1>4, <2>1, <2>2
<1>7. CASE KeySeeded(r)
  <2>1. PICK k \in Keys : call' = [call EXCEPT ![r] = [call[r] EXCEPT !.phase = "seed", !.key = k]]
    BY <1>1, <1>7, SeedMoves
  <2> DEFINE q == [call[r] EXCEPT !.phase = "seed", !.key = k]
  <2>2. call' = [call EXCEPT ![r] = q] /\ q.phase = "seed" /\ q.edit = Use /\ UNCHANGED <<file, migrated, late>>
    BY <1>1, <1>7, <2>1 DEF KeySeeded, Calls
  <2> HIDE DEF q
  <2>3. QED
    BY <2>2, ReaderMoves
<1>8. CASE KeyOpened(r)
  <2> DEFINE q == [call[r] EXCEPT !.phase = "seeding"]
  <2>1. call' = [call EXCEPT ![r] = q] /\ q.phase = "seeding" /\ q.edit = Use /\ UNCHANGED <<file, migrated, late>>
    BY <1>1, <1>8 DEF KeyOpened, Calls
  <2> HIDE DEF q
  <2>2. QED
    BY <2>1, ReaderMoves
<1>9. CASE Opened(r)
  <2> DEFINE q == [call[r] EXCEPT !.phase = "migrating"]
  <2>1. call' = [call EXCEPT ![r] = q] /\ call[r].phase = "migrate" /\ q.phase = "migrating" /\ q.edit = Use
        /\ q.config = call[r].config /\ file' = Torn /\ UNCHANGED <<migrated, late>>
    BY <1>1, <1>9 DEF Opened, Calls
  <2> HIDE DEF q
  <2>2. call'[Loop] = call[Loop] /\ call'[r] = q /\ \A s \in Readers \ {r} : call'[s] = call[s]
    BY <1>1, <2>1
  <2>3. /\ \A s \in Readers : (Migrates(s)' <=> Migrates(s)) /\ call'[s].config = call[s].config
        /\ NoneMigrates' <=> NoneMigrates
    BY <2>1, <2>2 DEF Migrates, NoneMigrates
  <2>4. SanitisingIInv => SanitisingIInv'
    BY <2>1, <2>2, <2>3 DEF SanitisingIInv, Alike, Resolved
  <2>5. QED
    BY <2>1, <2>2, <2>3, <2>4 DEF ImportIInv, Importing
<1>10. CASE Written(r)
  <2> DEFINE q == [call[r] EXCEPT !.phase = "read"]
  <2>0. call[r].phase = "migrating" /\ call[r].edit = Use
    BY <1>1, <1>10 DEF Written
  <2>a. call' = [call EXCEPT ![r] = q] /\ file' = call[r].config /\ UNCHANGED <<migrated, late>>
    BY <1>1, <1>10, <2>0, MigrationMoves DEF CallsIInv, ConfigTypeOK
  <2>1. call' = [call EXCEPT ![r] = q] /\ Migrates(r) /\ q.phase = "read" /\ q.edit = Use
        /\ file' = call[r].config /\ UNCHANGED <<migrated, late>>
    BY <1>1, <2>0, <2>a DEF Calls, Migrates
  <2> HIDE DEF q
  <2>2. call'[Loop] = call[Loop] /\ call'[r] = q /\ \A s \in Readers \ {r} : call'[s] = call[s]
    BY <1>1, <2>1
  <2>3. /\ \A s \in Readers : Migrates(s)' => s # r /\ Migrates(s) /\ call'[s] = call[s]
        /\ NoneMigrates => NoneMigrates'
    BY <2>1, <2>2 DEF Migrates, NoneMigrates
  <2>4. SanitisingIInv => SanitisingIInv'
    BY <2>1, <2>2, <2>3 DEF SanitisingIInv, Alike, Resolved, NoneMigrates
  <2>5. QED
    BY <2>1, <2>2, <2>3, <2>4 DEF ImportIInv, Importing
<1>11. QED
  BY <1>2, <1>3, <1>5, <1>6, <1>7, <1>8, <1>9, <1>10

\* A step of the loop, when the threads stay where they are.
LEMMA LoopMoves ==
  ASSUME ImportIInv, CallsIInv', NEW q, call' = [call EXCEPT ![Loop] = q], UNCHANGED late,
         q.phase # "ensure" => migrated', ~ migrated' => ~ migrated \/ (~ late => NoneMigrates),
         ~ (q.phase \in {"write", "writing"} /\ q.edit.kind = "import") \/ Importing,
         ~ late /\ q.edit = Sanitise => SanitisingIInv'
  PROVE  ImportIInv'
<1>1. Loop \notin Readers /\ Loop \in Callers /\ Readers \subseteq Callers /\ call \in [Callers -> Calls]
  BY KeysDiffer DEF ImportIInv, CallsIInv, ConfigTypeOK, Callers
<1>2. call'[Loop] = q /\ \A s \in Readers : call'[s] = call[s]
  BY <1>1
<1>3. NoneMigrates' <=> NoneMigrates
  BY <1>2 DEF NoneMigrates, Migrates
<1>4. QED
  BY <1>2, <1>3 DEF ImportIInv, Importing

\* After its read, or once it has the key, the loop ends or writes.
LEMMA LoopGoes ==
  ASSUME ImportIInv, CallsIInv', NEW c \in Contents, NEW k, k \in Keys \/ (k = None /\ ~ NeedsKey(call[Loop].edit, c)),
         Goes(Loop, c, k), call[Loop].phase \notin {"idle", "ensure", "write", "writing"}, UNCHANGED <<file, migrated, late>>
  PROVE  ImportIInv'
<1>1. /\ Loop \notin Readers /\ Loop \in Callers /\ Readers \subseteq Callers /\ call \in [Callers -> Calls]
      /\ CallsIInv /\ Sound(call[Loop]) /\ call[Loop].edit.kind # "import" /\ migrated
  BY KeysDiffer DEF ImportIInv, CallsIInv, ConfigTypeOK, Callers, Sound
<1>2. CASE call' = [call EXCEPT ![Loop] = NoCall]
  BY <1>1, <1>2, LoopMoves, EditsAreTold
<1>3. CASE call' = [call EXCEPT ![Loop] = ToWrite(call[Loop], c, k)]
           /\ (call[Loop].edit.kind = "sanitise" => Edited(call[Loop].edit, c, k) # c)
  <2> DEFINE q == ToWrite(call[Loop], c, k)
  <2>1. q.phase = "write" /\ q.edit = call[Loop].edit /\ q.config = Edited(call[Loop].edit, c, k)
    BY DEF ToWrite
  <2>2. call' = [call EXCEPT ![Loop] = q]
    BY <1>3
  <2> HIDE DEF q
  <2>3. call'[Loop] = q /\ \A s \in Readers : call'[s] = call[s]
    BY <1>1, <2>2
  <2>4. ASSUME ~ late, q.edit = Sanitise PROVE SanitisingIInv'
    <3>1. q.config = Sanitised(c) /\ Sanitised(c) # c
      BY <1>3, <2>1, <2>4, EditsAreTold DEF Edited
    <3>2. Resolved(q.config)
      BY <3>1, SanitisingResolves
    <3>3. \A r, s \in Readers : Migrates(r) /\ Migrates(s) => r = s
      BY <2>1, <2>4 DEF ImportIInv, SanitisingIInv
    <3>4. QED
      BY <2>1, <2>3, <3>2, <3>3 DEF SanitisingIInv, Migrates, Resolved
  <2>5. QED
    BY <1>1, <2>1, <2>2, <2>4, LoopMoves
<1>4. QED
  BY <1>1, <1>2, <1>3, GoesSomewhere

LEMMA LoopKeepsImport ==
  ASSUME ImportIInv, CallsIInv',
         \/ Ensure(Loop) \/ ReadConfig(Loop) \/ Opened(Loop) \/ Written(Loop)
         \/ KeyFound(Loop) \/ KeySeeded(Loop) \/ KeyOpened(Loop) \/ KeyWritten(Loop) \/ KeyNotWritten(Loop)
  PROVE  ImportIInv'
<1>1. /\ Loop \notin Readers /\ Loop \in Callers /\ Readers \subseteq Callers /\ call \in [Callers -> Calls]
      /\ CallsIInv /\ Sound(call[Loop]) /\ call[Loop] \in Calls /\ call[Loop].config \in Contents /\ Read \in Contents
  BY KeysDiffer, ReadIsContent DEF ImportIInv, CallsIInv, ConfigTypeOK, Callers, Calls
<1>2. \A q : call' = [call EXCEPT ![Loop] = q] =>
        /\ call'[Loop] = q /\ \A s \in Readers : call'[s] = call[s] /\ (Migrates(s)' <=> Migrates(s))
        /\ NoneMigrates' <=> NoneMigrates
  BY <1>1 DEF NoneMigrates, Migrates
<1>3. CASE Ensure(Loop)
  <2>1. migrated' /\ UNCHANGED <<file, late>> /\ call[Loop].phase = "ensure" /\ call[Loop].edit.kind # "import"
    BY <1>1, <1>3 DEF Ensure, Sound
  <2>2. CASE ~ migrated /\ Read.legacy
    <3> DEFINE q == [call[Loop] EXCEPT !.phase = "migrate", !.config = Migrated(Read)]
    <3>1. call' = [call EXCEPT ![Loop] = q] /\ q.phase = "migrate" /\ q.edit = call[Loop].edit
      BY <1>1, <1>3, <2>2 DEF Ensure, Calls
    <3> HIDE DEF q
    <3>a. /\ call'[Loop] = q /\ \A s \in Readers : call'[s] = call[s] /\ (Migrates(s)' <=> Migrates(s))
          /\ NoneMigrates' <=> NoneMigrates
      BY <1>2, <3>1
    <3>2. ~ late /\ q.edit = Sanitise => SanitisingIInv'
      BY <2>1, <2>2, <3>1, <3>a DEF ImportIInv, SanitisingIInv, NoneMigrates
    <3>3. QED
      BY <2>1, <3>1, <3>2, LoopMoves
  <2>3. CASE ~ (~ migrated /\ Read.legacy)
    <3> DEFINE q == [call[Loop] EXCEPT !.phase = "read"]
    <3>1. call' = [call EXCEPT ![Loop] = q] /\ q.phase = "read" /\ q.edit = call[Loop].edit
      BY <1>1, <1>3, <2>3 DEF Ensure, Calls
    <3> HIDE DEF q
    <3>a. /\ call'[Loop] = q /\ \A s \in Readers : call'[s] = call[s] /\ (Migrates(s)' <=> Migrates(s))
          /\ NoneMigrates' <=> NoneMigrates
      BY <1>2, <3>1
    <3>2. ~ late /\ q.edit = Sanitise => SanitisingIInv'
      BY <2>1, <3>1, <3>a DEF ImportIInv, SanitisingIInv, Alike
    <3>3. QED
      BY <2>1, <3>1, <3>2, LoopMoves
  <2>4. QED
    BY <2>2, <2>3
<1>4. CASE ReadConfig(Loop)
  <2>1. call[Loop].phase = "read" /\ UNCHANGED <<file, migrated, late>> /\ migrated
    BY <1>4 DEF ReadConfig, ImportIInv
  <2>2. CASE Goes(Loop, Read, None) /\ ~ NeedsKey(call[Loop].edit, Read)
    BY <1>1, <2>1, <2>2, LoopGoes
  <2>3. CASE ~ (Goes(Loop, Read, None) /\ ~ NeedsKey(call[Loop].edit, Read))
    <3> DEFINE q == [call[Loop] EXCEPT !.phase = "key", !.config = Read]
    <3>1. call' = [call EXCEPT ![Loop] = q] /\ q.phase = "key" /\ q.edit = call[Loop].edit /\ q.config = Read
      BY <1>1, <1>4, <2>3, ReadMoves DEF Calls
    <3>2. NeedsKey(call[Loop].edit, Read)
      BY <1>4, <2>3 DEF ReadConfig
    <3> HIDE DEF q
    <3>3. ASSUME ~ late, q.edit = Sanitise PROVE SanitisingIInv'
      <4>1. file # Torn /\ Read = file
        <5>1. ~ NeedsKey(Sanitise, Empty)
          BY KeysDiffer, EditsAreTold DEF NeedsKey, Empty
        <5>2. QED
          BY <3>1, <3>2, <3>3, <5>1 DEF Read
      <4>2. SanitisingIInv
        BY <3>1, <3>3 DEF ImportIInv
      <4>3. /\ call'[Loop] = q /\ \A s \in Readers : call'[s] = call[s] /\ (Migrates(s)' <=> Migrates(s))
            /\ NoneMigrates' <=> NoneMigrates
        BY <1>2, <3>1
      <4>4. QED
        BY <2>1, <3>1, <4>1, <4>2, <4>3 DEF SanitisingIInv, Alike
    <3>4. QED
      BY <2>1, <3>1, <3>3, LoopMoves
  <2>4. QED
    BY <2>2, <2>3
<1>5. CASE KeyFound(Loop) \/ KeyWritten(Loop) \/ KeyNotWritten(Loop)
  <2>1. PICK k \in Keys : Goes(Loop, call[Loop].config, k)
    BY <1>1, <1>5, PersistedIsKey DEF KeyFound, KeyWritten, KeyNotWritten, Sound, Seeds, CallsIInv
  <2>2. call[Loop].phase \notin {"idle", "ensure", "write", "writing"} /\ UNCHANGED <<file, migrated, late>>
    BY <1>5 DEF KeyFound, KeyWritten, KeyNotWritten, Seeds
  <2>3. QED
    BY <1>1, <2>1, <2>2, LoopGoes
<1>6. ASSUME NEW q, call' = [call EXCEPT ![Loop] = q], q.edit = call[Loop].edit, q.config = call[Loop].config,
             \/ call[Loop].phase \in {"key", "seed"} /\ q.phase \in {"seed", "seeding"} /\ file' = file
             \/ call[Loop].phase = "write" /\ q.phase = "writing" /\ file' = Torn
             \/ call[Loop].phase = "migrate" /\ q.phase = "migrating" /\ file' = Torn,
             UNCHANGED <<migrated, late>>
      PROVE  ImportIInv'
  <2>1. migrated
    BY <1>6 DEF ImportIInv
  <2>a. /\ call'[Loop] = q /\ \A s \in Readers : call'[s] = call[s] /\ (Migrates(s)' <=> Migrates(s))
        /\ NoneMigrates' <=> NoneMigrates
    BY <1>2, <1>6
  <2>2. ASSUME ~ late, q.edit = Sanitise PROVE SanitisingIInv'
    <3>1. SanitisingIInv
      BY <1>6, <2>2 DEF ImportIInv
    <3>2. CASE call[Loop].phase \in {"key", "seed"} /\ q.phase \in {"seed", "seeding"} /\ file' = file
      BY <1>6, <2>a, <3>1, <3>2 DEF SanitisingIInv, Alike
    <3>3. CASE call[Loop].phase = "write" /\ q.phase = "writing" /\ file' = Torn
      BY <1>6, <2>a, <3>1, <3>3 DEF SanitisingIInv, Alike, Resolved
    <3>4. CASE call[Loop].phase = "migrate" /\ q.phase = "migrating" /\ file' = Torn
      BY <1>6, <2>a, <3>1, <3>4 DEF SanitisingIInv, Alike
    <3>5. QED
      BY <1>6, <3>2, <3>3, <3>4
  <2>3. q.phase = "writing" /\ q.edit.kind = "import" => Importing
    BY <1>6 DEF Importing
  <2>4. QED
    BY <1>6, <2>1, <2>2, <2>3, LoopMoves
<1>7. CASE KeySeeded(Loop)
  <2>1. PICK k \in Keys : call' = [call EXCEPT ![Loop] = [call[Loop] EXCEPT !.phase = "seed", !.key = k]]
    BY <1>1, <1>7, SeedMoves
  <2> DEFINE q == [call[Loop] EXCEPT !.phase = "seed", !.key = k]
  <2>2. call' = [call EXCEPT ![Loop] = q] /\ q.phase = "seed" /\ q.edit = call[Loop].edit /\ q.config = call[Loop].config
        /\ UNCHANGED <<file, migrated, late>> /\ call[Loop].phase = "key"
    BY <1>1, <1>7, <2>1 DEF KeySeeded, Calls
  <2> HIDE DEF q
  <2>3. QED
    BY <1>6, <2>2
<1>8. CASE KeyOpened(Loop)
  <2> DEFINE q == [call[Loop] EXCEPT !.phase = "seeding"]
  <2>1. call' = [call EXCEPT ![Loop] = q] /\ q.phase = "seeding" /\ q.edit = call[Loop].edit /\ q.config = call[Loop].config
        /\ UNCHANGED <<file, migrated, late>> /\ call[Loop].phase = "seed"
    BY <1>1, <1>8 DEF KeyOpened, Calls
  <2> HIDE DEF q
  <2>2. QED
    BY <1>6, <2>1
<1>9. CASE Opened(Loop)
  <2> DEFINE q == [call[Loop] EXCEPT !.phase = IF call[Loop].phase = "write" THEN "writing" ELSE "migrating"]
  <2>1. call' = [call EXCEPT ![Loop] = q] /\ q.edit = call[Loop].edit /\ q.config = call[Loop].config
        /\ \/ call[Loop].phase = "write" /\ q.phase = "writing"
           \/ call[Loop].phase = "migrate" /\ q.phase = "migrating"
        /\ file' = Torn /\ UNCHANGED <<migrated, late>>
    BY <1>1, <1>9 DEF Opened, Calls
  <2> HIDE DEF q
  <2>2. QED
    BY <1>6, <2>1
<1>10. CASE Written(Loop)
  <2>1. UNCHANGED late /\ file' = call[Loop].config /\ call[Loop].phase \in {"writing", "migrating"} /\ migrated
    BY <1>10 DEF Written, ImportIInv
  <2>2. CASE Importing
    <3> DEFINE q == [NoCall EXCEPT !.phase = "ensure", !.edit = Sanitise]
    <3>1. call' = [call EXCEPT ![Loop] = q] /\ q.phase = "ensure"
      BY <1>1, <1>10, <2>1, <2>2 DEF Written, Importing, NoCall
    <3>2. ~ late => NoneMigrates
      BY <2>2 DEF ImportIInv
    <3> HIDE DEF q
    <3>3. ~ late /\ q.edit = Sanitise => SanitisingIInv'
      BY <1>2, <3>1, <3>2 DEF SanitisingIInv, NoneMigrates
    <3>4. QED
      BY <2>1, <3>1, <3>2, <3>3, LoopMoves
  <2>3. CASE call[Loop].phase = "migrating"
    <3> DEFINE q == [call[Loop] EXCEPT !.phase = "read"]
    <3>1. call' = [call EXCEPT ![Loop] = q] /\ q.phase = "read" /\ q.edit = call[Loop].edit /\ migrated' = migrated
      BY <1>1, <1>10, <2>3, MigrationMoves DEF Calls, CallsIInv, ConfigTypeOK
    <3> HIDE DEF q
    <3>2. ~ late /\ q.edit = Sanitise => SanitisingIInv'
      BY <1>2, <2>3, <3>1 DEF ImportIInv, SanitisingIInv, NoneMigrates
    <3>3. QED
      BY <2>1, <3>1, <3>2, LoopMoves
  <2>4. CASE ~ Importing /\ call[Loop].phase = "writing"
    <3>1. call' = [call EXCEPT ![Loop] = NoCall] /\ migrated' = migrated
      BY <1>1, <1>10, <2>4 DEF Written, Importing, ImportIInv
    <3>2. QED
      BY <2>1, <3>1, LoopMoves, EditsAreTold
  <2>5. QED
    BY <2>1, <2>2, <2>3, <2>4
<1>11. QED
  BY <1>3, <1>4, <1>5, <1>7, <1>8, <1>9, <1>10

LEMMA ImportInductive == ImportIInv /\ [ConfigNext]_configVars => ImportIInv'
<1> SUFFICES ASSUME ImportIInv, [ConfigNext]_configVars PROVE ImportIInv'
  OBVIOUS
<1>1. CallsIInv'
  BY CallsInductive DEF ImportIInv
<1>2. CASE Crash
  <2>1. /\ call'[Loop].phase = "ensure" /\ call'[Loop].edit = Startup /\ \A r \in Readers : call'[r] = NoCall
    BY <1>2, CrashMoves, KeysDiffer DEF Callers
  <2>2. Startup # Sanitise
    BY EditsAreTold
  <2>3. QED
    BY <1>1, <2>1, <2>2, EditsAreTold DEF ImportIInv, NoneMigrates, Migrates, Importing
<1>3. CASE UNCHANGED configVars
  BY <1>1, <1>3 DEF configVars, ImportIInv, SanitisingIInv, Importing, NoneMigrates, Migrates, Alike, Resolved
<1>4. CASE \E a \in Callers : \/ Ensure(a) \/ ReadConfig(a) \/ Opened(a) \/ Written(a)
                              \/ KeyFound(a) \/ KeySeeded(a) \/ KeyOpened(a) \/ KeyWritten(a) \/ KeyNotWritten(a)
  BY <1>1, <1>4, ReadersKeepImport, LoopKeepsImport DEF Callers
<1>5. QED
  BY <1>1, <1>2, <1>3, <1>4, ImportAsked, ReadersKeepImport DEF ConfigNext

\* The step that answers an import leaves the file resolved or malformed.
LEMMA SanitisedAtTheEnd ==
  ASSUME ImportIInv, [ConfigNext]_configVars, call[Loop].edit = Sanitise, call'[Loop] = NoCall, ~ late
  PROVE  Read'.malformed \/ Resolved(Read')
<1>1. /\ CallsIInv /\ call \in [Callers -> Calls] /\ Loop \in Callers /\ Loop \notin Readers /\ Sound(call[Loop])
      /\ call[Loop] \in Calls /\ call[Loop].config \in Contents /\ Read \in Contents /\ SanitisingIInv
  BY KeysDiffer, ReadIsContent DEF ImportIInv, CallsIInv, ConfigTypeOK, Calls
<1>2. call[Loop] # NoCall
  BY EditsAreTold
<1>3. PICK a \in Callers : \/ Ensure(a) \/ ReadConfig(a) \/ Opened(a) \/ Written(a)
                           \/ KeyFound(a) \/ KeySeeded(a) \/ KeyOpened(a) \/ KeyWritten(a) \/ KeyNotWritten(a)
  <2>1. ~ \E edit \in Edits : Ask(edit) \/ Import(edit)
    BY <1>2 DEF Ask, Import
  <2>2. ~ \E r \in Readers : Uses(r)
    BY <1>1, <1>2, KeysDiffer DEF Uses
  <2>3. ~ Crash
    BY EditsAreTold, CrashMoves
  <2>4. QED
    BY <1>2, <2>1, <2>2, <2>3 DEF ConfigNext, configVars
<1>4. a = Loop
  <2>1. \A b \in Callers : b # a => call'[b] = call[b]
    BY <1>1, <1>3 DEF Ensure, ReadConfig, Opened, Written, KeyFound, KeySeeded, KeyOpened, KeyWritten, KeyNotWritten, Goes
  <2>2. QED
    BY <1>1, <1>2, <2>1
<1>5. Resolved(Empty)
  BY DEF Resolved, Empty
<1>6. \A q : call' = [call EXCEPT ![Loop] = q] => q = NoCall
  BY <1>1
<1>7. ASSUME NEW c \in Contents, NEW k, k \in Keys \/ (k = None /\ ~ NeedsKey(call[Loop].edit, c)), Goes(Loop, c, k),
             call[Loop].phase \notin {"idle", "write", "writing"}
      PROVE  c.malformed \/ Resolved(c)
  <2>1. ToWrite(call[Loop], c, k) # NoCall
    BY DEF ToWrite, NoCall
  <2>2. Edited(call[Loop].edit, c, k) = c
    BY <1>1, <1>6, <1>7, <2>1, GoesSomewhere, EditsAreTold
  <2>3. Sanitised(c) = c
    BY <2>2, EditsAreTold DEF Edited
  <2>4. QED
    BY <2>3, SanitisingResolves
<1>8. CASE ReadConfig(a)
  <2>1. call[Loop].phase = "read" /\ UNCHANGED file
    BY <1>4, <1>8 DEF ReadConfig
  <2> DEFINE q == [call[Loop] EXCEPT !.phase = "key", !.config = Read]
  <2>2. q.phase = "key"
    BY <1>1 DEF Calls
  <2>3. q # NoCall
    BY <2>2, EditsAreTold
  <2>4. Goes(Loop, Read, None) /\ ~ NeedsKey(call[Loop].edit, Read)
    <3> HIDE DEF q
    <3>1. call' # [call EXCEPT ![Loop] = q]
      BY <1>6, <2>3
    <3>2. QED
      BY <1>1, <1>4, <1>8, <3>1, ReadMoves DEF q
  <2>5. Read.malformed \/ Resolved(Read)
    BY <1>1, <1>7, <2>1, <2>4
  <2>6. QED
    BY <2>1, <2>5 DEF Read
<1>9. CASE KeyFound(a) \/ KeyWritten(a) \/ KeyNotWritten(a)
  <2>1. PICK k \in Keys : Goes(Loop, call[Loop].config, k)
    BY <1>1, <1>4, <1>9, PersistedIsKey DEF KeyFound, KeyWritten, KeyNotWritten, Sound, Seeds, CallsIInv
  <2>2. call[Loop].phase \in {"key", "seed", "seeding"} /\ UNCHANGED file
    BY <1>4, <1>9 DEF KeyFound, KeyWritten, KeyNotWritten, Seeds
  <2>3. call[Loop].config.malformed \/ Resolved(call[Loop].config)
    BY <1>1, <1>7, <2>1, <2>2
  <2>4. file # Torn => Alike(file, call[Loop].config)
    BY <1>1, <2>2 DEF SanitisingIInv
  <2>5. QED
    BY <1>5, <2>2, <2>3, <2>4 DEF Read, Alike, Resolved
<1>10. CASE Written(a)
  <2>1. CASE call[Loop].phase = "writing"
    <3>1. Resolved(call[Loop].config) /\ file' = call[Loop].config
      BY <1>1, <1>4, <1>10, <2>1 DEF SanitisingIInv, Written
    <3>2. QED
      BY <1>5, <3>1 DEF Read
  <2>2. CASE call[Loop].phase = "migrating"
    <3> DEFINE q == [call[Loop] EXCEPT !.phase = "read"]
    <3>1. call' = [call EXCEPT ![Loop] = q] /\ q.phase = "read"
      BY <1>1, <1>4, <1>10, <2>2 DEF Written, Calls
    <3> HIDE DEF q
    <3>2. QED
      BY <1>6, <3>1, EditsAreTold
  <2>3. QED
    BY <1>4, <1>10, <2>1, <2>2 DEF Written
<1>11. CASE Ensure(a) \/ Opened(a) \/ KeySeeded(a) \/ KeyOpened(a)
  <2>1. \E q : call' = [call EXCEPT ![Loop] = q] /\ q.phase # "idle"
    <3>1. CASE Ensure(a)
      <4> DEFINE q == IF ~ migrated /\ Read.legacy THEN [call[Loop] EXCEPT !.phase = "migrate", !.config = Migrated(Read)]
                      ELSE [call[Loop] EXCEPT !.phase = "read"]
      <4>1. call' = [call EXCEPT ![Loop] = q]
        BY <1>1, <1>4, <3>1, EnsureMoves
      <4>2. q.phase # "idle"
        BY <1>1 DEF Calls
      <4>3. QED
        BY <4>1, <4>2
    <3>2. CASE Opened(a) \/ KeyOpened(a)
      <4>1. PICK phase \in {"seeding", "writing", "migrating"} :
              call' = [call EXCEPT ![Loop] = [call[Loop] EXCEPT !.phase = phase]]
        BY <1>1, <1>4, <3>2, OpenMoves
      <4>2. [call[Loop] EXCEPT !.phase = phase].phase # "idle"
        BY <1>1 DEF Calls
      <4>3. QED
        BY <4>1, <4>2
    <3>3. CASE KeySeeded(a)
      <4>1. PICK k \in Keys : call' = [call EXCEPT ![Loop] = [call[Loop] EXCEPT !.phase = "seed", !.key = k]]
        BY <1>1, <1>4, <3>3, SeedMoves
      <4>2. [call[Loop] EXCEPT !.phase = "seed", !.key = k].phase # "idle"
        BY <1>1 DEF Calls
      <4>3. QED
        BY <4>1, <4>2
    <3>4. QED
      BY <1>11, <3>1, <3>2, <3>3
  <2>2. QED
    BY <1>6, <2>1, EditsAreTold
<1>12. QED
  BY <1>3, <1>8, <1>9, <1>10, <1>11

\* An import, of the old format too, is answered when every schedule of the file that is on has
\* the endpoint it backs up, whatever threads read and migrate meanwhile, whoever is killed,
\* for any callers and edits: but for files with a malformed flag, and threads that
\* still write back a file from before.
THEOREM ImportsResolve == ConfigSpec => ImportedSchedulesResolve
<1>1. ImportIInv /\ [ConfigNext]_configVars
        => [call[Loop].edit = Sanitise /\ call'[Loop] = NoCall /\ ~ late /\ ~ Read'.malformed
              => \A e \in Endpoints : Read'.schedule[e] = "on" => Read'.endpoints[e] # Absent]_configVars
  BY SanitisedAtTheEnd DEF Resolved
<1>2. QED
  BY <1>1, ImportInitially, ImportInductive, PTL DEF ConfigSpec, ImportedSchedulesResolve

=============================================================================
