-------------------------- MODULE BackupFilesProofs --------------------------
(***************************************************************************)
(* Proofs about BackupFiles, for any jobs, names, sizes and quota: no      *)
(* temporary file is left behind, and what is promised of pushes holds as  *)
(* long as no two jobs share a name.                                       *)
(***************************************************************************)
EXTENDS BackupFiles, SequenceTheorems, TLAPS

JobRecord == [phase : Phases, node : Jobs \cup {None}, at : Nat, size : Nat]

FilesTyped ==
  /\ files \in [Names -> Jobs \cup {None}] /\ temps \in [TempNames -> Jobs \cup {None}]
  /\ data \in [Jobs -> Seq(Blocks)]
  /\ job \in [Jobs -> JobRecord]
  /\ remote \in [Names -> Seq(Blocks) \cup {None}]
  /\ crashes \in 0 .. MaxCrashes

\* An inode is reached only under the name of the job that created it.
NamesLead ==
  /\ \A n \in Names : files[n] # None => Name(files[n]) = n
  /\ \A t \in TempNames : temps[t] # None => Temp(temps[t]) = t
  /\ \A j \in Jobs : job[j].node # None => Name(job[j].node) = Name(j)

StepIInv(j) ==
  /\ Phase(j) \in {"open", "sending"} => job[j].node # None
  /\ Phase(j) \in {"received", "verified"} => Kind(j) \in {"link", "s3"}
  /\ Phase(j) \in {"exited", "pushing", "sending", "pushed"} => Kind(j) = "dump"

FilesIInv == FilesTyped /\ TempsAreTemporary /\ NamesLead /\ \A j \in Jobs : StepIInv(j)

LEMMA JobTypes ==
  ASSUME NEW j \in Jobs
  PROVE  /\ Name(j) \in Names /\ Temp(j) \in TempNames /\ Temp(j)[2] = Name(j)
         /\ Kind(j) \in {"upload", "link", "s3", "dump"} /\ j # None /\ Job[j].size \in Nat
         /\ \A k \in Jobs : Temp(k) = Temp(j) => Name(k) = Name(j)
BY BackupFilesConstants DEF BackupFilesConstants, Name, Temp, TempNames, Kind

-----------------------------------------------------------------------------
(* What the steps share *)

LEMMA MovedSays ==
  ASSUME FilesTyped, NEW j \in Jobs, NEW phase \in Phases, Moved(j, phase)
  PROVE  /\ job' \in [Jobs -> JobRecord] /\ \A k \in Jobs : k # j => job'[k] = job[k]
         /\ job'[j].phase = phase /\ job'[j].node = job[j].node /\ job'[j].at = job[j].at /\ job'[j].size = job[j].size
BY DEF FilesTyped, Moved, JobRecord

LEMMA OpenedSays ==
  ASSUME FilesTyped, NEW j \in Jobs, NEW i \in Jobs, Opened(j, i)
  PROVE  /\ job' \in [Jobs -> JobRecord] /\ \A k \in Jobs : k # j => job'[k] = job[k]
         /\ job'[j].phase = "open" /\ job'[j].node = i /\ job'[j].at = job[j].at /\ job'[j].size = job[j].size
         /\ data' \in [Jobs -> Seq(Blocks)] /\ data'[i] = <<>> /\ \A k \in Jobs : k # i => data'[k] = data[k]
<1>1. data' = [data EXCEPT ![i] = <<>>] /\ <<>> \in Seq(Blocks)
  BY DEF Opened
<1> DEFINE there == [job EXCEPT ![j].phase = "open"]
<1>2. /\ job[j] \in JobRecord /\ "open" \in Phases
      /\ job' = [there EXCEPT ![j].node = i]
  BY DEF FilesTyped, Phases, Opened
<1>3. /\ there \in [Jobs -> JobRecord] /\ \A k \in Jobs : k # j => there[k] = job[k]
      /\ there[j].phase = "open" /\ there[j].at = job[j].at /\ there[j].size = job[j].size
  BY <1>2 DEF FilesTyped, JobRecord
<1> HIDE DEF there
<1>4. QED
  BY <1>1, <1>2, <1>3 DEF FilesTyped, JobRecord

LEMMA WroteSays ==
  ASSUME FilesTyped, NEW j \in Jobs, job[j].node # None, Wrote(j)
  PROVE  /\ job' \in [Jobs -> JobRecord] /\ \A k \in Jobs : k # j => job'[k] = job[k]
         /\ job'[j].phase = job[j].phase /\ job'[j].node = job[j].node /\ job'[j].at = job[j].at + 1
         /\ job'[j].size = job[j].size
         /\ data' \in [Jobs -> Seq(Blocks)] /\ \A k \in Jobs : k # job[j].node => data'[k] = data[k]
         /\ LET c == data[job[j].node] IN
              Len(c) = job[j].at => data'[job[j].node] = [k \in 1 .. job[j].at + 1 |-> IF k = job[j].at + 1 THEN j ELSE c[k]]
<1> DEFINE i == job[j].node
           p == job[j].at + 1
           c == data[i]
           n == IF Len(c) < p THEN p ELSE Len(c)
           w == [k \in 1 .. n |-> IF k = p THEN j ELSE IF k <= Len(c) THEN c[k] ELSE None]
<1>1. job[j] \in JobRecord /\ i \in Jobs /\ p \in Nat /\ c \in Seq(Blocks)
  BY DEF FilesTyped, JobRecord
<1>2. n \in Nat
  BY <1>1
<1>3. w \in Seq(Blocks)
  BY <1>1, <1>2 DEF Blocks
<1>4. data' = [data EXCEPT ![i] = w] /\ job' = [job EXCEPT ![j].at = p]
  BY DEF Wrote
<1>5. Len(c) = job[j].at => w = [k \in 1 .. p |-> IF k = p THEN j ELSE c[k]]
  BY <1>1
<1>6. data' \in [Jobs -> Seq(Blocks)] /\ data'[i] = w /\ \A k \in Jobs : k # i => data'[k] = data[k]
  BY <1>1, <1>3, <1>4 DEF FilesTyped
<1>7. /\ job' \in [Jobs -> JobRecord] /\ \A k \in Jobs : k # j => job'[k] = job[k]
      /\ job'[j].phase = job[j].phase /\ job'[j].node = job[j].node /\ job'[j].at = p /\ job'[j].size = job[j].size
  BY <1>1, <1>4 DEF FilesTyped, JobRecord
<1>8. QED
  BY <1>5, <1>6, <1>7

\* The error paths of a job, and its rename.
LEMMA DiscardedSays ==
  ASSUME FilesTyped, NEW j \in Jobs, Discarded(j)
  PROVE  /\ job' \in [Jobs -> JobRecord] /\ \A k \in Jobs : k # j => job'[k] = job[k]
         /\ job'[j].phase = "over" /\ job'[j].node = job[j].node /\ job'[j].at = job[j].at /\ job'[j].size = job[j].size
         /\ files' = files /\ temps' \in [TempNames -> Jobs \cup {None}]
         /\ temps'[Temp(j)] = None /\ \A t \in TempNames : t # Temp(j) => temps'[t] = temps[t]
<1>1. "over" \in Phases
  BY DEF Phases
<1>2. QED
  BY <1>1, MovedSays, JobTypes DEF Discarded, Over, FilesTyped

LEMMA RenamedSays ==
  ASSUME FilesTyped, NEW j \in Jobs, Renamed(j)
  PROVE  /\ job' \in [Jobs -> JobRecord] /\ \A k \in Jobs : k # j => job'[k] = job[k]
         /\ job'[j].phase = "over" /\ job'[j].node = job[j].node /\ job'[j].at = job[j].at /\ job'[j].size = job[j].size
         /\ files' \in [Names -> Jobs \cup {None}] /\ temps' \in [TempNames -> Jobs \cup {None}]
         /\ temps'[Temp(j)] = None /\ \A t \in TempNames : t # Temp(j) => temps'[t] = temps[t]
         /\ files'[Name(j)] = (IF temps[Temp(j)] = None THEN files[Name(j)] ELSE temps[Temp(j)])
         /\ \A n \in Names : n # Name(j) => files'[n] = files[n]
<1>1. "over" \in Phases
  BY DEF Phases
<1>2. QED
  BY <1>1, MovedSays, JobTypes DEF Renamed, Over, FilesTyped, directory

\* Retention and deletion only remove.
LEMMA RetainedSays ==
  ASSUME NEW fs \in [Names -> Jobs \cup {None}], NEW j \in Jobs
  PROVE  Retained(fs, j) \in [Names -> Jobs \cup {None}] /\ \A n \in Names : Retained(fs, j)[n] \in {fs[n], None}
BY DEF Retained

-----------------------------------------------------------------------------
(* One lemma per step *)

Live == {"open", "received", "verified", "lost"}

\* What a step of job j has to say for itself: the names it changed lead to inodes of
\* that name, and a temporary name it leaves is its own.
OwnStep(j) ==
  /\ FilesTyped'
  /\ \A k \in Jobs : k # j => job'[k] = job[k]
  /\ \A n \in Names : files'[n] \in {None, files[n]} \/ Name(files'[n]) = n
  /\ \A t \in TempNames : temps'[t] \in {None, temps[t]}
                            \/ (t = Temp(j) /\ Temp(temps'[t]) = t /\ Kind(j) # "dump" /\ job'[j].phase \in Live)
  /\ job'[j].node \in {None, job[j].node} \/ Name(job'[j].node) = Name(j)
  /\ Kind(j) # "dump" /\ Phase(j) \in Live /\ temps'[Temp(j)] # None => job'[j].phase \in Live
  /\ StepIInv(j)'

LEMMA OwnStepKeeps ==
  ASSUME FilesIInv, NEW j \in Jobs, OwnStep(j)
  PROVE  FilesIInv'
<1>1. FilesTyped'
  BY DEF OwnStep
<1>2. TempsAreTemporary'
  <2> SUFFICES ASSUME NEW t \in TempNames, temps'[t] # None
               PROVE  \E k \in Jobs : Kind(k) # "dump" /\ Temp(k) = t /\ job'[k].phase \in Live
    BY DEF TempsAreTemporary, Live, Phase
  <2>1. CASE temps'[t] = temps[t]
    <3>1. PICK k \in Jobs : Kind(k) # "dump" /\ Temp(k) = t /\ Phase(k) \in Live
      BY <2>1 DEF FilesIInv, TempsAreTemporary, Live
    <3>2. job'[k].phase \in Live
      BY <3>1 DEF OwnStep, Phase
    <3>3. QED
      BY <3>1, <3>2
  <2>2. CASE temps'[t] # temps[t]
    BY <2>2 DEF OwnStep
  <2>3. QED
    BY <2>1, <2>2
<1>3. NamesLead'
  BY DEF NamesLead, FilesIInv, OwnStep
<1>4. \A k \in Jobs : StepIInv(k)'
  BY DEF StepIInv, FilesIInv, OwnStep, Phase
<1>5. QED
  BY <1>1, <1>2, <1>3, <1>4 DEF FilesIInv

\* Steps that move a job and leave the files, of which the writes.
LEMMA MovedKeeps ==
  ASSUME FilesIInv, NEW j \in Jobs, FilesTyped', UNCHANGED directory,
         \A k \in Jobs : k # j => job'[k] = job[k],
         job'[j].node \in {job[j].node, files[Name(j)]},
         Phase(j) \notin Live \/ job'[j].phase \in Live, StepIInv(j)'
  PROVE  OwnStep(j)
<1>1. files' = files /\ temps' = temps
  BY DEF directory
<1>2. job'[j].node = job[j].node \/ Name(job'[j].node) = Name(j) \/ job'[j].node = None
  BY JobTypes DEF FilesIInv, NamesLead
<1>3. QED
  BY <1>1, <1>2 DEF OwnStep


LEMMA PhasesAre ==
  /\ {"none", "checked", "open", "received", "verified", "exited", "pushing", "sending", "pushed", "over", "lost"} = Phases
  /\ None \notin Jobs
BY BackupFilesConstants DEF Phases, BackupFilesConstants

\* A step that only moves a job on.
LEMMA MovingKeeps ==
  ASSUME FilesIInv, NEW j \in Jobs, NEW phase \in Phases, Moved(j, phase),
         UNCHANGED <<directory, data, remote, crashes>>,
         Phase(j) \notin Live \/ phase \in Live, StepIInv(j)'
  PROVE  OwnStep(j)
<1>1. /\ job' \in [Jobs -> JobRecord] /\ \A k \in Jobs : k # j => job'[k] = job[k]
      /\ job'[j].phase = phase /\ job'[j].node = job[j].node
  BY MovedSays DEF FilesIInv
<1>2. FilesTyped'
  BY <1>1 DEF FilesIInv, FilesTyped, directory
<1>3. QED
  BY <1>1, <1>2, MovedKeeps

\* A file is opened: the one the name leads to, or a new one.
LEMMA OpeningKeeps ==
  ASSUME FilesIInv, NEW j \in Jobs, NEW i \in Jobs, Opened(j, i), Name(i) = Name(j), UNCHANGED <<remote, crashes>>,
         Phase(j) \in {"none", "checked"},
         \/ temps' = temps /\ files' = files
         \/ temps' = temps /\ files' = [files EXCEPT ![Name(j)] = i]
         \/ temps' = [temps EXCEPT ![Temp(j)] = i] /\ files' = files /\ Temp(i) = Temp(j) /\ Kind(j) # "dump"
  PROVE  OwnStep(j)
<1>1. /\ job' \in [Jobs -> JobRecord] /\ \A k \in Jobs : k # j => job'[k] = job[k]
      /\ job'[j].phase = "open" /\ job'[j].node = i /\ data' \in [Jobs -> Seq(Blocks)]
  BY OpenedSays DEF FilesIInv
<1>2. FilesTyped'
  BY <1>1, JobTypes DEF FilesIInv, FilesTyped
<1>3. StepIInv(j)'
  BY <1>1, PhasesAre DEF StepIInv, Phase
<1>4. /\ \A n \in Names : files'[n] \in {None, files[n]} \/ Name(files'[n]) = n
      /\ \A t \in TempNames : temps'[t] \in {None, temps[t]} \/ (t = Temp(j) /\ Temp(temps'[t]) = t /\ Kind(j) # "dump")
  BY JobTypes DEF FilesIInv, FilesTyped
<1>5. QED
  BY <1>1, <1>2, <1>3, <1>4 DEF OwnStep, Live

LEMMA NodeIs ==
  ASSUME FilesIInv, NEW j \in Jobs
  PROVE  /\ Node(j, temps[Temp(j)]) \in Jobs /\ Temp(Node(j, temps[Temp(j)])) = Temp(j)
         /\ Node(j, files[Name(j)]) \in Jobs /\ Name(Node(j, files[Name(j)])) = Name(j)
         /\ Name(Node(j, temps[Temp(j)])) = Name(j)
BY JobTypes DEF FilesIInv, FilesTyped, NamesLead, Node

LEMMA DiscardingKeeps ==
  ASSUME FilesIInv, NEW j \in Jobs, Discarded(j), UNCHANGED <<data, remote, crashes>>
  PROVE  OwnStep(j)
<1>1. /\ job' \in [Jobs -> JobRecord] /\ \A k \in Jobs : k # j => job'[k] = job[k]
      /\ job'[j].phase = "over" /\ job'[j].node = job[j].node /\ files' = files
      /\ temps' \in [TempNames -> Jobs \cup {None}]
      /\ temps'[Temp(j)] = None /\ \A t \in TempNames : t # Temp(j) => temps'[t] = temps[t]
  BY DiscardedSays DEF FilesIInv
<1>2. FilesTyped'
  BY <1>1 DEF FilesIInv, FilesTyped
<1>3. StepIInv(j)'
  BY <1>1 DEF StepIInv, Phase
<1>4. QED
  BY <1>1, <1>2, <1>3 DEF OwnStep

LEMMA RenamingKeeps ==
  ASSUME FilesIInv, NEW j \in Jobs, Renamed(j), UNCHANGED <<data, remote, crashes>>
  PROVE  OwnStep(j)
<1>1. /\ job' \in [Jobs -> JobRecord] /\ \A k \in Jobs : k # j => job'[k] = job[k]
      /\ job'[j].phase = "over" /\ job'[j].node = job[j].node
      /\ files' \in [Names -> Jobs \cup {None}] /\ temps' \in [TempNames -> Jobs \cup {None}]
      /\ temps'[Temp(j)] = None /\ \A t \in TempNames : t # Temp(j) => temps'[t] = temps[t]
      /\ files'[Name(j)] = (IF temps[Temp(j)] = None THEN files[Name(j)] ELSE temps[Temp(j)])
      /\ \A n \in Names : n # Name(j) => files'[n] = files[n]
  BY RenamedSays DEF FilesIInv
<1>2. FilesTyped'
  BY <1>1 DEF FilesIInv, FilesTyped
<1>3. StepIInv(j)'
  BY <1>1 DEF StepIInv, Phase
<1>4. temps[Temp(j)] # None => Name(temps[Temp(j)]) = Name(j)
  BY JobTypes DEF FilesIInv, NamesLead, FilesTyped
<1>5. \A n \in Names : files'[n] \in {None, files[n]} \/ Name(files'[n]) = n
  BY <1>1, <1>4
<1>6. QED
  BY <1>1, <1>2, <1>3, <1>5 DEF OwnStep

LEMMA WritingKeeps ==
  ASSUME FilesIInv, NEW j \in Jobs, Writes(j)
  PROVE  OwnStep(j)
<1>1. job[j].node # None /\ Phase(j) = "open"
  BY DEF Writes, FilesIInv, StepIInv
<1>2. /\ job' \in [Jobs -> JobRecord] /\ \A k \in Jobs : k # j => job'[k] = job[k]
      /\ job'[j].phase = job[j].phase /\ job'[j].node = job[j].node /\ data' \in [Jobs -> Seq(Blocks)]
  BY <1>1, WroteSays DEF Writes, FilesIInv
<1>3. FilesTyped' /\ UNCHANGED directory
  BY <1>2 DEF FilesIInv, FilesTyped, Writes, directory
<1>4. StepIInv(j)'
  BY <1>1, <1>2 DEF StepIInv, Phase
<1>5. QED
  BY <1>1, <1>2, <1>3, <1>4, MovedKeeps DEF Phase

\* Retention, the delete after a push and a user's delete remove names.
LEMMA RemovingKeeps ==
  ASSUME FilesIInv, NEW j \in Jobs, files' \in [Names -> Jobs \cup {None}], \A n \in Names : files'[n] \in {files[n], None},
         Over(j), Phase(j) \notin Live, UNCHANGED <<temps, data, remote, crashes>>
  PROVE  OwnStep(j)
<1>1. /\ job' \in [Jobs -> JobRecord] /\ \A k \in Jobs : k # j => job'[k] = job[k]
      /\ job'[j].phase = "over" /\ job'[j].node = job[j].node
  BY MovedSays, PhasesAre DEF FilesIInv, Over
<1>2. FilesTyped'
  BY <1>1 DEF FilesIInv, FilesTyped
<1>3. StepIInv(j)'
  BY <1>1 DEF StepIInv, Phase
<1>4. QED
  BY <1>1, <1>2, <1>3 DEF OwnStep

\* Moving on, from the phases the step needs.
LEMMA MovesAre ==
  ASSUME NEW j \in Jobs, NEW phase \in Phases, FilesIInv, Moved(j, phase)
  PROVE  /\ job'[j].phase = phase /\ job'[j].node = job[j].node
         /\ phase \in {"none", "checked", "over"} => StepIInv(j)'
         /\ phase \in {"received", "verified"} /\ Kind(j) \in {"link", "s3"} => StepIInv(j)'
         /\ phase \in {"exited", "pushing", "pushed"} /\ Kind(j) = "dump" => StepIInv(j)'
<1>1. job'[j].phase = phase /\ job'[j].node = job[j].node
  BY MovedSays DEF FilesIInv
<1>2. QED
  BY <1>1 DEF StepIInv, Phase

LEMMA UploadKeeps ==
  ASSUME FilesIInv, NEW j \in Jobs, UploadOpens(j) \/ UploadFinishes(j) \/ UploadFails(j)
  PROVE  OwnStep(j)
<1>1. CASE UploadOpens(j) /\ files[Name(j)] # None
  <2>1. Moved(j, "over") /\ Phase(j) = "none" /\ UNCHANGED <<directory, data, remote, crashes>>
    BY <1>1 DEF UploadOpens, Over
  <2>2. StepIInv(j)'
    BY <2>1, MovesAre, PhasesAre
  <2>3. QED
    BY <2>1, <2>2, MovingKeeps, PhasesAre DEF Live
<1>2. CASE UploadOpens(j) /\ files[Name(j)] = None
  <2> DEFINE i == Node(j, temps[Temp(j)])
  <2>1. /\ Opened(j, i) /\ temps' = [temps EXCEPT ![Temp(j)] = i] /\ files' = files
        /\ Kind(j) = "upload" /\ Phase(j) = "none" /\ UNCHANGED <<remote, crashes>>
    BY <1>2 DEF UploadOpens
  <2>2. i \in Jobs /\ Temp(i) = Temp(j) /\ Name(i) = Name(j)
    BY NodeIs
  <2> HIDE DEF i
  <2>3. QED
    BY <2>1, <2>2, OpeningKeeps
<1>3. CASE UploadFinishes(j) \/ UploadFails(j)
  BY <1>3, RenamingKeeps, DiscardingKeeps DEF UploadFinishes, UploadFails
<1>4. QED
  BY <1>1, <1>2, <1>3

LEMMA PullKeeps ==
  ASSUME FilesIInv, NEW j \in Jobs,
         PullChecks(j) \/ PullOpens(j) \/ PullReceives(j) \/ PullVerifies(j) \/ PullRenames(j) \/ PullFails(j)
  PROVE  OwnStep(j)
<1>1. CASE PullChecks(j)
  <2>1. PICK phase \in {"checked", "over"} : Moved(j, phase)
    BY <1>1 DEF PullChecks, Over
  <2>2. Phase(j) = "none" /\ UNCHANGED <<directory, data, remote, crashes>>
    BY <1>1 DEF PullChecks
  <2>3. StepIInv(j)'
    BY <2>1, MovesAre, PhasesAre
  <2>4. QED
    BY <2>1, <2>2, <2>3, MovingKeeps, PhasesAre DEF Live
<1>2. CASE PullOpens(j) /\ Kind(j) = "s3"
  <2>1. Opened(j, j) /\ temps' = temps /\ files' = files /\ Phase(j) = "checked" /\ UNCHANGED <<remote, crashes>>
    BY <1>2 DEF PullOpens
  <2>2. QED
    BY <2>1, OpeningKeeps
<1>3. CASE PullOpens(j) /\ Kind(j) # "s3"
  <2> DEFINE i == Node(j, temps[Temp(j)])
  <2>1. /\ Opened(j, i) /\ temps' = [temps EXCEPT ![Temp(j)] = i] /\ files' = files
        /\ Kind(j) # "dump" /\ Phase(j) = "checked" /\ UNCHANGED <<remote, crashes>>
    BY <1>3 DEF PullOpens
  <2>2. i \in Jobs /\ Temp(i) = Temp(j) /\ Name(i) = Name(j)
    BY NodeIs
  <2> HIDE DEF i
  <2>3. QED
    BY <2>1, <2>2, OpeningKeeps
<1>4. CASE PullReceives(j)
  <2>1. /\ Kind(j) \in {"link", "s3"} /\ Moved(j, "received") /\ UNCHANGED <<files, data, remote, crashes>>
        /\ temps' = temps \/ temps' = [temps EXCEPT ![Temp(j)] = j]
    BY <1>4 DEF PullReceives
  <2>2. job'[j].phase = "received" /\ job'[j].node = job[j].node /\ StepIInv(j)'
    BY <2>1, MovesAre, PhasesAre
  <2>3. job' \in [Jobs -> JobRecord] /\ \A k \in Jobs : k # j => job'[k] = job[k]
    BY <2>1, MovedSays, PhasesAre DEF FilesIInv
  <2>4. FilesTyped'
    BY <2>1, <2>3, JobTypes DEF FilesIInv, FilesTyped
  <2>5. \A t \in TempNames : temps'[t] \in {None, temps[t]} \/ (t = Temp(j) /\ Temp(temps'[t]) = t)
    BY <2>1, JobTypes DEF FilesIInv, FilesTyped
  <2>6. QED
    BY <2>1, <2>2, <2>3, <2>4, <2>5 DEF OwnStep, Live
<1>5. CASE PullVerifies(j)
  <2>1. Phase(j) = "received" /\ Kind(j) \in {"link", "s3"} /\ UNCHANGED <<data, remote, crashes>>
    BY <1>5 DEF PullVerifies, FilesIInv, StepIInv
  <2>2. CASE Discarded(j)
    BY <2>1, <2>2, DiscardingKeeps
  <2>3. CASE Moved(j, "verified") /\ UNCHANGED directory
    <3>1. StepIInv(j)'
      BY <2>1, <2>3, MovesAre, PhasesAre
    <3>2. QED
      BY <2>1, <2>3, <3>1, MovingKeeps, PhasesAre DEF Live
  <2>4. CASE Over(j) /\ UNCHANGED directory /\ temps[Temp(j)] = None
    <3>1. job'[j].phase = "over" /\ job'[j].node = job[j].node /\ StepIInv(j)' /\ Moved(j, "over")
      BY <2>4, MovesAre, PhasesAre DEF Over
    <3>2. job' \in [Jobs -> JobRecord] /\ \A k \in Jobs : k # j => job'[k] = job[k]
      BY <3>1, MovedSays, PhasesAre DEF FilesIInv
    <3>3. FilesTyped' /\ files' = files /\ temps' = temps
      BY <2>1, <2>4, <3>2 DEF FilesIInv, FilesTyped, directory
    <3>4. QED
      BY <2>4, <3>1, <3>2, <3>3 DEF OwnStep
  <2>5. QED
    BY <1>5, <2>2, <2>3, <2>4 DEF PullVerifies
<1>6. CASE PullRenames(j) \/ PullFails(j)
  BY <1>6, RenamingKeeps, DiscardingKeeps DEF PullRenames, PullFails
<1>7. QED
  BY <1>1, <1>2, <1>3, <1>4, <1>5, <1>6

LEMMA DumpKeeps ==
  ASSUME FilesIInv, NEW j \in Jobs, DumpStarts(j) \/ DumpOpens(j) \/ DumpExits(j) \/ DumpConcludes(j)
  PROVE  OwnStep(j)
<1>1. CASE DumpStarts(j)
  <2>1. PICK phase \in {"checked", "over"} : Moved(j, phase)
    BY <1>1 DEF DumpStarts, Over
  <2>2. Phase(j) = "none" /\ UNCHANGED <<directory, data, remote, crashes>>
    BY <1>1 DEF DumpStarts
  <2>3. StepIInv(j)'
    BY <2>1, MovesAre, PhasesAre
  <2>4. QED
    BY <2>1, <2>2, <2>3, MovingKeeps, PhasesAre DEF Live
<1>2. CASE DumpOpens(j)
  <2> DEFINE i == Node(j, files[Name(j)])
  <2>1. /\ Opened(j, i) /\ files' = [files EXCEPT ![Name(j)] = i] /\ temps' = temps
        /\ Phase(j) = "checked" /\ UNCHANGED <<remote, crashes>>
    BY <1>2 DEF DumpOpens
  <2>2. i \in Jobs /\ Name(i) = Name(j)
    BY NodeIs
  <2> HIDE DEF i
  <2>3. QED
    BY <2>1, <2>2, OpeningKeeps
<1>3. CASE DumpExits(j)
  <2>1. PICK phase \in {"exited", "over"} : Moved(j, phase)
    BY <1>3 DEF DumpExits, Over
  <2>2. /\ Kind(j) = "dump" /\ UNCHANGED <<directory, data, remote, crashes>>
    BY <1>3 DEF DumpExits
  <2>3. /\ job' \in [Jobs -> JobRecord] /\ \A k \in Jobs : k # j => job'[k] = job[k]
        /\ job'[j].node = job[j].node /\ StepIInv(j)'
    BY <2>1, <2>2, MovesAre, MovedSays, PhasesAre DEF FilesIInv
  <2>4. FilesTyped' /\ files' = files /\ temps' = temps
    BY <2>2, <2>3 DEF FilesIInv, FilesTyped, directory
  <2>5. QED
    BY <2>2, <2>3, <2>4 DEF OwnStep
<1>4. CASE DumpConcludes(j) /\ Job[j].push
  <2>1. /\ job' = [job EXCEPT ![j].phase = "pushing", ![j].size = Size(Name(j))]
        /\ Phase(j) = "exited" /\ UNCHANGED <<directory, data, remote, crashes>>
    BY <1>4 DEF DumpConcludes
  <2>2. Kind(j) = "dump" /\ Size(Name(j)) \in Nat /\ job[j] \in JobRecord
    BY <2>1, JobTypes DEF FilesIInv, StepIInv, FilesTyped, Size
  <2> DEFINE there == [job EXCEPT ![j].phase = "pushing"]
  <2>3. /\ there \in [Jobs -> JobRecord] /\ \A k \in Jobs : k # j => there[k] = job[k]
        /\ there[j].phase = "pushing" /\ there[j].node = job[j].node
    BY <2>2, PhasesAre DEF FilesIInv, FilesTyped, JobRecord
  <2>4. job' = [there EXCEPT ![j].size = Size(Name(j))]
    BY <2>1
  <2> HIDE DEF there
  <2>5. /\ job' \in [Jobs -> JobRecord] /\ \A k \in Jobs : k # j => job'[k] = job[k]
        /\ job'[j].phase = "pushing" /\ job'[j].node = job[j].node
    BY <2>2, <2>3, <2>4 DEF JobRecord
  <2>6. FilesTyped' /\ files' = files /\ temps' = temps
    BY <2>1, <2>5 DEF FilesIInv, FilesTyped, directory
  <2>7. StepIInv(j)'
    BY <2>2, <2>5 DEF StepIInv, Phase
  <2>8. QED
    BY <2>2, <2>5, <2>6, <2>7 DEF OwnStep
<1>5. CASE DumpConcludes(j) /\ ~Job[j].push
  <2>1. /\ files' = Retained(files, j) /\ Over(j) /\ Phase(j) = "exited" /\ UNCHANGED <<temps, data, remote, crashes>>
    BY <1>5 DEF DumpConcludes
  <2>2. QED
    BY <2>1, RetainedSays, RemovingKeeps DEF FilesIInv, FilesTyped, Live
<1>6. QED
  BY <1>1, <1>2, <1>3, <1>4, <1>5

LEMMA PushKeeps ==
  ASSUME FilesIInv, NEW j \in Jobs, PushOpens(j) \/ PushSends(j) \/ PushFails(j) \/ PushConcludes(j)
  PROVE  OwnStep(j)
<1>1. CASE (PushOpens(j) /\ files[Name(j)] = None) \/ PushFails(j)
  <2>1. Moved(j, "over") /\ Phase(j) \notin Live /\ UNCHANGED <<directory, data, remote, crashes>>
    BY <1>1 DEF PushOpens, PushFails, Over, Live
  <2>2. StepIInv(j)'
    BY <2>1, MovesAre, PhasesAre
  <2>3. QED
    BY <2>1, <2>2, MovingKeeps, PhasesAre
<1>2. CASE PushOpens(j) /\ files[Name(j)] # None
  <2> DEFINE i == files[Name(j)]
             n == Size(Name(j))
             there == [job EXCEPT ![j].phase = "sending"]
             here == [there EXCEPT ![j].node = i]
  <2>1. /\ job' = [here EXCEPT ![j].at = n]
        /\ Phase(j) = "pushing" /\ UNCHANGED <<directory, data, remote, crashes>>
    BY <1>2 DEF PushOpens
  <2>2. Kind(j) = "dump" /\ n \in Nat /\ job[j] \in JobRecord /\ i \in Jobs
    BY <1>2, <2>1, JobTypes DEF FilesIInv, StepIInv, FilesTyped, Size
  <2>3. /\ there \in [Jobs -> JobRecord] /\ \A k \in Jobs : k # j => there[k] = job[k]
        /\ there[j].phase = "sending"
    BY <2>2, PhasesAre DEF FilesIInv, FilesTyped, JobRecord
  <2> HIDE DEF there, i, n
  <2>4. /\ here \in [Jobs -> JobRecord] /\ \A k \in Jobs : k # j => here[k] = job[k]
        /\ here[j].phase = "sending" /\ here[j].node = i
    BY <2>2, <2>3 DEF JobRecord
  <2> HIDE DEF here
  <2>5. /\ job' \in [Jobs -> JobRecord] /\ \A k \in Jobs : k # j => job'[k] = job[k]
        /\ job'[j].phase = "sending" /\ job'[j].node = i
    BY <2>1, <2>2, <2>4 DEF JobRecord
  <2>6. FilesTyped'
    BY <2>1, <2>5 DEF FilesIInv, FilesTyped, directory
  <2>7. StepIInv(j)'
    BY <2>2, <2>5, PhasesAre DEF StepIInv, Phase
  <2>8. QED
    BY <2>1, <2>2, <2>5, <2>6, <2>7, MovedKeeps DEF i, Live
<1>3. CASE PushSends(j)
  <2>1. /\ Phase(j) = "sending" /\ Moved(j, "pushed") /\ UNCHANGED <<directory, data, crashes>>
        /\ remote' = [remote EXCEPT ![Name(j)] = SubSeq(data[job[j].node], 1, job[j].at)]
        /\ Len(data[job[j].node]) >= job[j].at
    BY <1>3 DEF PushSends
  <2>2. Kind(j) = "dump" /\ job[j] \in JobRecord
    BY <2>1 DEF FilesIInv, StepIInv, FilesTyped
  <2>3. /\ job' \in [Jobs -> JobRecord] /\ \A k \in Jobs : k # j => job'[k] = job[k]
        /\ job'[j].phase = "pushed" /\ job'[j].node = job[j].node /\ StepIInv(j)'
    BY <2>1, <2>2, MovesAre, MovedSays, PhasesAre DEF FilesIInv
  <2>4. job[j].node # None
    BY <2>1 DEF FilesIInv, StepIInv
  <2>5. SubSeq(data[job[j].node], 1, job[j].at) \in Seq(Blocks)
    BY <2>1, <2>2, <2>4, SubSeqProperties DEF JobRecord, FilesIInv, FilesTyped
  <2>6. FilesTyped'
    BY <2>1, <2>3, <2>5, JobTypes DEF FilesIInv, FilesTyped, directory
  <2>7. QED
    BY <2>1, <2>3, <2>6, MovedKeeps DEF Live
<1>4. CASE PushConcludes(j)
  <2>1. /\ Phase(j) = "pushed" /\ files' = Retained(Trimmed(j), j) /\ Over(j)
        /\ UNCHANGED <<temps, data, remote, crashes>>
    BY <1>4 DEF PushConcludes
  <2>2. Trimmed(j) \in [Names -> Jobs \cup {None}] /\ \A n \in Names : Trimmed(j)[n] \in {files[n], None}
    BY JobTypes DEF FilesIInv, FilesTyped, Trimmed
  <2>3. files' \in [Names -> Jobs \cup {None}] /\ \A n \in Names : files'[n] \in {files[n], None}
    BY <2>1, <2>2, RetainedSays
  <2>4. QED
    BY <2>1, <2>3, RemovingKeeps DEF Live
<1>5. QED
  BY <1>1, <1>2, <1>3, <1>4

LEMMA DeletesKeeps ==
  ASSUME FilesIInv, NEW n \in Names, Deletes(n)
  PROVE  FilesIInv'
<1>1. FilesTyped'
  BY DEF Deletes, FilesIInv, FilesTyped
<1>2. NamesLead' /\ TempsAreTemporary' /\ \A j \in Jobs : StepIInv(j)'
  BY DEF Deletes, FilesIInv, FilesTyped, NamesLead, TempsAreTemporary, StepIInv, Phase
<1>3. QED
  BY <1>1, <1>2 DEF FilesIInv

\* A crash leaves names and inodes alone; a live job is lost, which counts as live.
LEMMA CrashSays ==
  ASSUME FilesTyped, Crash
  PROVE  /\ FilesTyped'
         /\ \A j \in Jobs : /\ job'[j].phase = (IF Phase(j) \in {"none", "over"} THEN Phase(j) ELSE "lost")
                            /\ job'[j].node = job[j].node /\ job'[j].at = job[j].at /\ job'[j].size = job[j].size
         /\ UNCHANGED <<files, temps, data, remote>>
<1> DEFINE left(j) == IF Phase(j) \in {"none", "over"} THEN job[j] ELSE [job[j] EXCEPT !.phase = "lost"]
<1>1. ASSUME NEW j \in Jobs
      PROVE  /\ left(j) \in JobRecord /\ left(j).phase = (IF Phase(j) \in {"none", "over"} THEN Phase(j) ELSE "lost")
             /\ left(j).node = job[j].node /\ left(j).at = job[j].at /\ left(j).size = job[j].size
  BY PhasesAre DEF FilesTyped, JobRecord, Phase
<1>2. job' = [j \in Jobs |-> left(j)] /\ crashes' \in 0 .. MaxCrashes /\ UNCHANGED <<files, temps, data, remote>>
  BY BackupFilesConstants DEF Crash, directory, FilesTyped, BackupFilesConstants
<1> HIDE DEF left
<1>3. QED
  BY <1>1, <1>2 DEF FilesTyped

LEMMA CrashKeeps ==
  ASSUME FilesIInv, Crash
  PROVE  FilesIInv'
<1>1. /\ FilesTyped'
      /\ \A j \in Jobs : /\ job'[j].phase = (IF Phase(j) \in {"none", "over"} THEN Phase(j) ELSE "lost")
                         /\ job'[j].node = job[j].node
      /\ UNCHANGED <<files, temps>>
  BY CrashSays DEF FilesIInv
<1>2. NamesLead'
  BY <1>1 DEF NamesLead, FilesIInv
<1>3. TempsAreTemporary'
  BY <1>1 DEF TempsAreTemporary, FilesIInv, Phase
<1>4. \A j \in Jobs : StepIInv(j)'
  BY <1>1 DEF StepIInv, FilesIInv, Phase
<1>5. QED
  BY <1>1, <1>2, <1>3, <1>4 DEF FilesIInv

LEMMA JobStepKeeps ==
  ASSUME FilesIInv, NEW j \in Jobs,
         \/ UploadOpens(j) \/ UploadFinishes(j) \/ UploadFails(j) \/ Writes(j)
         \/ PullChecks(j) \/ PullOpens(j) \/ PullReceives(j) \/ PullVerifies(j) \/ PullRenames(j) \/ PullFails(j)
         \/ DumpStarts(j) \/ DumpOpens(j) \/ DumpExits(j) \/ DumpConcludes(j)
         \/ PushOpens(j) \/ PushSends(j) \/ PushFails(j) \/ PushConcludes(j)
  PROVE  OwnStep(j)
BY UploadKeeps, WritingKeeps, PullKeeps, DumpKeeps, PushKeeps

LEMMA FilesInitially == BackupFilesInit => FilesIInv
<1> SUFFICES ASSUME BackupFilesInit PROVE FilesIInv
  OBVIOUS
<1>1. <<>> \in Seq(Blocks) /\ 0 \in 0 .. MaxCrashes
  BY BackupFilesConstants DEF BackupFilesConstants
<1>2. FilesTyped
  BY <1>1, PhasesAre DEF BackupFilesInit, FilesTyped, JobRecord
<1>3. NamesLead /\ TempsAreTemporary /\ \A j \in Jobs : StepIInv(j)
  BY DEF BackupFilesInit, NamesLead, TempsAreTemporary, StepIInv, Phase
<1>4. QED
  BY <1>2, <1>3 DEF FilesIInv

LEMMA FilesInductive == FilesIInv /\ [BackupFilesNext]_backupFilesVars => FilesIInv'
<1> SUFFICES ASSUME FilesIInv, [BackupFilesNext]_backupFilesVars PROVE FilesIInv'
  OBVIOUS
<1>1. CASE UNCHANGED backupFilesVars
  BY <1>1 DEF backupFilesVars, FilesIInv, FilesTyped, NamesLead, TempsAreTemporary, StepIInv, Phase
<1>2. CASE Crash \/ \E n \in Names : Deletes(n)
  BY <1>2, DeletesKeeps, CrashKeeps
<1>3. CASE BackupFilesNext /\ ~Crash /\ ~\E n \in Names : Deletes(n)
  <2>1. PICK j \in Jobs :
          \/ UploadOpens(j) \/ UploadFinishes(j) \/ UploadFails(j) \/ Writes(j)
          \/ PullChecks(j) \/ PullOpens(j) \/ PullReceives(j) \/ PullVerifies(j) \/ PullRenames(j) \/ PullFails(j)
          \/ DumpStarts(j) \/ DumpOpens(j) \/ DumpExits(j) \/ DumpConcludes(j)
          \/ PushOpens(j) \/ PushSends(j) \/ PushFails(j) \/ PushConcludes(j)
    BY <1>3 DEF BackupFilesNext
  <2>2. OwnStep(j)
    BY <2>1, JobStepKeeps
  <2>3. QED
    BY <2>2, OwnStepKeeps
<1>4. QED
  BY <1>1, <1>2, <1>3

-----------------------------------------------------------------------------
(* The theorems *)

\* Names lead to inodes that were created under them, temporary ones to somebody who
\* will remove them, and each job is where its kind can be, in every state.
THEOREM FilesInvariant == BackupFilesSpec => []FilesIInv
BY FilesInitially, FilesInductive, PTL DEF BackupFilesSpec

\* No error path of an upload or a pull leaves a temporary file: as long as one is there,
\* a job that will rename or remove it is on its way, or a crash has taken it.
THEOREM TempsStayTemporary == BackupFilesSpec => []TempsAreTemporary
<1>1. FilesIInv => TempsAreTemporary
  BY DEF FilesIInv
<1>2. QED
  BY <1>1, FilesInvariant, PTL

-----------------------------------------------------------------------------
(* Jobs that share no name *)

\* What findings 11, 12 and 14 lack.
OwnNames == \A j, k \in Jobs : Name(j) = Name(k) => j = k

Arriving == {"none", "checked", "open", "received", "verified"}

\* What a job has written, published and pushed.
OwnIInv(j) ==
  /\ Phase(j) \in {"none", "checked"} => job[j].at = 0
  /\ Phase(j) = "open" => Len(data[j]) = job[j].at /\ job[j].at <= Job[j].size /\ \A k \in 1 .. job[j].at : data[j][k] = j
  /\ Phase(j) \in {"received", "verified"} => data[j] = Content(j)
  /\ Kind(j) # "dump" /\ Phase(j) \in Arriving => files[Name(j)] = None
  /\ Kind(j) # "dump" /\ files[Name(j)] # None => data[j] = Content(j)
  /\ Phase(j) = "sending" => job[j].at = Len(data[j])
  /\ Phase(j) = "pushed" => remote[Name(j)] = data[j]

LEMMA OwnNodes ==
  ASSUME FilesIInv, OwnNames, NEW j \in Jobs
  PROVE  files[Name(j)] \in {None, j} /\ temps[Temp(j)] \in {None, j} /\ job[j].node \in {None, j}
<1>1. /\ files[Name(j)] # None => files[Name(j)] \in Jobs /\ Name(files[Name(j)]) = Name(j)
      /\ temps[Temp(j)] # None => temps[Temp(j)] \in Jobs /\ Name(temps[Temp(j)]) = Name(j)
      /\ job[j].node # None => job[j].node \in Jobs /\ Name(job[j].node) = Name(j)
  BY JobTypes DEF FilesIInv, FilesTyped, NamesLead, JobRecord
<1>2. QED
  BY <1>1 DEF OwnNames

\* What the others see of a step of job j.
Elsewhere(j) ==
  \A k \in Jobs : k # j =>
    /\ job'[k] = job[k] /\ data'[k] = data[k] /\ remote'[Name(k)] = remote[Name(k)]
    /\ files'[Name(k)] \in {None, files[Name(k)]}

LEMMA ElsewhereKeeps ==
  ASSUME \A k \in Jobs : OwnIInv(k), NEW j \in Jobs, Elsewhere(j), OwnIInv(j)'
  PROVE  \A k \in Jobs : OwnIInv(k)'
BY DEF Elsewhere, OwnIInv, Phase

\* Steps that only move a job on, and those that remove its name as well.
LEMMA MovingOwns ==
  ASSUME FilesIInv, NEW j \in Jobs, OwnIInv(j), NEW phase \in Phases, Moved(j, phase),
         UNCHANGED <<data, remote>>, \A n \in Names : files'[n] \in {None, files[n]},
         \/ phase \in {"over", "exited"}
         \/ phase = "checked" /\ Phase(j) = "none"
         \/ phase = "received" /\ Kind(j) # "dump" /\ Phase(j) = "open" /\ data[j] = Content(j)
         \/ phase = "verified" /\ Phase(j) = "received"
  PROVE  Elsewhere(j) /\ OwnIInv(j)'
<1>1. /\ \A k \in Jobs : k # j => job'[k] = job[k]
      /\ job'[j].phase = phase /\ job'[j].at = job[j].at
  BY MovedSays DEF FilesIInv
<1>2. Elsewhere(j)
  BY <1>1, JobTypes DEF Elsewhere
<1>3. OwnIInv(j)'
  BY <1>1, JobTypes DEF OwnIInv, Phase, Arriving, Content
<1>4. QED
  BY <1>2, <1>3

LEMMA OpeningOwns ==
  ASSUME FilesIInv, OwnNames, NEW j \in Jobs, OwnIInv(j), Opened(j, j), UNCHANGED remote,
         Phase(j) \in {"none", "checked"},
         files' = files \/ (Kind(j) = "dump" /\ files' = [files EXCEPT ![Name(j)] = j])
  PROVE  Elsewhere(j) /\ OwnIInv(j)'
<1>1. /\ \A k \in Jobs : k # j => job'[k] = job[k]
      /\ job'[j].phase = "open" /\ job'[j].at = job[j].at
      /\ data'[j] = <<>> /\ \A k \in Jobs : k # j => data'[k] = data[k]
  BY OpenedSays DEF FilesIInv
<1>2. \A k \in Jobs : k # j => Name(k) # Name(j)
  BY DEF OwnNames
<1>3. Elsewhere(j)
  BY <1>1, <1>2, JobTypes DEF Elsewhere, FilesIInv, FilesTyped
<1>4. job'[j].at = 0 /\ Len(data'[j]) = 0
  BY <1>1 DEF OwnIInv
<1>5. OwnIInv(j)'
  BY <1>1, <1>4, JobTypes DEF OwnIInv, Phase, Arriving
<1>6. QED
  BY <1>3, <1>5

LEMMA WritingOwns ==
  ASSUME FilesIInv, OwnNames, NEW j \in Jobs, OwnIInv(j), Writes(j)
  PROVE  Elsewhere(j) /\ OwnIInv(j)'
<1>1. job[j].node = j /\ Phase(j) = "open" /\ job[j].at < Job[j].size /\ UNCHANGED <<files, remote>>
  BY OwnNodes DEF Writes, FilesIInv, StepIInv, directory
<1>2. Len(data[j]) = job[j].at /\ data[j] \in Seq(Blocks) /\ job[j].at \in Nat
  BY <1>1 DEF OwnIInv, FilesIInv, FilesTyped, JobRecord
<1>3. /\ \A k \in Jobs : k # j => job'[k] = job[k]
      /\ job'[j].phase = "open" /\ job'[j].at = job[j].at + 1
      /\ \A k \in Jobs : k # j => data'[k] = data[k]
      /\ data'[j] = [k \in 1 .. job[j].at + 1 |-> IF k = job[j].at + 1 THEN j ELSE data[j][k]]
  BY <1>1, <1>2, WroteSays, PhasesAre DEF Writes, FilesIInv, Phase
<1>4. Elsewhere(j)
  BY <1>1, <1>3 DEF Elsewhere
<1>5. Len(data'[j]) = job'[j].at /\ job'[j].at <= Job[j].size
  BY <1>1, <1>2, <1>3, JobTypes
<1>6. \A k \in 1 .. job'[j].at : data'[j][k] = j
  BY <1>1, <1>2, <1>3 DEF OwnIInv
<1>7. files[Name(j)] = None \/ Kind(j) = "dump"
  BY <1>1 DEF OwnIInv, Arriving
<1>8. OwnIInv(j)'
  BY <1>1, <1>3, <1>5, <1>6, <1>7 DEF OwnIInv, Phase
<1>9. QED
  BY <1>4, <1>8

\* All of it has arrived.
LEMMA ArrivedIsWhole ==
  ASSUME FilesIInv, NEW j \in Jobs, OwnIInv(j), Phase(j) = "open", job[j].at = Job[j].size
  PROVE  data[j] = Content(j)
<1>1. /\ data[j] \in Seq(Blocks) /\ Len(data[j]) = Job[j].size /\ Job[j].size \in Nat
      /\ \A k \in 1 .. Job[j].size : data[j][k] = j
  BY JobTypes DEF OwnIInv, FilesIInv, FilesTyped
<1>2. Content(j) \in Seq(Jobs) /\ Len(Content(j)) = Job[j].size /\ \A k \in 1 .. Job[j].size : Content(j)[k] = j
  BY <1>1 DEF Content
<1>3. QED
  BY <1>1, <1>2

LEMMA RenamingOwns ==
  ASSUME FilesIInv, OwnNames, NEW j \in Jobs, OwnIInv(j), data[j] = Content(j), Renamed(j), UNCHANGED <<data, remote>>
  PROVE  Elsewhere(j) /\ OwnIInv(j)'
<1>1. /\ \A k \in Jobs : k # j => job'[k] = job[k]
      /\ job'[j].phase = "over"
      /\ \A n \in Names : n # Name(j) => files'[n] = files[n]
  BY RenamedSays DEF FilesIInv
<1>2. \A k \in Jobs : k # j => Name(k) # Name(j)
  BY DEF OwnNames
<1>3. Elsewhere(j)
  BY <1>1, <1>2, JobTypes DEF Elsewhere
<1>4. OwnIInv(j)'
  BY <1>1 DEF OwnIInv, Phase, Arriving, Content
<1>5. QED
  BY <1>3, <1>4

LEMMA DiscardingOwns ==
  ASSUME FilesIInv, NEW j \in Jobs, OwnIInv(j), Discarded(j), UNCHANGED <<data, remote>>
  PROVE  Elsewhere(j) /\ OwnIInv(j)'
<1>1. Moved(j, "over") /\ \A n \in Names : files'[n] \in {None, files[n]}
  BY DEF Discarded, Over
<1>2. QED
  BY <1>1, MovingOwns, PhasesAre

LEMMA UploadOwns ==
  ASSUME FilesIInv, OwnNames, NEW j \in Jobs, OwnIInv(j), UploadOpens(j) \/ UploadFinishes(j) \/ UploadFails(j)
  PROVE  Elsewhere(j) /\ OwnIInv(j)'
<1>1. CASE UploadOpens(j) /\ files[Name(j)] # None
  <2>1. Moved(j, "over") /\ UNCHANGED <<data, remote>> /\ \A n \in Names : files'[n] \in {None, files[n]}
    BY <1>1 DEF UploadOpens, Over, directory
  <2>2. QED
    BY <2>1, MovingOwns, PhasesAre
<1>2. CASE UploadOpens(j) /\ files[Name(j)] = None
  <2>1. Node(j, temps[Temp(j)]) = j
    BY OwnNodes DEF Node
  <2>2. Opened(j, j) /\ files' = files /\ Phase(j) = "none" /\ remote' = remote
    BY <1>2, <2>1 DEF UploadOpens
  <2>3. QED
    BY <2>2, OpeningOwns
<1>3. CASE UploadFinishes(j)
  <2>1. Phase(j) = "open" /\ job[j].at = Job[j].size /\ UNCHANGED <<data, remote>> /\ (Renamed(j) \/ Discarded(j))
    BY <1>3 DEF UploadFinishes
  <2>2. data[j] = Content(j)
    BY <2>1, ArrivedIsWhole
  <2>3. QED
    BY <2>1, <2>2, RenamingOwns, DiscardingOwns
<1>4. CASE UploadFails(j)
  BY <1>4, DiscardingOwns DEF UploadFails
<1>5. QED
  BY <1>1, <1>2, <1>3, <1>4

LEMMA PullOwns ==
  ASSUME FilesIInv, OwnNames, NEW j \in Jobs, OwnIInv(j),
         PullChecks(j) \/ PullOpens(j) \/ PullReceives(j) \/ PullVerifies(j) \/ PullRenames(j) \/ PullFails(j)
  PROVE  Elsewhere(j) /\ OwnIInv(j)'
<1>1. CASE PullChecks(j)
  <2>1. PICK phase \in {"checked", "over"} : Moved(j, phase)
    BY <1>1 DEF PullChecks, Over
  <2>2. Phase(j) = "none" /\ UNCHANGED <<data, remote>> /\ \A n \in Names : files'[n] \in {None, files[n]}
    BY <1>1 DEF PullChecks, directory
  <2>3. QED
    BY <2>1, <2>2, MovingOwns, PhasesAre
<1>2. CASE PullOpens(j)
  <2>1. Node(j, temps[Temp(j)]) = j
    BY OwnNodes DEF Node
  <2>2. Opened(j, j) /\ files' = files /\ Phase(j) = "checked" /\ remote' = remote
    BY <1>2, <2>1 DEF PullOpens
  <2>3. QED
    BY <2>2, OpeningOwns
<1>3. CASE PullReceives(j)
  <2>1. /\ Kind(j) # "dump" /\ Phase(j) = "open" /\ job[j].at = Job[j].size /\ Moved(j, "received")
        /\ UNCHANGED <<data, remote>> /\ \A n \in Names : files'[n] \in {None, files[n]}
    BY <1>3 DEF PullReceives
  <2>2. data[j] = Content(j)
    BY <2>1, ArrivedIsWhole
  <2>3. QED
    BY <2>1, <2>2, MovingOwns, PhasesAre
<1>4. CASE PullVerifies(j)
  <2>1. Phase(j) = "received" /\ UNCHANGED <<data, remote>>
    BY <1>4 DEF PullVerifies
  <2>2. CASE Discarded(j)
    BY <2>1, <2>2, DiscardingOwns
  <2>3. CASE (Moved(j, "verified") \/ Over(j)) /\ UNCHANGED directory
    <3>1. \A n \in Names : files'[n] \in {None, files[n]}
      BY <2>3 DEF directory
    <3>2. QED
      BY <2>1, <2>3, <3>1, MovingOwns, PhasesAre DEF Over
  <2>4. QED
    BY <1>4, <2>2, <2>3 DEF PullVerifies
<1>5. CASE PullRenames(j)
  <2>1. data[j] = Content(j) /\ Renamed(j) /\ UNCHANGED <<data, remote>>
    BY <1>5 DEF PullRenames, OwnIInv
  <2>2. QED
    BY <2>1, RenamingOwns
<1>6. CASE PullFails(j)
  BY <1>6, DiscardingOwns DEF PullFails
<1>7. QED
  BY <1>1, <1>2, <1>3, <1>4, <1>5, <1>6

LEMMA DumpOwns ==
  ASSUME FilesIInv, OwnNames, NEW j \in Jobs, OwnIInv(j), DumpStarts(j) \/ DumpOpens(j) \/ DumpExits(j) \/ DumpConcludes(j)
  PROVE  Elsewhere(j) /\ OwnIInv(j)'
<1>1. CASE DumpStarts(j)
  <2>1. PICK phase \in {"checked", "over"} : Moved(j, phase)
    BY <1>1 DEF DumpStarts, Over
  <2>2. Phase(j) = "none" /\ UNCHANGED <<data, remote>> /\ \A n \in Names : files'[n] \in {None, files[n]}
    BY <1>1 DEF DumpStarts, directory
  <2>3. QED
    BY <2>1, <2>2, MovingOwns, PhasesAre
<1>2. CASE DumpOpens(j)
  <2>1. Node(j, files[Name(j)]) = j
    BY OwnNodes DEF Node
  <2>2. /\ Opened(j, j) /\ files' = [files EXCEPT ![Name(j)] = j] /\ Kind(j) = "dump" /\ Phase(j) = "checked"
        /\ remote' = remote
    BY <1>2, <2>1 DEF DumpOpens
  <2>3. QED
    BY <2>2, OpeningOwns
<1>3. CASE DumpExits(j)
  <2>1. PICK phase \in {"exited", "over"} : Moved(j, phase)
    BY <1>3 DEF DumpExits, Over
  <2>2. UNCHANGED <<data, remote>> /\ \A n \in Names : files'[n] \in {None, files[n]}
    BY <1>3 DEF DumpExits, directory
  <2>3. QED
    BY <2>1, <2>2, MovingOwns, PhasesAre
<1>4. CASE DumpConcludes(j) /\ Job[j].push
  <2>1. /\ job' = [job EXCEPT ![j].phase = "pushing", ![j].size = Size(Name(j))]
        /\ Phase(j) = "exited" /\ UNCHANGED <<files, data, remote>>
    BY <1>4 DEF DumpConcludes, directory
  <2>2. Kind(j) = "dump"
    BY <2>1 DEF FilesIInv, StepIInv
  <2>3. job'[j].phase = "pushing" /\ \A k \in Jobs : k # j => job'[k] = job[k]
    BY <2>1 DEF FilesIInv, FilesTyped, JobRecord
  <2>4. Elsewhere(j)
    BY <2>1, <2>3 DEF Elsewhere
  <2>5. OwnIInv(j)'
    BY <2>2, <2>3 DEF OwnIInv, Phase
  <2>6. QED
    BY <2>4, <2>5
<1>5. CASE DumpConcludes(j) /\ ~Job[j].push
  <2>1. files' = Retained(files, j) /\ Moved(j, "over") /\ UNCHANGED <<data, remote>>
    BY <1>5 DEF DumpConcludes, Over
  <2>2. \A n \in Names : files'[n] \in {None, files[n]}
    BY <2>1, RetainedSays DEF FilesIInv, FilesTyped
  <2>3. QED
    BY <2>1, <2>2, MovingOwns, PhasesAre
<1>6. QED
  BY <1>1, <1>2, <1>3, <1>4, <1>5

LEMMA PushOwns ==
  ASSUME FilesIInv, OwnNames, NEW j \in Jobs, OwnIInv(j), PushOpens(j) \/ PushSends(j) \/ PushFails(j) \/ PushConcludes(j)
  PROVE  Elsewhere(j) /\ OwnIInv(j)'
<1>1. CASE (PushOpens(j) /\ files[Name(j)] = None) \/ PushFails(j)
  <2>1. Moved(j, "over") /\ UNCHANGED <<data, remote>> /\ \A n \in Names : files'[n] \in {None, files[n]}
    BY <1>1 DEF PushOpens, PushFails, Over, directory
  <2>2. QED
    BY <2>1, MovingOwns, PhasesAre
<1>2. CASE PushOpens(j) /\ files[Name(j)] # None
  <2>1. files[Name(j)] = j /\ Size(Name(j)) = Len(data[j])
    BY <1>2, OwnNodes DEF Size
  <2>2. /\ job' = [job EXCEPT ![j].phase = "sending", ![j].node = files[Name(j)], ![j].at = Size(Name(j))]
        /\ Phase(j) = "pushing" /\ UNCHANGED <<files, data, remote>>
    BY <1>2 DEF PushOpens, directory
  <2>3. Kind(j) = "dump"
    BY <2>2 DEF FilesIInv, StepIInv
  <2> DEFINE n == Size(Name(j))
             i == files[Name(j)]
             here == [job EXCEPT ![j].phase = "sending", ![j].node = i]
  <2>4. job' = [here EXCEPT ![j].at = n]
    BY <2>2
  <2> HIDE DEF n, i
  <2>5. /\ DOMAIN here = Jobs /\ \A k \in Jobs : k # j => here[k] = job[k]
        /\ here[j].phase = "sending" /\ DOMAIN here[j] = {"phase", "node", "at", "size"}
    BY DEF FilesIInv, FilesTyped, JobRecord
  <2> HIDE DEF here
  <2>6. job'[j].phase = "sending" /\ job'[j].at = n /\ \A k \in Jobs : k # j => job'[k] = job[k]
    BY <2>4, <2>5
  <2>7. Elsewhere(j)
    BY <2>2, <2>6 DEF Elsewhere
  <2>8. OwnIInv(j)'
    BY <2>1, <2>2, <2>3, <2>6 DEF OwnIInv, Phase, n
  <2>9. QED
    BY <2>7, <2>8
<1>3. CASE PushSends(j)
  <2>1. /\ Phase(j) = "sending" /\ Moved(j, "pushed") /\ UNCHANGED <<files, data>>
        /\ remote' = [remote EXCEPT ![Name(j)] = SubSeq(data[job[j].node], 1, job[j].at)]
    BY <1>3 DEF PushSends, directory
  <2>2. Kind(j) = "dump" /\ job[j].node = j /\ job[j].at = Len(data[j]) /\ data[j] \in Seq(Blocks)
    BY <2>1, OwnNodes DEF FilesIInv, StepIInv, OwnIInv, FilesTyped
  <2>3. remote'[Name(j)] = data[j] /\ \A m \in Names : m # Name(j) => remote'[m] = remote[m]
    BY <2>1, <2>2, SubSeqFull, JobTypes DEF FilesIInv, FilesTyped
  <2>4. job'[j].phase = "pushed" /\ \A k \in Jobs : k # j => job'[k] = job[k]
    BY <2>1, MovedSays, PhasesAre DEF FilesIInv
  <2>5. Elsewhere(j)
    BY <2>1, <2>3, <2>4, JobTypes DEF Elsewhere, OwnNames
  <2>6. OwnIInv(j)'
    BY <2>1, <2>2, <2>3, <2>4 DEF OwnIInv, Phase
  <2>7. QED
    BY <2>5, <2>6
<1>4. CASE PushConcludes(j)
  <2>1. files' = Retained(Trimmed(j), j) /\ Moved(j, "over") /\ UNCHANGED <<data, remote>>
    BY <1>4 DEF PushConcludes, Over
  <2>2. Trimmed(j) \in [Names -> Jobs \cup {None}] /\ \A n \in Names : Trimmed(j)[n] \in {files[n], None}
    BY JobTypes DEF FilesIInv, FilesTyped, Trimmed
  <2>3. \A n \in Names : files'[n] \in {None, files[n]}
    BY <2>1, <2>2, RetainedSays
  <2>4. QED
    BY <2>1, <2>3, MovingOwns, PhasesAre
<1>5. QED
  BY <1>1, <1>2, <1>3, <1>4

OwnFilesIInv == FilesIInv /\ \A j \in Jobs : OwnIInv(j)

LEMMA OwnFilesInductive ==
  ASSUME OwnNames
  PROVE  OwnFilesIInv /\ [BackupFilesNext]_backupFilesVars => OwnFilesIInv'
<1> SUFFICES ASSUME OwnFilesIInv, [BackupFilesNext]_backupFilesVars PROVE OwnFilesIInv'
  OBVIOUS
<1>1. FilesIInv /\ FilesIInv' /\ \A j \in Jobs : OwnIInv(j)
  BY FilesInductive DEF OwnFilesIInv
<1>2. CASE UNCHANGED backupFilesVars
  BY <1>1, <1>2 DEF backupFilesVars, OwnFilesIInv, OwnIInv, Phase
<1>3. CASE Crash
  <2>1. /\ \A j \in Jobs : /\ job'[j].phase = (IF Phase(j) \in {"none", "over"} THEN Phase(j) ELSE "lost")
                           /\ job'[j].at = job[j].at
        /\ UNCHANGED <<files, data, remote>>
    BY <1>1, <1>3, CrashSays DEF FilesIInv
  <2>2. QED
    BY <1>1, <2>1 DEF OwnFilesIInv, OwnIInv, Phase, Arriving
<1>4. CASE \E n \in Names : Deletes(n)
  <2>1. UNCHANGED <<job, data, remote>> /\ \A n \in Names : files'[n] \in {None, files[n]}
    BY <1>1, <1>4 DEF Deletes, FilesIInv, FilesTyped
  <2>2. QED
    BY <1>1, <2>1, JobTypes DEF OwnFilesIInv, OwnIInv, Phase
<1>5. ASSUME NEW j \in Jobs,
             \/ UploadOpens(j) \/ UploadFinishes(j) \/ UploadFails(j) \/ Writes(j)
             \/ PullChecks(j) \/ PullOpens(j) \/ PullReceives(j) \/ PullVerifies(j) \/ PullRenames(j) \/ PullFails(j)
             \/ DumpStarts(j) \/ DumpOpens(j) \/ DumpExits(j) \/ DumpConcludes(j)
             \/ PushOpens(j) \/ PushSends(j) \/ PushFails(j) \/ PushConcludes(j)
      PROVE  OwnFilesIInv'
  <2>1. Elsewhere(j) /\ OwnIInv(j)'
    BY <1>1, <1>5, UploadOwns, WritingOwns, PullOwns, DumpOwns, PushOwns
  <2>2. QED
    BY <1>1, <2>1, ElsewhereKeeps DEF OwnFilesIInv
<1>6. QED
  BY <1>2, <1>3, <1>4, <1>5 DEF BackupFilesNext

\* As long as no two jobs share a name, what a job has written, published and pushed is
\* its own and complete.
THEOREM OwnFilesInvariant == ASSUME OwnNames PROVE BackupFilesSpec => []OwnFilesIInv
<1>1. BackupFilesInit => OwnFilesIInv
  <2> SUFFICES ASSUME BackupFilesInit PROVE OwnFilesIInv
    OBVIOUS
  <2>1. \A j \in Jobs : OwnIInv(j)
    BY JobTypes DEF BackupFilesInit, OwnIInv, Phase
  <2>2. QED
    BY <2>1, FilesInitially DEF OwnFilesIInv
<1>2. QED
  BY <1>1, OwnFilesInductive, PTL DEF BackupFilesSpec

\* Then the verified delete of a schedule removes only what its target holds
\* (_finish_scheduled_backup()); finding 14 is what a shared name does to it.
THEOREM PushedIsKept == ASSUME OwnNames PROVE BackupFilesSpec => PushedBeforeDeleted
<1>1. ASSUME OwnFilesIInv, NEW j \in Jobs, Phase(j) = "pushed", files[Name(j)] # None
      PROVE  remote[Name(j)] = data[files[Name(j)]]
  <2>1. files[Name(j)] = j
    BY <1>1, OwnNodes DEF OwnFilesIInv
  <2>2. QED
    BY <1>1, <2>1 DEF OwnFilesIInv, OwnIInv
<1> DEFINE Kept == \A j \in Jobs :
       LET n == Name(j)
       IN Phase(j) = "pushed" /\ PushConcludes(j) /\ files[n] # None /\ files'[n] = None /\ n \notin Outdated(files, j)
            => remote[n] = data[files[n]]
<1>2. OwnFilesIInv /\ [BackupFilesNext]_backupFilesVars => [Kept]_backupFilesVars
  BY <1>1
<1>3. QED
  BY <1>2, OwnFilesInvariant, PTL DEF BackupFilesSpec, PushedBeforeDeleted

=============================================================================
