------------------------------ MODULE BackupFiles ------------------------------
(***************************************************************************)
(* The backup directory and everybody who writes into it: uploads on the   *)
(* event loop, pulls and pushes in worker threads, pg_dump processes, the  *)
(* retention and the verified delete of schedules, a user who deletes.     *)
(* Names lead to inodes, so a file that is renamed, replaced or deleted    *)
(* under a writer keeps what the writer adds.  An inode is named for the   *)
(* job that created it; a block of it for the job that wrote the block.    *)
(***************************************************************************)
EXTENDS Naturals, Sequences, FiniteSets
LOCAL INSTANCE FiniteSetsExt

CONSTANTS
  Names,      \* file names ending in .backup
  Jobs,
  Job,        \* what each job is: kind, name, size in blocks, and a schedule's settings
  DbOf,       \* the database whose generated pattern a name matches, or None
  Quota,      \* MAX_TOTAL_BACKUP_GB; 0 is unlimited
  MaxCrashes, \* bound
  None

ASSUME BackupFilesConstants ==
  /\ Job \in [Jobs -> [kind : {"upload", "link", "s3", "dump"}, name : Names, size : Nat,
                       push : BOOLEAN, trim : BOOLEAN, keep : Nat]]
  /\ Quota \in Nat /\ MaxCrashes \in Nat /\ None \notin Jobs

VARIABLES
  files,   \* the directory entries *.backup: name -> inode
  temps,   \* the .tmp entries: <<"upload" or "pull", name>> -> inode
  data,    \* inode -> its blocks
  recent,  \* the inodes, the last modified first
  job,     \* where each job stands
  remote,  \* what the storage targets hold under a name
  crashes

directory == <<files, temps>>
backupFilesVars == <<files, temps, data, recent, job, remote, crashes>>

TempNames == {"upload", "pull"} \X Names
Phases == {"none", "checked", "open", "received", "verified", "exited", "pushing", "sending",
           "pushed", "over", "lost"}
Blocks == Jobs \cup {None}

BackupFilesTypeOK ==
  /\ files \in [Names -> Jobs \cup {None}] /\ temps \in [TempNames -> Jobs \cup {None}]
  /\ data \in [Jobs -> Seq(Blocks)]
  /\ recent \in Seq(Jobs) /\ \A i, k \in DOMAIN recent : recent[i] = recent[k] => i = k
  /\ job \in [Jobs -> [phase : Phases, node : Jobs \cup {None}, at : Nat, size : Nat]]
  /\ DOMAIN remote = Names /\ crashes \in 0 .. MaxCrashes

BackupFilesInit ==
  /\ files = [n \in Names |-> None]
  /\ temps = [t \in TempNames |-> None]
  /\ data = [i \in Jobs |-> <<>>]
  /\ recent = <<>>
  /\ job = [j \in Jobs |-> [phase |-> "none", node |-> None, at |-> 0, size |-> 0]]
  /\ remote = [n \in Names |-> None]
  /\ crashes = 0

-----------------------------------------------------------------------------
(* Files *)

Kind(j) == Job[j].kind
Name(j) == Job[j].name
Temp(j) == <<IF Kind(j) = "upload" THEN "upload" ELSE "pull", Name(j)>>
Size(n) == IF files[n] = None THEN 0 ELSE Len(data[files[n]])
Used == MapThenSumSet(Size, Names)
Content(j) == [k \in 1 .. Job[j].size |-> j]

\* check_backup_quota(): an exactly full directory has no room for nothing more.
Fits(extra) == Quota = 0 \/ Used + (IF extra = 0 THEN 1 ELSE extra) <= Quota

Phase(j) == job[j].phase
Moved(j, phase) == job' = [job EXCEPT ![j].phase = phase]
Over(j) == Moved(j, "over")

\* The order of the modification times.
Touched(i) == recent' = <<i>> \o SelectSeq(recent, LAMBDA k : k # i)

Node(j, there) == IF there = None THEN j ELSE there

\* open(..., 'wb'): an inode that is there already is emptied and shared.
Opened(j, i) ==
  /\ data' = [data EXCEPT ![i] = <<>>]
  /\ job' = [job EXCEPT ![j].phase = "open", ![j].node = i]
  /\ Touched(i)

\* The next block goes where this writer stands, whatever others made of the file.
Wrote(j) ==
  LET i == job[j].node
      p == job[j].at + 1
      c == data[i]
      n == IF Len(c) < p THEN p ELSE Len(c)
  IN /\ data' = [data EXCEPT ![i] = [k \in 1 .. n |-> IF k = p THEN j ELSE IF k <= Len(c) THEN c[k] ELSE None]]
     /\ job' = [job EXCEPT ![j].at = p]
     /\ Touched(i)

\* Mutant: the temporary file stays behind.
DiscardedNot(j) == /\ Over(j) /\ UNCHANGED directory

\* The error paths remove the temporary name, whoever opened it.
Discarded(j) ==
  /\ temps' = [temps EXCEPT ![Temp(j)] = None]
  /\ Over(j)
  /\ UNCHANGED files

\* rename(): replaces a target that appeared, and fails when the source is gone.
Renamed(j) ==
  IF temps[Temp(j)] = None
  THEN Over(j) /\ UNCHANGED directory
  ELSE /\ files' = [files EXCEPT ![Name(j)] = temps[Temp(j)]]
       /\ temps' = [temps EXCEPT ![Temp(j)] = None]
       /\ Over(j)

-----------------------------------------------------------------------------
(* Uploads: one coroutine, which waits only for the next chunk *)

UploadOpens(j) ==
  /\ Kind(j) = "upload" /\ Phase(j) = "none"
  /\ IF files[Name(j)] # None
     THEN Over(j) /\ UNCHANGED <<directory, data, recent>>
     ELSE LET i == Node(j, temps[Temp(j)])
          IN Opened(j, i) /\ temps' = [temps EXCEPT ![Temp(j)] = i] /\ UNCHANGED files
  /\ UNCHANGED <<remote, crashes>>

Writes(j) ==
  /\ Phase(j) = "open"
  /\ job[j].at < Job[j].size
  /\ Wrote(j)
  /\ UNCHANGED <<directory, remote, crashes>>

\* The quota check and the rename follow the last chunk in one step of the loop.
UploadFinishes(j) ==
  /\ Kind(j) = "upload" /\ Phase(j) = "open" /\ job[j].at = Job[j].size
  /\ IF Fits(Job[j].size) THEN Renamed(j) ELSE Discarded(j)
  /\ UNCHANGED <<data, recent, remote, crashes>>

\* Too large, or the body cannot be read.
UploadFails(j) ==
  /\ Kind(j) = "upload" /\ Phase(j) = "open"
  /\ Discarded(j)
  /\ UNCHANGED <<data, recent, remote, crashes>>

-----------------------------------------------------------------------------
(* Pulls: a worker thread, interleaved anywhere *)

\* _safe_target(), then the announced size, which may be missing, against the quota.
PullChecks(j) ==
  /\ Kind(j) \in {"link", "s3"} /\ Phase(j) = "none"
  /\ \E announced \in {0, Job[j].size} :
       IF files[Name(j)] = None /\ Fits(announced) THEN Moved(j, "checked") ELSE Over(j)
  /\ UNCHANGED <<directory, data, recent, remote, crashes>>

\* A link is written to the .tmp; the S3 client writes a file of its own first.
PullOpens(j) ==
  /\ Kind(j) \in {"link", "s3"} /\ Phase(j) = "checked"
  /\ IF Kind(j) = "s3"
     THEN Opened(j, j) /\ UNCHANGED temps
     ELSE LET i == Node(j, temps[Temp(j)])
          IN Opened(j, i) /\ temps' = [temps EXCEPT ![Temp(j)] = i]
  /\ UNCHANGED <<files, remote, crashes>>

PullReceives(j) ==
  /\ Kind(j) \in {"link", "s3"} /\ Phase(j) = "open" /\ job[j].at = Job[j].size
  /\ IF Kind(j) = "s3" THEN temps' = [temps EXCEPT ![Temp(j)] = j] ELSE UNCHANGED temps
  /\ Moved(j, "received")
  /\ UNCHANGED <<files, data, recent, remote, crashes>>

\* The S3 path measures the file under the name, the other the bytes it wrote.
Measured(j) ==
  IF Kind(j) = "s3" /\ temps[Temp(j)] # None THEN Len(data[temps[Temp(j)]]) ELSE job[j].at

PullVerifies(j) ==
  /\ Phase(j) = "received"
  /\ IF Kind(j) = "s3" /\ temps[Temp(j)] = None
     THEN Over(j) /\ UNCHANGED directory
     ELSE IF Fits(Measured(j)) THEN Moved(j, "verified") /\ UNCHANGED directory ELSE Discarded(j)
  /\ UNCHANGED <<data, recent, remote, crashes>>

PullRenames(j) ==
  /\ Phase(j) = "verified"
  /\ Renamed(j)
  /\ UNCHANGED <<data, recent, remote, crashes>>

\* Connection refused or broken, too large: the handler removes the .tmp of this name.
PullFails(j) ==
  /\ Kind(j) \in {"link", "s3"} /\ Phase(j) \in {"checked", "open"}
  /\ Discarded(j)
  /\ UNCHANGED <<data, recent, remote, crashes>>

-----------------------------------------------------------------------------
(* Dumps, and the retention and push of a schedule *)

\* run_backup() refuses when nothing fits any more; the tool opens its file later.
DumpStarts(j) ==
  /\ Kind(j) = "dump" /\ Phase(j) = "none"
  /\ IF Fits(0) THEN Moved(j, "checked") ELSE Over(j)
  /\ UNCHANGED <<directory, data, recent, remote, crashes>>

DumpOpens(j) ==
  /\ Kind(j) = "dump" /\ Phase(j) = "checked"
  /\ LET i == Node(j, files[Name(j)])
     IN Opened(j, i) /\ files' = [files EXCEPT ![Name(j)] = i]
  /\ UNCHANGED <<temps, remote, crashes>>

DumpExits(j) ==
  /\ Kind(j) = "dump" /\ Phase(j) = "open"
  /\ \/ job[j].at = Job[j].size /\ Moved(j, "exited")
     \/ Over(j)
  /\ UNCHANGED <<directory, data, recent, remote, crashes>>

Newer(i, k) == \E x, y \in DOMAIN recent : x < y /\ recent[x] = i /\ recent[y] = k

\* apply_local_retention(): what matches the pattern, the newest keep of them stay.
Outdated(fs, j) ==
  LET matching == {n \in Names : fs[n] # None /\ DbOf[n] # None /\ DbOf[n] = DbOf[Name(j)]}
  IN IF Job[j].keep = 0 THEN {}
     ELSE {n \in matching : Cardinality({m \in matching : Newer(fs[m], fs[n])}) >= Job[j].keep}
Retained(fs, j) == [n \in Names |-> IF n \in Outdated(fs, j) THEN None ELSE fs[n]]

\* The tool's end as the schedule sees it: local only, or the size the push must match.
DumpConcludes(j) ==
  /\ Phase(j) = "exited"
  /\ IF Job[j].push
     THEN /\ job' = [job EXCEPT ![j].phase = "pushing", ![j].size = Size(Name(j))]
          /\ UNCHANGED directory
     ELSE /\ files' = Retained(files, j)
          /\ Over(j)
          /\ UNCHANGED temps
  /\ UNCHANGED <<data, recent, remote, crashes>>

\* The thread of the push finds the file and takes its size.
PushOpens(j) ==
  /\ Phase(j) = "pushing"
  /\ IF files[Name(j)] = None
     THEN Over(j)
     ELSE job' = [job EXCEPT ![j].phase = "sending", ![j].node = files[Name(j)], ![j].at = Size(Name(j))]
  /\ UNCHANGED <<directory, data, recent, remote, crashes>>

\* The announced length is what arrives; a file cut short breaks the request.
PushSends(j) ==
  /\ Phase(j) = "sending"
  /\ Len(data[job[j].node]) >= job[j].at
  /\ remote' = [remote EXCEPT ![Name(j)] = SubSeq(data[job[j].node], 1, job[j].at)]
  /\ Moved(j, "pushed")
  /\ UNCHANGED <<directory, data, recent, crashes>>

\* Mutant: any answer counts as success.
PushFailsUnnoticed(j) ==
  /\ Phase(j) \in {"pushing", "sending"}
  /\ Moved(j, "pushed")
  /\ UNCHANGED <<directory, data, recent, remote, crashes>>

\* A failed push keeps the local copy and applies no retention.
PushFails(j) ==
  /\ Phase(j) \in {"pushing", "sending"}
  /\ Over(j)
  /\ UNCHANGED <<directory, data, recent, remote, crashes>>

Verified(j) == job[j].at = job[j].size

Trimmed(j) ==
  IF Job[j].trim /\ Verified(j) THEN [files EXCEPT ![Name(j)] = None] ELSE files

PushConcludes(j) ==
  /\ Phase(j) = "pushed"
  /\ files' = Retained(Trimmed(j), j)
  /\ Over(j)
  /\ UNCHANGED <<temps, data, recent, remote, crashes>>

-----------------------------------------------------------------------------
Deletes(n) ==
  /\ files[n] # None
  /\ files' = [files EXCEPT ![n] = None]
  /\ UNCHANGED <<temps, data, recent, job, remote, crashes>>

\* The process ends, and its tools with it; what is on disk stays.
Crash ==
  /\ crashes < MaxCrashes
  /\ \E j \in Jobs : Phase(j) \notin {"none", "over", "lost"}
  /\ crashes' = crashes + 1
  /\ job' = [j \in Jobs |-> IF Phase(j) \in {"none", "over"} THEN job[j] ELSE [job[j] EXCEPT !.phase = "lost"]]
  /\ UNCHANGED <<directory, data, recent, remote>>

BackupFilesNext ==
  \/ \E j \in Jobs :
       \/ UploadOpens(j) \/ UploadFinishes(j) \/ UploadFails(j) \/ Writes(j)
       \/ PullChecks(j) \/ PullOpens(j) \/ PullReceives(j) \/ PullVerifies(j) \/ PullRenames(j) \/ PullFails(j)
       \/ DumpStarts(j) \/ DumpOpens(j) \/ DumpExits(j) \/ DumpConcludes(j)
       \/ PushOpens(j) \/ PushSends(j) \/ PushFails(j) \/ PushConcludes(j)
  \/ \E n \in Names : Deletes(n)
  \/ Crash

BackupFilesSpec == BackupFilesInit /\ [][BackupFilesNext]_backupFilesVars

-----------------------------------------------------------------------------
(* Properties *)

\* A temporary file has somebody left who will rename or remove it, or a
\* crash has orphaned it: no error path of an upload or a pull leaves one.
TempsAreTemporary ==
  \A t \in TempNames : temps[t] # None =>
    \E j \in Jobs : Kind(j) # "dump" /\ Temp(j) = t /\ Phase(j) \in {"open", "received", "verified", "lost"}

\* An upload that is kept fits into the quota together with everything that
\* is in the directory at that moment, whoever else has written meanwhile.
UploadsKeepQuota ==
  [][\A j \in Jobs : Quota # 0 /\ Kind(j) = "upload" /\ UploadFinishes(j) /\ files' # files => Used' <= Quota]_backupFilesVars

\* The verified delete of a schedule removes only what its target holds.
PushedBeforeDeleted ==
  [][\A j \in Jobs :
       LET n == Name(j)
       IN Phase(j) = "pushed" /\ PushConcludes(j) /\ files[n] # None /\ files'[n] = None /\ n \notin Outdated(files, j)
            => remote[n] = data[files[n]]]_backupFilesVars

\* README.md: the quota limits all backups together, on every path.  Uploads
\* and pulls alone, which know their size, keep it.
QuotaKept == (\A j \in Jobs : Kind(j) # "dump") /\ Quota # 0 => Used <= Quota

\* An "atomic rename" publishes one upload's content, which stays what it was.
UploadsAreWhole == (\A j \in Jobs : Kind(j) = "upload") =>
  \A n \in Names : files[n] # None => \E j \in Jobs : data[files[n]] = Content(j)

\* _safe_target(): a pull's target is a non-existing file.
PullsReplaceNothing ==
  [][\A j \in Jobs : Kind(j) \in {"link", "s3"} /\ PullRenames(j) => files[Name(j)] \in {None, files'[Name(j)]}]_backupFilesVars

\* Retention keeps the newest local backups: a schedule that has just
\* succeeded leaves its database with a backup.
BackupSurvivesRetention ==
  [][\A j \in Jobs : Phase(j) = "exited" /\ DumpConcludes(j) /\ ~ Job[j].push /\ files[Name(j)] = j
       => \E n \in Names : DbOf[n] = DbOf[Name(j)] /\ files'[n] # None
                            /\ \E k \in Jobs : data[files'[n]] = Content(k)]_backupFilesVars

=============================================================================
