# Verification of MagikUp

MagikUp is a FastAPI server that backs up, restores and transfers PostgreSQL
databases, runs scheduled backups, pushes them to remote storage and manages its
own users. This directory holds TLA+ models of its core, TLC runs over small
instances, and TLAPS proofs. Line numbers are those of `src/app/` at the commit
the models were written from; `PROJECT.json` maps every definition to its lines.

The server is one process with one asyncio event loop (`uvicorn`, one replica, CPython
3.11 in the container). Coroutines interleave only where they `await`; blocking work (tunnels,
uploads, validation) runs in worker threads through `asyncio.to_thread`. An
action of a model is therefore the code from one suspension point to the next.

## Inventory

| Component | State | Operations | Interacts with | What makes it correct |
|---|---|---|---|---|
| Scheduler engine, `scheduler.py` | loop task, `_running`, `_sem`, pending `_launch()` tasks | start, stop, tick, reserve, release, launch (skip when busy), run_reserved (queue when busy) | calls `run_one` in `main.py`, reads definitions | no overlap per schedule, at most `_MAX_CONCURRENT` runs, no slot or reservation leaked, no starved waiter |
| Scheduled runs and API, `main.py` 2514-3169 | definitions, run-state, operations, locals of each run | tick-driven run, run-now, save, delete, toggle, cancel, clear, boot reconciliation | scheduler, config, schedule_state, operation log, run_backup, remote storage | auto-disable, no lost edits, honest status, de-dup, cap of 50 |
| Configuration, `config.py` | `config.ini`, encryption key | read, write, save/delete sections, import, migrate, encrypt | everything | whole-file rewrites lose nothing, import replaces |
| Run-state, `schedule_state.py` | `schedule_state.json` | load, mark, drop | scheduled runs | atomic replace; entries follow their schedules |
| Operation log, `operation_logger.py` | `history.json` (100 records), log files | start, log, complete, clear, boot clean-up | all operations | every operation is completed once and truthfully |
| Broadcaster, `broadcaster.py` | buffers, subscriber queues | start, broadcast, subscribe, end, delayed cleanup | runs, WebSocket handlers | a subscriber sees a prefix-complete stream and its end |
| Backup, restore, transfer, `backup_restore.py` | backup directory, child processes | dump, restore, transfer, list, upload, delete, quota | operation log, config | cancellation, partial files removed, quota respected |
| WebSocket handlers, `main.py` 3279-4075 | `_running_operations`, background tasks | backup, restore, transfer, follow | broadcaster, runs | disconnecting does not end an operation |
| Remote storage, `remote_storage.py` | remote objects, temporary files | push, pull, list, delete | backup directory, progress | local copy deleted only after a verified push |
| Users, `auth.py` | `users.json`, attempt windows, reset tokens, sessions | login, create/update/delete user, reset, lockout | config, mail | an administrator remains, tokens are used once |
| SSM tunnels, `ssm_tunnel.py` | tunnel table, child processes, ports | start, reuse, stop, stop all | loop and worker threads | one live tunnel per target, none leaked |
| Progress, `progress.py` | table of transfers under a lock | start, update, finish, prune, snapshot | transfers in threads | bounded, running entries kept |
| Cron, `cron.py` | none | parse, matches, next_run, is_due, min_interval, describe | scheduler, API | agrees with the meaning of a cron expression |
| Admission, fronts of the handlers in `main.py` | the user as accepted, the request | authorise, resolve endpoint and address, refuse or start | users, configuration, tunnels | what was checked still holds when the operation starts; the endpoint's client, host and flags reach the tools |
| Queries, AWS discovery, mail, templates, deployment | none that the core relies on | I/O | | not modelled |

Hard behaviours: tick against run-now on one reservation set and one semaphore;
definitions read at launch and written back hours later; requests that check,
await and then act; crashes that leave "running" on disk in two files; the clock
read twice; cancel requests that race completion; bounded queues; files rewritten
in place while threads read them. `PROJECT.json` lists them as hazards, each at its line.

## Modules

    AsyncSemaphore     asyncio.Semaphore as operators on a record (external)
    Scheduler          scheduler.py; the run itself is opaque
    RunSlots           what the engine promises: free / queued / running
    ScheduledBackups   extends Scheduler with the run, the API, disk, crash and boot
    FireOnce           history variables over ScheduledBackups: how often a tick fires
    ImportedConfig     ScheduledBackups with config.ini imports
    FollowedStream     what a follower of an operation is promised
    Broadcaster        broadcaster.py and _stream_to_websocket(); refines FollowedStream
    Operations         extends Broadcaster: the operations, their tools, the log, clients, crash and boot
    BackupFiles        the backup directory and everybody who writes into it
    Users              auth.py: store, login, lockout, sessions, reset links, administration
    Tunnels            ssm_tunnel.py and the operations that keep an address
    ConfigStore        config.py: config.ini, its secrets and their key, migration and import
    Admission          what is checked before an operation starts, and what it then connects to
    CronExpressions    cron.py on a real calendar, as operators
    Cron               a schedule that is saved, listed and ticked by them
    Progress           progress.py and the transfers that report to it
    *Proofs            the theorems about these, see Proofs
    MC*                constants for TLC

**AsyncSemaphore.** `value`, the deque `waiters`, and `woken`: how many waiters at the
front were handed a slot and have not run yet. In CPython 3.11 a waiter leaves the
deque only when it runs, and `locked()` is true while the deque is not empty.

**Scheduler.** `running` is `_running`, `sem` is `_sem`, `pending` the `_launch()` tasks
created by the last tick, `task` a pool of tasks executing `run_reserved()`. A
launch either skips, returns without suspending (de-dup, unknown endpoint) or enters
the run. Run-now reserves in the handler and its task waits for a slot. Two orderings come
from the loop's FIFO ready queue: launches of a tick run before the next tick,
and a launch pending for a name runs before a run-now task created after it.
A cancelled waiter does not occur: nothing keeps a handle on these tasks.

**ScheduledBackups.** Each engine action is refined by what `_execute_schedule` does in
that step. `job` holds the locals of a run: the definition it was given, whether its
operation record exists, the await it is at (`connect`, `dump`, `push`) and its cancel
event. `config`, `state`, `history` are the three files; only they survive
`ProcessDies`. A definition is its `enabled` flag and a value of `Settings`; only
its cron minutes and whether it has a remote destination matter. `save` holds a save request
that has passed the cap check and is being validated in a thread. A run-state entry
with status `new` has been touched but has no `last_status`. The history keeps the
status of a schedule's last operation. A handler writes its two files one after the other: the
disabling that follows a streak may raise, which is only logged, and a save, a toggle, a deletion or the end
of a run may be killed between the two (`DiesMidway`, `DiesConcluding`). `cut` remembers the schedules whose
second write has not followed the first. Other disk writes are taken to succeed.

**FireOnce** counts tick-driven starts per clock minute and per minute the cron matched.
**ImportedConfig** adds the action that replaces all definitions and leaves run-state and
runs alone.

**Broadcaster.** `buffer`, `subscribers` and `queue` are the dictionaries and bounded queues;
`conn` holds the locals of each `_stream_to_websocket()`: the history it replays and what its client
received. A full queue drops the message, the end marker too. The buffer goes some time after the
end (`CleanUp`). **FollowedStream** promises that what a client has is a prefix of the stream
and that the end comes after all of it.

**Operations.** `run` is a task and the tool beside it: the await it is at (`toc`, `pre`,
`spawning`, `reading`, `waiting`, `post`, `push`), whether the tool works or exited with 0, 1 or
worse, whether it had errors to tell and whether they were read. `file`, `target` and `restoring` are what the
tools did to the dump and the database. A transfer is a dump and a restore in one task.
Everything between two awaits is one action: `Concluded` is the record, the last message and
the `finally` block.

**BackupFiles.** Names lead to inodes and inodes hold blocks, each marked with the job that wrote it: renames over a file, truncation
of a shared temporary file and deletion under a writer then do what the file system does.
A pull or a push is a thread, so each of its checks and renames is a step; an upload waits only for its chunks.

**Users.** A session check reads `users.json` in a worker thread (`Identify`), its handler runs later on the loop with the
identity found. `torn` is the file between truncation and write. Passwords are version numbers, the
signature of a token is perfect, time is in units of the windows.

**Tunnels.** `start` is where each call of `start_tunnel()` stands (the loop's or a scheduled run's thread),
`process` the forwarding processes, which listen, or die, when they like. The code has no lock. A call whose port does
not open sends SIGTERM and returns: the process may die, later or never. The port is the first free one, or the one a request names.
Three histories say who is to blame when a claim fails: `told` were sent SIGTERM, `contested` were started beside another
start or stop of their endpoint, `shared` lived beside another process of their port.

**ConfigStore.** A secret is the key it was encrypted with. Every read may migrate, every use of a secret may
seed the key file, each in the steps the code has, in the loop and in threads. Files are
emptied when opened for writing. With `KeyFileFails` the key file may be unreadable, and is then seeded over, or refuse the write,
and the key is used all the same. A malformed flag ends the sanitising of an import unseen. Sanitising reads the file
several times within one step of the loop; the model reads once, with the secrets it decrypts. `spoilt` are the keys
that were not persisted, seeded beside another, or overwritten unread; `late` is set when a thread was migrating as the last import began.

**Admission.** `socket` holds the account as accepted and the connections that the operation is to make, with the endpoint
captured at its request; `opened` those it has made. A stream handler goes from the request to its task without an await,
except for tunnels, which `Tunnels` models; it connects when its turn comes: a transfer to its destination after the
dump, a restore after the table of contents, a statement in a worker thread. `stale` are the operations an endpoint of which was
changed since.

**CronExpressions, Cron.** Fields are sets of parts, so that `_parse_field()` is a set comprehension; `matches()`, `next_run()` and
`min_interval_minutes()` are operators over days of the proleptic calendar, `NextRun` by days instead of by minutes. The
reference is `Meant`, stated part by part from the docstring without the parsed sets.

**Progress.** `ops` is the registry, `transfer` the threads that move chunks; an S3 transfer has
several workers, each with a count it has read and not yet reported.

Definitions introduced by "Mutant:" are not used by any specification: each is the
plausible bug that shows a property can fail.

## Runs

| Run | Shows | Bounds |
|---|---|---|
| `engine` | type, non-overlap, exact reservations, concurrency cap; every reservation ends; implements RunSlots | 4 schedules, 4 tasks, 2 slots: two waiters behind two bodies, so wake-ups cascade |
| `backups` | type; auto-disable holds unless its write was cut off; runs never undo edits or deletions; running statuses are real in both files and settle; at most one tick-driven start per clock minute | 1 schedule, local or with a remote copy, two crons of which each matches one of 2 minutes, 1 administrator, threshold 2, streaks to 3, crashes between and within handlers, boots |
| `streams` | whoever did not overflow misses nothing; is released at the end; FollowedStream is implemented | 2 clients, 3 messages, queues of 3 with the end: overflow, late join, leave |
| `operations` | record, stream and data agree; running means running; outcomes are final; every operation is settled | 1 operation of any kind, 1 follower, 3 messages, a history of 1 record, a crash |
| `backup_files` | temporary names hold only unfinished files of live jobs; nothing is deleted that was not pushed | an upload, a link and an S3 pull of one name, a scheduled dump, files of 1 to 2 blocks, quota 3, a crash |
| `accounts` | an administrator remains; locked after enough failures, and only then; rate limit; reset links work once | 2 names, 2 requests at once, 1 address, 2 links (one while somebody is signed in), 3 windows, a crash |
| `tunnels` | tunnels lead home, none is orphaned, addresses given out work: whatever fails was sent SIGTERM, contested or shared | the loop and 1 thread, 2 endpoints, 2 ports of which 1 is asked for too, 3 processes: one more than the starters |
| `config` | what was encrypted here stays readable unless its key was spoilt; imported schedules are safe when the import ends | 1 endpoint, 1 store, a thread that reads, migrates and seeds, 3 keys, imports of the old format, malformed, from here and elsewhere, a key file that fails, crashes, another ENCRYPTION_KEY at each start |
| `admission` | scopes are kept; once an endpoint is read-only, only what was on its way writes to it | 1 user, 2 endpoints, 2 client versions, 1 socket with any request, any changes of accounts and endpoints |
| `cron` | fires as written; 15 minutes apart as far as 2020 tells; the listed next run is kept | 13 expressions, month-end ones and finding 30's among them, 108 minutes around midnight, new year, the ends of February 2027, 2028, 2096, 2100, 2104 |
| `progress` | running bars are in the registry; bars end | 4 transfers on 2 threads, registry of 3, 2 chunks, 2 workers |
| `retention_own` | violated: finding 13 | 2 schedules that keep one file |

Each run is the module and the configuration of its component, `MCScheduler.cfg` for `engine` and so on
(`PROJECT.json`). The other configurations are run by hand (`tlc -config MCFireOnce_cron.cfg MCFireOnce`) and show
what the code does against its documents:

| By hand | Violates |
|---|---|
| `MCScheduledBackups_cap`, `_delete`, `_cancel` | findings 1 to 3 |
| `MCFireOnce_cron` | finding 4 |
| `MCImportedConfig_replace` | finding 5 |

The modules state more than the runs check. Holding in the same instances, and proved: the type invariants of all
components, `SlotsConserved`, `NoLostWakeup` (a fact about asyncio's semaphore, kept as a part of the engine's invariant),
`RegistryBounded`, `DoneIsFull`, `BarsGoForward`, `GivenByTheLiving`. Holding and not proved: `UploadsKeepQuota`,
`PossibleFound`; for dumps and restores (`Requests <- DumpsAndRestores`) `ClientsFit` and `ReplicasRead`. Failing, each with
its finding: the properties under the headings "What the code does not keep" and those whose comment quotes a document.

Deadlock is checked in every run but those of `BackupFiles` and `Broadcaster`, whose bounded jobs and messages
come to an end.

The bounds. A schedule's definition, streak and runs interact with another schedule only through
the slot and the cap, so the run on backups takes one schedule (a stale definition needs one edit during one run) and the
engine's run four; what the two say together is proved for any number of schedules and administrators.
The threshold is 2 instead of 5: the shortest streak that has a step before the last one; with 1, the
first failure after an edit would already write back, which the code's 5 excludes.
`MaxFailures` stops new runs (not outcomes) on long streaks; it is one above the
threshold, so failures past it occur. `Minutes` are the clock readings: both sides
of a minute's turn. `_TICK_SECONDS` is not modelled: any number of ticks may see a minute.

In the other modules a property relates at most two actors and one bystander, and the instances have as many: two
clients on a stream, two writers of a name, two requests of administrators, a thread beside the loop.
Operations, jobs and processes are used once each, so their number bounds a behaviour; a
message bound that fills the queue before the end lets it overflow. The registry of `Progress` has as many entries as
transfers that can run and one more, as the code's 200 against the pools' 40 and at most 32. The minutes of `Cron` are those where two
days, months or years meet: nothing else in an expression depends on the date.

One run has a constraint: `Bound` of `MCUsers` lets the clock run only when nobody is signed in, as sessions and requests matter to
who administers, the clock to the windows. The run `config` has a view that leaves out `.ini.bak`, which nothing reads.

Some properties leave out a case by a history variable (`cut`, `told`, `contested`, `shared`, `spoilt`, `late`, `stale`; `FarEnough` by `Neighbouring`). It
names the steps after which the code does not keep the claim, not the states in which it fails: the run reaches these steps, and the
plain claim beside it (`StreakDisables`, `EveryTunnelLeadsHome`, `EveryProcessIsKnown`, `SecretsShareFate`, `AnswersAreSafe`,
`ReadOnlyRefused`, `MinimumKept`) is violated in the same instance.

Fairness. Weak fairness on launches, first steps of tasks, woken waiters and the end of runs: the loop
runs every ready task, and pg_dump, tunnels and uploads terminate (tunnels and
uploads have timeouts; a pg_dump that hangs for ever is outside the model). Boot is fair
because the container is restarted. Ticks, requests, cancellations, shutdown, crashes and the clock
are not: nothing promised depends on them. The same holds for `Operations` (tasks, tools, boot), `Broadcaster` (the coroutines;
no operation has to end) and `Progress` (threads and the passing of time; nobody need poll).

## Findings

Finding 13 is checked as a run, those in the table above by hand. The others were found with the instance named in brackets, by
replacing a constant or a property of the component's configuration.

1. `main.py:3064`: the cap of 50 schedules is checked before an `await`; two concurrent
   creations exceed it (`README.md:708`).
2. `main.py:2674`: a run in flight re-creates the run-state of its deleted schedule
   (`main.py:3091`).
3. `main.py:2483`: cancelling a queued or connecting run answers "Stale operation marked as
   failed"; it then runs and completes (`main.py:2480`).
4. `main.py:2760`: de-dup uses the clock at the start of the run; two ticks of one
   minute can both start a run if the second run starts after the minute turned (`main.py:2764`).
5. `main.py:2683`: after an import, a failing run writes its old definition back, or
   revives a schedule the imported file does not have (`README.md:312`).
6. `broadcaster.py:82`: a queue that is full when its operation ends loses the end marker; the
   follower waits for ever. [`AllAreReleased`]
7. `main.py:4051`: following a queued run-now answers that it is complete. [`StaticMeansFinished`]
8. `operation_logger.py:228`: the cap of 100 drops records of operations that still run. [`RunningIsListed`, two operations]
9. `backup_restore.py:1381`: a transfer cancelled after its restore reports success, is recorded as cancelled and keeps its dump. [`SuccessRemovesIntermediate`]
10. `remote_storage.py:519`: two pulls pass the quota check and exceed it together. [`QuotaKept`, `Job <- TwoPulls`, `Quota = 1`]
11. `main.py:1793`: two uploads of one name write one temporary file. [`UploadsAreWhole`, `Job <- TwoUploads`]
12. `remote_storage.py:525`: a pull replaces a file that appeared while it downloaded. [`PullsReplaceNothing`, `Job <- UploadAndPull`]
13. `main.py:2702`: retention counts unfinished dumps and may delete the only finished one.
14. `backup_restore.py:306`: two dumps of one database in one second share a file. [`PushedBeforeDeleted`, `Job <- SameSecond`]
15. `auth.py:335`: disabling one administrator and demoting another leaves none enabled. [`AnEnabledAdministratorRemains`]
16. `auth.py:183`: a crash while `users.json` is written loses every user. [`StoreSurvives`]
17. `auth.py:173`: a session check that reads the file meanwhile refuses a valid session. [`SessionsHold`]
18. `ssm_tunnel.py:163`: two starters take one free port; the loser's tunnel leads to the winner's database. [`EveryTunnelLeadsHome`, `Chosen = {}`]
19. `ssm_tunnel.py:148`: two starters of one endpoint leave a process nobody knows. [`EveryProcessIsKnown`]
20. `ssm_tunnel.py:98`: a chosen port that another tunnel holds is reported as the new tunnel. [`EveryTunnelLeadsHome`, `Threads = {}`]
21. `ssm_tunnel.py:163`: an operation keeps an address whose port another endpoint's tunnel took over. [`PortsKeepLeadingHome`]
22. `config.py:1394`: a crash between writing and sanitising an import leaves its schedules on. [`ImportedDisabled`, `Edits <- DanglingEdits`]
23. `config.py:451`: a migration in a thread writes over the sanitised import. [`ImportedDisabled`, `ImportCanBeUndone`, `Edits <- OldEdits`, `CanCrash = FALSE`]
24. `config.py:253`: two callers seed the key file, and what one encrypted is lost. [`SecretsShareFate`, `KeyFileFails = FALSE`]
25. `main.py:2118`: saving with a blank secret under another key erases the ciphertext. [`BlankKeepsSecret`, `Edits <- ForeignEdits`]
26. `config.py:472`: a crash while `config.ini` is written loses the configuration. [`ConfigSurvives`]
27. `backup_restore.py:1252`: transfers use the settings' client, not the endpoints'. [`ClientsFit`]
28. `main.py:3971`, `main.py:1429`: a transfer in its dump, a restore before its turn and a statement that waits for a thread write to an endpoint made read-only meanwhile. [`ReadOnlyRefused`]
29. `main.py:3315`: a user disabled after the socket was accepted may still start an operation. [`StillAllowed`]
30. `cron.py:182`: the minimum interval is probed within 2020 only, and is missed at new year and in years without a leap day. [`MinimumKept`]
31. `cron.py:67`: `5/1` means 5 alone. [`FiresAsWritten`, `Expressions <- OneStep`]
32. `main.py:2683`: a schedule whose disabling was cut off, or failed, after the streak was written stays on until it fails again. [`StreakDisables`]
33. `ssm_tunnel.py:218`: a process whose port did not open is sent SIGTERM and forgotten; if it survives, it keeps the port and nobody can stop it. [`EveryProcessIsKnown`, `Threads = {}`]
34. `config.py:260`, `config.py:245`: a key that cannot be persisted is used all the same, and one that cannot be read is seeded over; what was encrypted is lost. [`SecretsShareFate`]
35. `config.py:1404`: a malformed flag ends the sanitising, the import still answers success and its dangling schedules stay on. [`AnswersAreSafe`, `Edits <- MalformedEdits`]
36. `config.py:452`: the migration is marked done before it is; what was read meanwhile is written back in the old format, until the next start. [`OldFormatIsGone`]

## Proofs

The theorems hold for every value of the constants that their modules' named assumptions admit: any number of schedules,
users, endpoints, jobs, clients and processes, queues and files of any size, any crashes. Every safety invariant,
action property and refinement that a run checks is proved, but for `NextRunKept` where no next run is left; three under a
hypothesis, named below. `PROJECT.json` lists the theorems.

The assumptions are `SchedulerConstants`, `BackupConstants`, `CronConstants`, `BroadcasterConstants`,
`OperationConstants`, `BackupFilesConstants`, `UserConstants`, `TunnelConstants`, `ConfigConstants`,
`AdmissionConstants` and `ProgressConstants`, evaluated by the runs. Those that are not mere types say what the code fixes:
a threshold and a rate limit of two or more, fewer transfer threads than bars, a foreign key that no environment
holds, a loop that is no other thread.

**ScheduledBackupsProofs, the engine.** None of non-overlap, exact reservations, slot conservation, queue exactness and
no-lost-wakeup is inductive alone: that a run's end frees the right name needs non-overlap; that a woken waiter's slot
exists needs conservation; that the head of the deque is a waiting task needs queue exactness. Their conjunction `IInv` is.
Lemmas about the semaphore's operators carry the arithmetic; the concurrency cap follows from conservation. Under `IInv`
every step is a step or a stutter of `RunSlots`; a waiter that starts finds fewer than `MaxConcurrent` bodies because
its slot is counted in `woken`.

**The runs.** Every step of `ScheduledBackups` is a step or a stutter of `Scheduler` (`BackupsRunOnTheEngine`), so
the engine's invariants and the refinement hold end to end; over them `BackupInv` is inductive. A run writes the definition
it started with back when it auto-disables, so `AutoDisabled` alone is not: the missing part is `RunsSpared` and
`LaunchesSpared`, that a run in flight or a pending launch either faces a cleared streak or holds the settings on disk and is
enabled if they are. An edit and an enabling toggle clear the streak, and a streak grows only by the one run in
flight (non-overlap), so a failure at the threshold comes from a run that started after the last edit. Where the second write
fails or is cut off the schedule is in `cut`, and stays there until a disabling, an edit, a success or a deletion is written in full.
`RunningIsReal` and `OperationIsReal` rest on the engine's order of launches (`LaunchesComeFirst`).
`OncePerClockMinute` needs that a schedule the tick has run carries the minute's stamp: nothing but a deletion, which starts
the count again, takes a stamp away. These hold without config imports: finding 5 is what an import does to them.

**Cron.** The calendar operators are bounded by linear arithmetic over days; an accepted expression is followed part by part
from its text to the parsed sets (`MatchesAsWritten`), and from days to minutes: the day-by-day `NextRun` of the model is
the first minute that matches, which is what the code's loop over minutes returns (`NextRunIsNext`). `StepsCount`
leaves out finding 31. That two starts are far enough apart is proved for every accepted expression (`SchedulesAreFarApart`): over a midnight,
where the gap is that between two days in a row, the minimum holds if the probed year has such days, which is all the code
looks at. That it holds outright (`MinimumKept`) is proved of expressions that leave day of month and month free: whatever
two days they match in a row recur every week, so that 2020 has them (`EveryWeekIsTold`). Finding 30 is of the others.
Least elements, and with them every `CHOOSE` of these operators, come from the
well-foundedness of the naturals. `TicksFireAsWritten` joins cron.py to the scheduler.

**OperationsProofs, the broadcaster.** What a follower was served, the rest of its history and its queue are consecutive parts of one stream
(`Served`), as long as its queue was roomy; and whoever finds the end marker has got the last message before it, overflow or not
(`Ended`). From the first follow that nothing is missed and that `FollowedStream` is implemented; the second is what makes
live and stored outcomes agree even for a follower whose queue overflowed.

**The operations.** What an operation's step does to the hub is of few forms (`HubStep`: a stream starts, is added to, ends, is forgotten, is followed,
is left, or goes with the server), so the broadcaster's invariants are inherited. For each operation, `TaskIInv` ties its task to the sets it is in, `RecordIInv` its task to
its record and its last message, `DataIInv` the exit of its tool to the dump and the target. `RecordsTellTheTruth` is inductive only with
what an exit code says of the file at every await in between; `OutcomesAreFinal` needs that a task that can still write has said
nothing but "running".

**BackupFilesProofs.** `TempsAreTemporary` needs where each kind of job can be (`StepIInv`) and that a temporary name leads to an inode
created under it (`NamesLead`). That a push precedes the delete is proved if no two jobs share a name (`OwnNames`); finding 14 is
what two dumps of one name do to it, and `PushedBeforeDeleted` is checked by the run with an upload, a link and a pull of one name.

**UsersProofs.** What is sound is the store last written in full, so the invariant speaks of the file and of what is being
written to it. A reset link works once because every change of a password makes it newer than those of spent links. The rate limit
counts in a fixed window and is judged in a sliding one: the invariant recovers, from the counter, since when it has
counted (`Period`), and that less than a full count lies in the window before.

**TunnelsProofs.** Nothing is assumed of threads, ports or requests. What is given out was started for it (`TableIInv`). A process that
was neither told nor contested is known to its call or the table at every step (`KnownIInv`): a call that would drop it from the table
first finds a rival, or has told it. Of two that live with one port each is shared, and one that is not
listens by the time its caller has seen the port open (`PortsIInv`), so what listens on the port of such a tunnel is that tunnel.

**ConfigStoreProofs.** Nothing is assumed of edits, threads or the key file. Every call is one the code can be in, wherever it is
cut (`Sound`). What is in the file, or on its way to it, is encrypted with the key on the volume or with one that is spoilt;
while somebody seeds, the volume holds no key that is not spoilt, so that nothing readable is lost when it is replaced; where
two seed at once both keys are spoilt (`SecretIInv`). An import is resolved because, unless a thread was migrating when it began,
whatever threads write back while the loop sanitises is a form of that import (`Alike`): at most one of them migrates, and what the loop then
writes is resolved (`SanitisingIInv`).

**AdmissionProofs.** What runs or waits is within the reach of the user as accepted. The check made at the request holds, for every connection
still to be made, until an administrator changes an endpoint of it (`CheckHolds`), which is the step that makes the operation
stale: so a later connection writes only to endpoints that are there and writable, or belongs to an operation from before.

**ProgressProofs.** A running bar has a thread, a
sequential transfer has one report on its way and its bar is never ahead of it, so a finished bar is full and none
goes back; the registry is bounded because threads are fewer than its places.

What stays with TLC, and why:

- Liveness (`ReservationEnds`, `RunsSettle`, `OperationsSettle`, `FollowersAreReleased`, `OperationsConclude`, `BarsEnd`): fairness and ENABLED are
  out of the prover's reach.
- `UploadsKeepQuota`: the quota is a sum over a fold. The order of modification `recent` of `BackupFiles` is a filtered sequence, about
  which no backend reasons: its part of `BackupFilesTypeOK` is checked, the rest is proved (`FilesTyped`).
- `PossibleFound`, and that the horizon is never too short: facts of the Gregorian cycle, by enumeration.
- `NextRunKept` where no next run is left: beyond the horizon it is a fact of the Gregorian cycle too. Its other part is proved (`ListedRunsAreKept`).
- `ImportedConfig`, where `BackupInv` is false.

## Plan

The models are written and every safety property of a run is proved. What is left, in the order of what it says:

1. `ImportedConfig`: what of `BackupInv` survives an import.
2. `MinimumKept`, for expressions by day of month, from the lengths of the months: which of them 2020 tells.
3. `PushedBeforeDeleted` with shared names, with a history of who wrote beside whom, as in `Tunnels`.
4. Failing disk writes in the schedule API's handlers, beside the crashes between them.

## Not modelled

- SQL (`db_service.py`), AWS discovery, mail, templates and deployment files: stateless I/O or presentation. The models take
  from the deployment that there is one process and that it is restarted.
- `backup_restore.py`: how options become arguments, validation of names, parsing of a table of contents. Data only.
- `remote_storage.py`: listings, connection tests, URLs, credentials.
- `auth.py`: hashing, the password policy, the audit log. `config.py`: validation of fields, tool paths.
- `cron.py`: the description in words and the characters of a field.
- Three hazards have no property because the source does not say what is right: a run by hand stamps the minute, so the tick of that
  minute is skipped; schedules due together are skipped, not queued, so that the first one listed may starve the others
  (`scheduler.py:15` says so itself); a line that cannot be read ends its operation while the tool goes on (`ReadBreaks`
  in `Operations`).
