--------------------------- MODULE ScheduledBackups ---------------------------
(***************************************************************************)
(* Scheduled backups end to end: the engine of Scheduler with the run it   *)
(* drives (main._execute_schedule), the schedule API, the definitions in   *)
(* config.ini, the run-state in schedule_state.json and the operation      *)
(* history.  What survives the process is on disk: config, state, history. *)
(***************************************************************************)
EXTENDS Scheduler

CONSTANTS
  Admins,            \* clients that can have a save request in flight
  Settings,          \* what a definition holds besides its enabled flag
  Remote,            \* the settings whose dest_kind is not "none"
  CronMinutes,       \* the minutes each settings' cron expression matches
  AutoDisableAfter,  \* _AUTO_DISABLE_AFTER
  MaxSchedules,      \* _MAX_SCHEDULES
  Minutes,           \* bound: the minutes the clock is sampled at
  MaxFailures        \* bound: no run starts on a longer failure streak

ASSUME BackupConstants ==
  /\ Remote \subseteq Settings
  /\ Minutes \subseteq Nat /\ 0 \in Minutes
  /\ CronMinutes \in [Settings -> SUBSET Minutes]
  /\ AutoDisableAfter \in Nat /\ AutoDisableAfter >= 2
  /\ MaxSchedules \in Nat
  /\ None \notin Settings

VARIABLES
  up,       \* the process is alive and has booted
  minute,   \* the UTC minute
  config,   \* [schedule:<name>] sections
  state,    \* schedule_state.json
  history,  \* status of the last operation of each schedule
  seen,     \* the definition each pending _launch() was given
  job,      \* the locals of _execute_schedule in each task
  save,     \* save requests between validation and commit
  cut       \* history: the schedules whose second write has not followed the first

disk == <<config, state, history, cut>>
engine == <<ticking, pending, running, sem, task>>
allVars == <<engine, disk, up, minute, seen, job, save>>

Definition == [settings : Settings, enabled : BOOLEAN]
Undefined == [settings |-> None, enabled |-> FALSE]
Defined(n) == config[n] # Undefined

\* A run-state entry; one that was only ever touched has no last_status.
NoEntry == [status |-> "absent", failures |-> 0, fired |-> None]
Entry ==
  [status : {"absent", "new", "running", "success", "failed", "copy_failed"},
   failures : Nat, fired : Minutes \cup {None}]

Job ==
  [def : Definition \cup {Undefined}, op : BOOLEAN,
   step : {"none", "connect", "dump", "push"}, cancel : BOOLEAN]
NoJob == [def |-> Undefined, op |-> FALSE, step |-> "none", cancel |-> FALSE]

NoSave == [name |-> None, def |-> Undefined]

BackupTypeOK ==
  /\ TypeOK
  /\ up \in BOOLEAN
  /\ minute \in Minutes
  /\ config \in [Names -> Definition \cup {Undefined}]
  /\ state \in [Names -> Entry]
  /\ history \in [Names -> {"none", "running", "completed", "failed", "cancelled"}]
  /\ seen \in [Names -> Definition \cup {Undefined}]
  /\ job \in [Tasks -> Job]
  /\ save \in [Admins -> [name : Names, def : Definition] \cup {NoSave}]
  /\ cut \subseteq Names

BackupInit ==
  /\ Init
  /\ up = FALSE
  /\ minute = 0
  /\ config = [n \in Names |-> Undefined]
  /\ state = [n \in Names |-> NoEntry]
  /\ history = [n \in Names |-> "none"]
  /\ seen = [n \in Names |-> Undefined]
  /\ job = [t \in Tasks |-> NoJob]
  /\ save = [a \in Admins |-> NoSave]
  /\ cut = {}

-----------------------------------------------------------------------------
(* schedule_state.mark(), and what the run writes with it *)

\* Any mark() creates the entry when there is none.
Touched(e) == [e EXCEPT !.status = IF @ = "absent" THEN "new" ELSE @]

\* Mutant: last_fired_minute is not written.
FiredUnstamped(e) == [e EXCEPT !.status = "running"]

Fired(e) == [e EXCEPT !.status = "running", !.fired = minute]

Failed(e, status) == [e EXCEPT !.status = status, !.failures = @ + 1]

Succeeded(e) == [e EXCEPT !.status = "success", !.failures = 0]

StreakCleared(e) == [Touched(e) EXCEPT !.failures = 0]

\* The second write is made, or raises and is only logged.  A crash between the
\* two leaves the files as a write that fails and a crash after it.
DisabledOrNot(n, def) ==
  \/ /\ config' = [config EXCEPT ![n] = [def EXCEPT !.enabled = FALSE]]
     /\ cut' = cut \ {n}
  \/ /\ cut' = cut \cup {n}
     /\ UNCHANGED config

\* Mutant: the threshold is missed by one.
RecordFailureLate(n, def, e, status) ==
  /\ state' = [state EXCEPT ![n] = Failed(e, status)]
  /\ IF e.failures + 1 > AutoDisableAfter /\ def.enabled
       THEN DisabledOrNot(n, def) ELSE UNCHANGED <<config, cut>>

\* _record_schedule_failure() on entry e: the streak grows and, at the
\* threshold, the definition the run was started with is saved disabled.
RecordFailure(n, def, e, status) ==
  /\ state' = [state EXCEPT ![n] = Failed(e, status)]
  /\ IF e.failures + 1 >= AutoDisableAfter /\ def.enabled
       THEN DisabledOrNot(n, def) ELSE UNCHANGED <<config, cut>>

RecordSuccess(n) ==
  /\ state' = [state EXCEPT ![n] = Succeeded(@)]
  /\ cut' = cut \ {n}
  /\ UNCHANGED config

\* complete_operation(): nothing to do for a record that was cleared.
Complete(n, status) ==
  history' = [history EXCEPT ![n] = IF @ = "none" THEN "none" ELSE status]

-----------------------------------------------------------------------------
(* The tick *)

Due(n) ==
  /\ config[n].enabled
  /\ minute \in CronMinutes[config[n].settings]
  /\ state[n].failures < MaxFailures

TickSchedules ==
  /\ up
  /\ Tick({n \in Names : Due(n)})
  /\ seen' = [n \in Names |-> IF n \in pending' THEN config[n] ELSE Undefined]
  /\ UNCHANGED <<disk, up, minute, job, save>>

Forget(n) == seen' = [seen EXCEPT ![n] = Undefined]

AlreadyFired(n) == state[n].fired = minute

LaunchSkipped(n) ==
  /\ LaunchSkips(n)
  /\ Forget(n)
  /\ UNCHANGED <<disk, up, minute, job, save>>

\* Same-minute de-dup.
LaunchDuplicate(n) ==
  /\ LaunchReturns(n)
  /\ AlreadyFired(n)
  /\ Forget(n)
  /\ UNCHANGED <<disk, up, minute, job, save>>

LaunchWithoutEndpoint(n) ==
  /\ LaunchReturns(n)
  /\ ~AlreadyFired(n)
  /\ RecordFailure(n, seen[n], Fired(state[n]), "failed")
  /\ Forget(n)
  /\ UNCHANGED <<history, up, minute, job, save>>

\* The run suspends while a thread resolves the endpoint's tunnel.
EnterRun(n, t, def, op) ==
  /\ state' = [state EXCEPT ![n] = Fired(@)]
  /\ job' = [job EXCEPT ![t] = [def |-> def, op |-> op, step |-> "connect", cancel |-> FALSE]]
  /\ UNCHANGED <<config, history, cut, up, minute, save>>

LaunchEnters(n, t) ==
  /\ LaunchRuns(n, t)
  /\ ~AlreadyFired(n)
  /\ EnterRun(n, t, seen[n], FALSE)
  /\ Forget(n)

-----------------------------------------------------------------------------
(* Run-now *)

RequestRun(n, t) ==
  /\ up
  /\ Defined(n)
  /\ state[n].failures < MaxFailures
  /\ RunNow(n, t)
  /\ job' = [job EXCEPT ![t] = [NoJob EXCEPT !.def = config[n], !.op = TRUE]]
  /\ history' = [history EXCEPT ![n] = "running"]
  /\ UNCHANGED <<config, state, cut, up, minute, seen, save>>

QueueForSlot(t) ==
  /\ ReservedQueues(t)
  /\ UNCHANGED <<disk, up, minute, seen, job, save>>

StartRun(t) ==
  /\ ReservedRuns(t) \/ WaiterRuns(t)
  /\ EnterRun(task[t].name, t, job[t].def, TRUE)
  /\ UNCHANGED seen

StartWithoutEndpoint(t) ==
  /\ ReservedReturns(t) \/ WaiterReturns(t)
  /\ LET n == task[t].name IN
       /\ RecordFailure(n, job[t].def, Fired(state[n]), "failed")
       /\ Complete(n, "failed")
  /\ job' = [job EXCEPT ![t] = NoJob]
  /\ UNCHANGED <<up, minute, seen, save>>

-----------------------------------------------------------------------------
(* The run, from one await to the next *)

At(t, step) == task[t].phase = "body" /\ job[t].step = step

RunEnds(t) ==
  /\ Finish(t)
  /\ job' = [job EXCEPT ![t] = NoJob]
  /\ UNCHANGED <<up, minute, seen, save>>

\* The tunnel is there: the operation is registered and pg_dump starts.
Connected(t) ==
  /\ At(t, "connect")
  /\ LET n == task[t].name IN
       /\ history' = IF job[t].op THEN history ELSE [history EXCEPT ![n] = "running"]
       /\ state' = [state EXCEPT ![n] = Touched(@)]
  /\ job' = [job EXCEPT ![t].op = TRUE, ![t].step = "dump"]
  /\ UNCHANGED <<engine, config, cut, up, minute, seen, save>>

\* Mutant: the operation run-now created is not completed.
ConnectFailsSilently(t) ==
  /\ At(t, "connect")
  /\ RecordFailure(task[t].name, job[t].def, state[task[t].name], "failed")
  /\ UNCHANGED history
  /\ RunEnds(t)

ConnectFails(t) ==
  /\ At(t, "connect")
  /\ LET n == task[t].name IN
       /\ RecordFailure(n, job[t].def, state[n], "failed")
       /\ IF job[t].op THEN Complete(n, "failed") ELSE UNCHANGED history
  /\ RunEnds(t)

\* pg_dump fails, or is terminated after a cancel request: both count as a failure.
DumpFails(t, status) ==
  /\ At(t, "dump")
  /\ status = "failed" \/ (status = "cancelled" /\ job[t].cancel)
  /\ LET n == task[t].name IN
       /\ RecordFailure(n, job[t].def, state[n], "failed")
       /\ Complete(n, status)
  /\ RunEnds(t)

\* Mutant: the success is not marked.
DumpKeptUnmarked(t) ==
  /\ At(t, "dump")
  /\ job[t].def.settings \notin Remote
  /\ UNCHANGED <<config, state, cut>>
  /\ Complete(task[t].name, "completed")
  /\ RunEnds(t)

\* A cancel request that came after the last line of output changes nothing.
DumpKept(t) ==
  /\ At(t, "dump")
  /\ job[t].def.settings \notin Remote
  /\ RecordSuccess(task[t].name)
  /\ Complete(task[t].name, "completed")
  /\ RunEnds(t)

\* The operation is complete for the history while its upload runs.
DumpPushed(t) ==
  /\ At(t, "dump")
  /\ job[t].def.settings \in Remote
  /\ Complete(task[t].name, "completed")
  /\ job' = [job EXCEPT ![t].step = "push", ![t].cancel = FALSE]
  /\ UNCHANGED <<engine, config, state, cut, up, minute, seen, save>>

PushFails(t) ==
  /\ At(t, "push")
  /\ LET n == task[t].name IN
       /\ RecordFailure(n, job[t].def, state[n], "copy_failed")
       /\ Complete(n, "completed")
  /\ RunEnds(t)

PushSucceeds(t) ==
  /\ At(t, "push")
  /\ RecordSuccess(task[t].name)
  /\ Complete(task[t].name, "completed")
  /\ RunEnds(t)

-----------------------------------------------------------------------------
(* The operations and schedule API *)

\* The operation is in _running_operations from the start of its dump to the end.
Cancellable(n) == {t \in Tasks : task[t].name = n /\ At(t, "dump")}

CancelDump(n, t) ==
  /\ up
  /\ t \in Cancellable(n)
  /\ job' = [job EXCEPT ![t].cancel = TRUE]
  /\ UNCHANGED <<engine, disk, up, minute, seen, save>>

\* Not in _running_operations but "running" in the history.
CancelStale(n) ==
  /\ up
  /\ Cancellable(n) = {}
  /\ history[n] = "running"
  /\ Complete(n, "failed")
  /\ UNCHANGED <<engine, config, state, cut, up, minute, seen, job, save>>

ClearHistory ==
  /\ up
  /\ history' = [n \in Names |-> IF history[n] = "running" THEN "running" ELSE "none"]
  /\ UNCHANGED <<engine, config, state, cut, up, minute, seen, job, save>>

\* The cap is checked, then validation runs in a thread.
SaveChecked(a, n, def) ==
  /\ up
  /\ save[a] = NoSave
  /\ Defined(n) \/ Cardinality({m \in Names : Defined(m)}) < MaxSchedules
  /\ save' = [save EXCEPT ![a] = [name |-> n, def |-> def]]
  /\ UNCHANGED <<engine, disk, up, minute, seen, job>>

SaveRejected(a) ==
  /\ save[a] # NoSave
  /\ save' = [save EXCEPT ![a] = NoSave]
  /\ UNCHANGED <<engine, disk, up, minute, seen, job>>

\* save_schedule(), delete_schedule()
Written(n, def) == config' = [config EXCEPT ![n] = def]

\* Mutant: an edit leaves the failure streak.
StreakKept(n) == state' = [state EXCEPT ![n] = Touched(@)] /\ cut' = cut \ {n}

\* mark(name, consecutive_failures=0)
ClearStreak(n) == state' = [state EXCEPT ![n] = StreakCleared(@)] /\ cut' = cut \ {n}

\* Back on the loop: write the definition, clear the failure streak.
SaveCommitted(a) ==
  /\ save[a] # NoSave
  /\ Written(save[a].name, save[a].def)
  /\ ClearStreak(save[a].name)
  /\ save' = [save EXCEPT ![a] = NoSave]
  /\ UNCHANGED <<engine, history, up, minute, seen, job>>

Switched(n, enabled) == [config[n] EXCEPT !.enabled = enabled]

\* Mutant: no 404 for an unknown schedule.
ToggleUnknown(n, enabled) ==
  /\ up
  /\ Written(n, Switched(n, enabled))
  /\ IF enabled THEN ClearStreak(n) ELSE UNCHANGED <<state, cut>>
  /\ UNCHANGED <<engine, history, up, minute, seen, job, save>>

Toggle(n, enabled) ==
  /\ up
  /\ Defined(n)
  /\ Written(n, Switched(n, enabled))
  /\ IF enabled THEN ClearStreak(n) ELSE UNCHANGED <<state, cut>>
  /\ UNCHANGED <<engine, history, up, minute, seen, job, save>>

Delete(n) ==
  /\ up
  /\ Defined(n)
  /\ Written(n, Undefined)
  /\ state' = [state EXCEPT ![n] = NoEntry]
  /\ cut' = cut \ {n}
  /\ UNCHANGED <<engine, history, up, minute, seen, job, save>>

-----------------------------------------------------------------------------
(* Time, shutdown, crash and boot *)

MinutePasses ==
  /\ minute' \in {m \in Minutes : m > minute}
  /\ UNCHANGED <<engine, disk, up, seen, job, save>>

\* The shutdown hook stops the tick loop; the process then exits.
Shutdown ==
  /\ up
  /\ Stop
  /\ UNCHANGED <<disk, up, minute, seen, job, save>>

\* What memory held is gone.
Dies ==
  /\ up
  /\ Crash
  /\ up' = FALSE
  /\ seen' = [n \in Names |-> Undefined]
  /\ job' = [t \in Tasks |-> NoJob]
  /\ save' = [a \in Admins |-> NoSave]
  /\ UNCHANGED minute

ProcessDies == Dies /\ UNCHANGED disk

\* A save, an enabling toggle or a deletion is killed between config.ini and
\* schedule_state.json.
DiesMidway(n) ==
  /\ Dies
  /\ \/ \E a \in Admins : save[a] # NoSave /\ save[a].name = n /\ Written(n, save[a].def)
     \/ Defined(n) /\ Written(n, Switched(n, TRUE))
     \/ Defined(n) /\ Written(n, Undefined)
  /\ cut' = cut \cup {n}
  /\ UNCHANGED <<state, history>>

\* A run is killed after its record was completed and before its outcome is marked.
DiesConcluding(t) ==
  /\ Dies
  /\ \/ At(t, "connect") /\ job[t].op /\ Complete(task[t].name, "failed")
     \/ At(t, "dump") /\ \E status \in {"completed", "failed", "cancelled"} : Complete(task[t].name, status)
  /\ UNCHANGED <<config, state, cut>>

\* Mutant: no _reconcile_schedule_state().
BootUnreconciled ==
  /\ ~up
  /\ up' = TRUE
  /\ Start
  /\ history' = [n \in Names |-> IF history[n] = "running" THEN "failed" ELSE history[n]]
  /\ UNCHANGED <<config, state, cut, minute, seen, job, save>>

\* Mutant: stale operations are left alone.
BootKeepingOperations ==
  /\ ~up
  /\ up' = TRUE
  /\ Start
  /\ state' = [n \in Names |->
                 IF state[n].status = "running" THEN [state[n] EXCEPT !.status = "failed"]
                                                ELSE state[n]]
  /\ UNCHANGED <<config, history, cut, minute, seen, job, save>>

\* The startup hook: stale operations and stale run-states become failed.
Boot ==
  /\ ~up
  /\ up' = TRUE
  /\ Start
  /\ history' = [n \in Names |-> IF history[n] = "running" THEN "failed" ELSE history[n]]
  /\ state' = [n \in Names |->
                 IF state[n].status = "running" THEN [state[n] EXCEPT !.status = "failed"]
                                                ELSE state[n]]
  /\ UNCHANGED <<config, cut, minute, seen, job, save>>

-----------------------------------------------------------------------------
LaunchDecided(n) ==
  \/ LaunchSkipped(n)
  \/ LaunchDuplicate(n)
  \/ LaunchWithoutEndpoint(n)
  \/ \E t \in Tasks : LaunchEnters(n, t)

TaskStarts(t) == QueueForSlot(t) \/ StartRun(t) \/ StartWithoutEndpoint(t)

RunAdvances(t) ==
  \/ Connected(t)
  \/ ConnectFails(t)
  \/ \E status \in {"failed", "cancelled"} : DumpFails(t, status)
  \/ DumpKept(t)
  \/ DumpPushed(t)
  \/ PushFails(t)
  \/ PushSucceeds(t)

Request ==
  \/ \E n \in Names :
       \/ \E t \in Tasks : RequestRun(n, t) \/ CancelDump(n, t)
       \/ CancelStale(n)
       \/ \E enabled \in BOOLEAN : Toggle(n, enabled)
       \/ Delete(n)
       \/ \E a \in Admins, def \in Definition : SaveChecked(a, n, def)
  \/ \E a \in Admins : SaveRejected(a) \/ SaveCommitted(a)
  \/ ClearHistory

BackupNext ==
  \/ TickSchedules
  \/ \E n \in Names : LaunchDecided(n)
  \/ \E t \in Tasks : TaskStarts(t) \/ RunAdvances(t)
  \/ Request
  \/ MinutePasses
  \/ Shutdown
  \/ ProcessDies
  \/ \E n \in Names : DiesMidway(n)
  \/ \E t \in Tasks : DiesConcluding(t)
  \/ Boot

BackupSpec == BackupInit /\ [][BackupNext]_allVars

\* The event loop runs ready tasks, tunnels, dumps and uploads end, and the
\* orchestrator restarts a dead process.  Requests, ticks and crashes may stop.
BackupFairness ==
  /\ \A n \in Names : WF_allVars(LaunchDecided(n))
  /\ \A t \in Tasks : WF_allVars(TaskStarts(t)) /\ WF_allVars(RunAdvances(t))
  /\ WF_allVars(Boot)

FairBackupSpec == BackupSpec /\ BackupFairness

-----------------------------------------------------------------------------
(* Properties *)

InFlight(n) == {t \in Tasks : task[t].name = n}

\* Auto-disable: a schedule with a full failure streak is not enabled, whatever
\* toggles, edits, manual runs and restarts happened while its runs were failing
\* with a definition they read before -- unless the write that goes with the streak
\* was cut off, and then only until the next one is made.
AutoDisabled ==
  \A n \in Names \ cut : state[n].failures >= AutoDisableAfter => ~config[n].enabled

\* What README.md says of it: a schedule is disabled after _AUTO_DISABLE_AFTER failures.
StreakDisables == \A n \in Names : state[n].failures >= AutoDisableAfter => ~config[n].enabled

\* A run writes back the definition it started with when it auto-disables; that
\* never undoes an edit nor brings a deleted schedule back: what a schedule does
\* changes only by a committed save or a deletion.
AdminsOwnDefinitions ==
  [][\A n \in Names : config'[n].settings # config[n].settings =>
       \/ config'[n] = Undefined
       \/ \E a \in Admins : save[a] = [name |-> n, def |-> config'[n]] /\ save'[a] = NoSave
    ]_allVars

\* "running" in the run-state means a run of that schedule is in progress, after
\* every error path, deletion, re-creation, crash and restart.
RunningIsReal ==
  up => \A n \in Names : state[n].status = "running" =>
          \E t \in InFlight(n) : task[t].phase = "body"

\* A "running" operation in the history belongs to a task that will complete it:
\* no operation of a live process is stale.
OperationIsReal ==
  up => \A n \in Names : history[n] = "running" => \E t \in InFlight(n) : job[t].op

\* The failure of a run of n that was given def would not write over what
\* administrators did since: either the streak is over or nothing but a disabling
\* happened.
Spared(n, def) ==
  \/ state[n].failures = 0
  \/ def.settings = config[n].settings /\ (config[n].enabled => def.enabled)

RunsSpared == \A t \in Active : Spared(task[t].name, job[t].def)

LaunchesSpared == \A n \in pending : Spared(n, seen[n])

\* The inductive invariant, over that of the engine.
BackupInv ==
  /\ BackupTypeOK
  /\ AutoDisabled
  /\ RunningIsReal
  /\ OperationIsReal
  /\ RunsSpared
  /\ LaunchesSpared

\* Every run-state that says "running" is settled in the end, by the run or by the next boot.
RunsSettle == \A n \in Names : state[n].status = "running" ~> state[n].status # "running"

\* So is every operation of the history.
OperationsSettle == \A n \in Names : history[n] = "running" ~> history[n] # "running"

\* What README.md says of the schedule API: there are never more than
\* _MAX_SCHEDULES schedules.
AtMostMaxSchedules == Cardinality({n \in Names : Defined(n)}) <= MaxSchedules

\* What api_delete_schedule says: it deletes a schedule and its run-state.
DeleteRemovesState ==
  \A n \in Names : ~Defined(n) /\ n \notin running /\ n \notin pending => state[n] = NoEntry

\* What api_cancel_operation says of its second branch: it is for entries
\* nobody works on any more, so an operation whose run is still to dump is "running".
CancelSparesLiveRuns ==
  \A t \in Tasks : job[t].op /\ job[t].step \in {"none", "connect"} =>
    history[task[t].name] = "running"
=============================================================================
