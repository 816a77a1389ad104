------------------------------ MODULE Operations ------------------------------
(***************************************************************************)
(* Backups, restores, transfers and scheduled dumps from the request to    *)
(* the history record: the WebSocket handlers of main.py, the generators   *)
(* run_backup(), run_restore() and run_transfer(), the operation log and   *)
(* the broadcaster.  An operation moves from one await to the next; the    *)
(* PostgreSQL tool it started runs beside it.                              *)
(***************************************************************************)
EXTENDS Broadcaster

CONSTANTS
  Requests,   \* what clients ask for: [kind, clean, toc, ts]
  MaxHistory, \* _save_history() keeps the newest 100 records
  MaxCrashes  \* bound

ASSUME OperationConstants ==
  /\ Requests \subseteq [kind : {"backup", "restore", "transfer", "scheduled"},
                         clean : BOOLEAN, toc : BOOLEAN, ts : BOOLEAN]
  /\ None \notin Requests
  /\ MaxHistory \in Nat \ {0} /\ MaxCrashes \in Nat
  /\ Messages = {"info", "line", "phase", "ok", "fail"}

VARIABLES
  alive, crashes,
  history,   \* operation_history.json, newest first
  running,   \* the keys of _running_operations
  cancel,    \* the operations whose cancel event is set
  run,       \* the locals of each operation's task, and its tool
  file,      \* the dump an operation writes
  target,    \* the database an operation restores into
  restoring, \* the operations whose target is in TimescaleDB's restoring mode
  told       \* what a follower was told of an operation that is not streamed

logVars == <<history, running, cancel>>
dataVars == <<file, target, restoring>>
serverVars == <<alive, crashes, told>>
operationVars == <<broadcastVars, logVars, run, dataVars, serverVars>>

Phases == {"none", "queued", "created", "toc", "pre", "spawning", "reading", "waiting", "post",
           "push", "over", "lost"}
Statuses == {"running", "completed", "failed", "cancelled"}

NoRun == [request |-> None, phase |-> "none", tool |-> "none", proc |-> "none",
          faulty |-> FALSE, errors |-> FALSE, cut |-> FALSE]
Kind(o) == IF run[o].request = None THEN None ELSE run[o].request.kind

OperationTypeOK ==
  /\ BroadcasterTypeOK
  /\ history \in Seq([op : Ops, status : Statuses]) /\ Len(history) <= MaxHistory
  /\ running \subseteq Ops /\ cancel \subseteq running
  /\ run \in [Ops -> [request : Requests \cup {None}, phase : Phases, tool : {"none", "dump", "restore"},
                      proc : {"none", "works", "zero", "one", "bad"},
                      faulty : BOOLEAN, errors : BOOLEAN, cut : BOOLEAN]]
  /\ file \in [Ops -> {"none", "partial", "whole"}]
  /\ target \in [Ops -> {"untouched", "partial", "restored"}]
  /\ restoring \subseteq Ops /\ alive \in BOOLEAN /\ crashes \in 0 .. MaxCrashes
  /\ told \in [Followers -> [op : Ops \cup {None}, answer : {None, "ok", "fail", "missing"}]]

OperationInit ==
  /\ BroadcasterInit
  /\ alive = TRUE /\ crashes = 0
  /\ history = <<>> /\ running = {} /\ cancel = {}
  /\ run = [o \in Ops |-> NoRun]
  /\ file = [o \in Ops |-> "none"]
  /\ target = [o \in Ops |-> "untouched"]
  /\ restoring = {}
  /\ told = [f \in Followers |-> [op |-> None, answer |-> None]]

-----------------------------------------------------------------------------
(* The operation log *)

Records(o) == {i \in DOMAIN history : history[i].op = o}
HasStatus(o, statuses) == \E i \in Records(o) : history[i].status \in statuses

Recorded(o) ==
  LET h == <<[op |-> o, status |-> "running"]>> \o history
  IN SubSeq(h, 1, IF Len(h) < MaxHistory THEN Len(h) ELSE MaxHistory)

\* complete_operation(): nothing to update when the record is gone.
Completed(o, status) == [i \in DOMAIN history |-> IF i \in Records(o) THEN [op |-> o, status |-> status] ELSE history[i]]

\* Mutant: the finally block forgets the event.
ConcludedStillRunning(o, status, ms) ==
  /\ history' = Completed(o, status)
  /\ UNCHANGED <<running, cancel>>
  /\ PublishedLast(o, ms)

\* The end of a task: the record, the last messages, and the finally block.
Concluded(o, status, ms) ==
  /\ history' = Completed(o, status)
  /\ running' = running \ {o}
  /\ cancel' = cancel \ {o}
  /\ PublishedLast(o, ms)

-----------------------------------------------------------------------------
(* How a tool's run ends, for the operation it is part of *)

Moved(o, phase) == run' = [run EXCEPT ![o].phase = phase]

\* Where run_restore() first waits.
RestorePhase(o) ==
  IF run[o].request.toc THEN "toc" ELSE IF run[o].request.ts THEN "pre" ELSE "spawning"

\* Mutant: the dump of a transfer completes the operation.
TransferGoesOnLogged(o, ms) ==
  /\ run' = [run EXCEPT ![o] = [NoRun EXCEPT !.request = run[o].request, !.phase = RestorePhase(o),
                                             !.tool = "restore"]]
  /\ history' = Completed(o, "completed")
  /\ Published(o, ms \o <<"phase", "info">>)
  /\ UNCHANGED <<running, cancel, file>>

\* Phase 2 of a transfer starts in the step its dump ended in.
TransferGoesOn(o, ms) ==
  /\ run' = [run EXCEPT ![o] = [NoRun EXCEPT !.request = run[o].request, !.phase = RestorePhase(o),
                                             !.tool = "restore"]]
  /\ Published(o, ms \o <<"phase", "info">>)
  /\ UNCHANGED <<logVars, file>>

\* A transfer is cancelled when its event is set, whatever its tools said; only a
\* completed one removes its intermediate file.
TransferEnds(o, verdict, ms) ==
  LET status == IF o \in cancel THEN "cancelled" ELSE verdict IN
    /\ Concluded(o, status, ms \o <<"phase", IF verdict = "completed" THEN "ok" ELSE "fail">>)
    /\ file' = [file EXCEPT ![o] = IF status = "completed" THEN "none" ELSE @]
    /\ Moved(o, "over")

\* Mutant: the outcome is logged and not told.
SingleEndsUntold(o, verdict, ms) ==
  /\ Concluded(o, verdict, ms)
  /\ Moved(o, "over")
  /\ UNCHANGED file

SingleEnds(o, verdict, ms) ==
  /\ Concluded(o, verdict, Append(ms, IF verdict = "completed" THEN "ok" ELSE "fail"))
  /\ IF Kind(o) = "scheduled" /\ verdict = "completed"
       THEN Moved(o, "push") \/ Moved(o, "over")
       ELSE Moved(o, "over")
  /\ UNCHANGED file

ToolEnds(o, verdict, ms) ==
  IF Kind(o) # "transfer" THEN SingleEnds(o, verdict, ms)
  ELSE IF run[o].tool = "dump" /\ verdict = "completed"
    THEN TransferGoesOn(o, ms) \/ TransferEnds(o, "failed", ms \o <<"phase", "info">>)
    ELSE TransferEnds(o, verdict, ms)

\* run_backup(): errors in the output of a dump that exits with 0 are warnings.
DumpVerdict(r) == IF r.cut THEN "cancelled" ELSE IF r.proc = "zero" THEN "completed" ELSE "failed"

\* Mutant: the exit code of a --clean restore is looked at before its errors.
RestoreVerdictByCode(r) ==
  IF r.cut THEN "cancelled"
  ELSE IF r.proc = "zero" \/ (r.proc = "one" /\ r.request.clean) THEN "completed"
  ELSE "failed"

\* run_restore(): with --clean, an exit code of 1 without errors is a success.
RestoreVerdict(r) ==
  IF r.cut THEN "cancelled"
  ELSE IF ~r.errors /\ (r.proc = "zero" \/ (r.proc = "one" /\ r.request.clean)) THEN "completed"
  ELSE "failed"

Verdict(o) == IF run[o].tool = "dump" THEN DumpVerdict(run[o]) ELSE RestoreVerdict(run[o])

-----------------------------------------------------------------------------
(* Starting *)

\* A request over a WebSocket: record, event, stream, task and the requester's
\* subscription in one step (owners is empty for a requester that is not modelled).
Start(o, q, owners) ==
  /\ alive /\ run[o].phase = "none" /\ q.kind # "scheduled"
  /\ \A f \in owners : conn[f].phase = "idle"
  /\ history' = Recorded(o)
  /\ running' = running \cup {o}
  /\ StreamStarts(o, owners, <<>>)
  /\ run' = [run EXCEPT ![o] = [NoRun EXCEPT !.request = q, !.phase = "created",
                                !.tool = IF q.kind = "restore" THEN "restore" ELSE "dump"]]
  /\ UNCHANGED <<cancel, dataVars, serverVars>>

\* run-now of a schedule: the record exists while the run waits for its slot.
QueueScheduled(o, q) ==
  /\ alive /\ run[o].phase = "none" /\ q.kind = "scheduled"
  /\ history' = Recorded(o)
  /\ run' = [run EXCEPT ![o] = [NoRun EXCEPT !.request = q, !.phase = "queued", !.tool = "dump"]]
  /\ UNCHANGED <<broadcastVars, running, cancel, dataVars, serverVars>>

\* _execute_schedule() up to the start of pg_dump; a refused one starts and ends its
\* stream in the same step.
DequeueScheduled(o) ==
  /\ run[o].phase = "queued"
  /\ \/ /\ running' = running \cup {o}
        /\ StreamStarts(o, {}, <<"info">>)
        /\ Moved(o, "spawning")
        /\ UNCHANGED history
     \/ /\ history' = Completed(o, "failed")
        /\ Moved(o, "over")
        /\ UNCHANGED <<running, broadcastVars>>
  /\ UNCHANGED <<cancel, dataVars, serverVars>>

\* The first step of the task: refused arguments raise; a full quota, a tool path
\* that is not allowed or a missing file ends the tool's run; else it is started.
Enter(o) ==
  LET hello == IF Kind(o) = "restore" /\ run[o].request.toc THEN <<>> ELSE <<"info">> IN
  /\ run[o].phase = "created"
  /\ \/ Concluded(o, "failed", <<"fail">>) /\ Moved(o, "over") /\ UNCHANGED file
     \/ ToolEnds(o, "failed", <<>>)
     \/ /\ Moved(o, IF run[o].tool = "restore" THEN RestorePhase(o) ELSE "spawning")
        /\ Published(o, hello)
        /\ UNCHANGED <<logVars, file>>
  /\ UNCHANGED <<target, restoring, serverVars>>

\* pg_restore --list, to leave tables out.
ListContents(o) ==
  /\ run[o].phase = "toc"
  /\ \/ ToolEnds(o, "failed", <<>>)
     \/ /\ Moved(o, IF run[o].request.ts THEN "pre" ELSE "spawning")
        /\ Published(o, <<"info">>)
        /\ UNCHANGED <<logVars, file>>
  /\ UNCHANGED <<target, restoring, serverVars>>

PreRestore(o) ==
  /\ run[o].phase = "pre"
  /\ \/ ToolEnds(o, "failed", <<>>) /\ UNCHANGED restoring
     \/ /\ restoring' = restoring \cup {o}
        /\ Moved(o, "spawning")
        /\ Published(o, <<"info">>)
        /\ UNCHANGED <<logVars, file>>
  /\ UNCHANGED <<target, serverVars>>

Spawn(o) ==
  /\ run[o].phase = "spawning"
  /\ \E faulty \in BOOLEAN :
       run' = [run EXCEPT ![o] = [@ EXCEPT !.phase = "reading", !.proc = "works", !.faulty = faulty]]
  /\ IF run[o].tool = "dump"
       THEN file' = [file EXCEPT ![o] = "partial"] /\ UNCHANGED target
       ELSE target' = [target EXCEPT ![o] = "partial"] /\ UNCHANGED file
  /\ UNCHANGED <<broadcastVars, logVars, restoring, serverVars>>

\* FileNotFoundError and the other ways a process cannot be started.
SpawnFails(o) ==
  /\ run[o].phase = "spawning"
  /\ ToolEnds(o, "failed", <<>>)
  /\ UNCHANGED <<target, restoring, serverVars>>

-----------------------------------------------------------------------------
(* The tool, and the loop that reads its messages *)

\* The tool exits, on its own or terminated.  What it could not do it has said in a
\* message, except that pg_restore --clean exits with 1 when there was nothing to drop.
ToolExits(o) ==
  /\ run[o].proc = "works"
  /\ \E code \in {"zero", "one", "bad"} :
       /\ run' = [run EXCEPT ![o].proc = code]
       /\ IF run[o].tool = "dump"
            THEN /\ file' = [file EXCEPT ![o] = IF code = "zero" THEN "whole" ELSE @]
                 /\ UNCHANGED target
            ELSE /\ target' = [target EXCEPT ![o] =
                      IF ~run[o].faulty /\ (code = "zero" \/ (code = "one" /\ run[o].request.clean))
                        THEN "restored" ELSE @]
                 /\ UNCHANGED file
  /\ UNCHANGED <<broadcastVars, logVars, restoring, serverVars>>

\* A line, before or after the tool has exited; only then the cancel event is looked
\* at.  Terminating a tool that asyncio has already reaped raises.
ReadLine(o) ==
  /\ run[o].phase = "reading"
  /\ \E error \in {FALSE, run[o].faulty} :
     /\ Len(buffer[o]) < MaxMessages \/ (error /\ ~run[o].errors)
     /\ \/ /\ Published(o, <<"line">>)
           /\ run' = [run EXCEPT ![o] = [@ EXCEPT !.errors = run[o].errors \/ error,
                                         !.cut = o \in cancel,
                                         !.phase = IF o \in cancel THEN "waiting" ELSE "reading"]]
           /\ UNCHANGED <<logVars, file>>
        \/ /\ o \in cancel /\ run[o].proc # "works"
           /\ ToolEnds(o, "failed", <<"line">>)
  /\ UNCHANGED <<target, restoring, serverVars>>

\* The end of stderr: every message has been read.
ReadEnd(o) ==
  /\ run[o].phase = "reading" /\ run[o].proc # "works"
  /\ run[o].faulty => run[o].errors
  /\ Moved(o, "waiting")
  /\ UNCHANGED <<broadcastVars, logVars, dataVars, serverVars>>

\* A line that is too long or not UTF-8 raises; the tool is left to itself.
ReadBreaks(o) ==
  /\ run[o].phase = "reading"
  /\ ToolEnds(o, "failed", <<>>)
  /\ UNCHANGED <<target, restoring, serverVars>>

\* process.wait(); TimescaleDB's post-restore follows unless the tool was cut.
Wait(o) ==
  /\ run[o].phase = "waiting" /\ run[o].proc # "works"
  /\ IF run[o].tool = "restore" /\ run[o].request.ts /\ ~run[o].cut
       THEN Moved(o, "post") /\ Published(o, <<"info">>) /\ UNCHANGED <<logVars, file>>
       ELSE ToolEnds(o, Verdict(o), <<>>)
  /\ UNCHANGED <<target, restoring, serverVars>>

PostRestore(o) ==
  /\ run[o].phase = "post"
  /\ \/ restoring' = restoring \ {o} /\ ToolEnds(o, Verdict(o), <<"info">>)
     \/ UNCHANGED restoring /\ ToolEnds(o, "failed", <<"info">>)
  /\ UNCHANGED <<target, serverVars>>

\* The upload of a scheduled dump: the operation stays completed, whatever comes of it.
PushEnds(o) ==
  /\ run[o].phase = "push"
  /\ history' = Completed(o, "completed")
  /\ Moved(o, "over")
  /\ UNCHANGED <<broadcastVars, running, cancel, dataVars, serverVars>>

OperationRuns(o) ==
  \/ DequeueScheduled(o) \/ Enter(o) \/ ListContents(o) \/ PreRestore(o)
  \/ Spawn(o) \/ SpawnFails(o) \/ ReadLine(o) \/ ReadEnd(o) \/ ReadBreaks(o)
  \/ Wait(o) \/ PostRestore(o) \/ PushEnds(o)

-----------------------------------------------------------------------------
(* Clients and the process *)

\* POST /cancel: signal the task, or settle what looks like a stale record.
Cancel(o) ==
  /\ alive
  /\ IF o \in running
       THEN cancel' = cancel \cup {o} /\ UNCHANGED history
       ELSE HasStatus(o, {"running"}) /\ history' = Completed(o, "failed") /\ UNCHANGED cancel
  /\ UNCHANGED <<broadcastVars, running, run, dataVars, serverVars>>

\* POST /clear: what is running stays, in its order.
ClearHistory ==
  LET stay == {i \in DOMAIN history : history[i].status = "running"} IN
    /\ alive
    /\ \E n \in 0 .. Len(history) : \E pick \in [1 .. n -> stay] :
         /\ \A i, j \in 1 .. n : i < j => pick[i] < pick[j]
         /\ stay = {pick[i] : i \in 1 .. n}
         /\ history' = [i \in 1 .. n |-> history[pick[i]]]
    /\ UNCHANGED <<broadcastVars, running, cancel, run, dataVars, serverVars>>

\* Following an operation whose record exists and whose stream is open.
FollowLive(f, o) ==
  /\ alive /\ Records(o) # {}
  /\ Follow(f, o)
  /\ UNCHANGED <<logVars, run, dataVars, serverVars>>

\* Any other: no such operation, or the log file and the record's status.
FollowStatic(f, o) ==
  /\ alive /\ conn[f].phase = "idle"
  /\ Records(o) # {} => o \notin streaming
  /\ told' = [told EXCEPT ![f] =
       [op |-> o, answer |-> IF Records(o) = {} THEN "missing"
                             ELSE IF HasStatus(o, {"completed"}) THEN "ok" ELSE "fail"]]
  /\ UNCHANGED <<broadcastVars, logVars, run, dataVars, alive, crashes>>

ClientsRun ==
  /\ alive
  /\ \/ \E f \in Followers : ConnectionRuns(f) \/ Disconnects(f)
     \/ \E o \in Ops : CleanUp(o)
  /\ UNCHANGED <<logVars, run, dataVars, serverVars>>

\* Everything in memory is gone, the tools with it; a record file that was being
\* rewritten reads as empty.
Crash ==
  /\ alive /\ crashes < MaxCrashes
  /\ alive' = FALSE /\ crashes' = crashes + 1
  /\ history' \in {history, <<>>}
  /\ running' = {} /\ cancel' = {}
  /\ run' = [o \in Ops |-> IF run[o].phase \in {"none", "over"}
                             THEN [run[o] EXCEPT !.proc = "none"]
                             ELSE [run[o] EXCEPT !.phase = "lost", !.proc = "none"]]
  /\ told' = [f \in Followers |-> [op |-> None, answer |-> None]]
  /\ ServerLost
  /\ UNCHANGED dataVars

\* Mutant: stale records are left alone.
BootUnsettled ==
  /\ ~alive /\ alive' = TRUE
  /\ UNCHANGED <<broadcastVars, logVars, run, dataVars, crashes, told>>

\* startup_event()
Boot ==
  /\ ~alive /\ alive' = TRUE
  /\ history' = [i \in DOMAIN history |->
                   IF history[i].status = "running" THEN [history[i] EXCEPT !.status = "failed"]
                                                    ELSE history[i]]
  /\ UNCHANGED <<broadcastVars, running, cancel, run, dataVars, crashes, told>>

-----------------------------------------------------------------------------
OperationNext ==
  \/ \E o \in Ops :
       \/ \E q \in Requests : QueueScheduled(o, q) \/ \E owners \in {{}} \cup {{f} : f \in Followers} : Start(o, q, owners)
       \/ OperationRuns(o) \/ ToolExits(o) \/ Cancel(o)
       \/ \E f \in Followers : FollowLive(f, o) \/ FollowStatic(f, o)
  \/ ClearHistory \/ ClientsRun \/ Crash \/ Boot

OperationSpec == OperationInit /\ [][OperationNext]_operationVars

\* Tasks are scheduled, tools exit, and a server that died is started again.
OperationFairness ==
  /\ \A o \in Ops : WF_operationVars(OperationRuns(o)) /\ WF_operationVars(ToolExits(o))
  /\ WF_operationVars(Boot)

FairOperationSpec == OperationSpec /\ OperationFairness

-----------------------------------------------------------------------------
(* Properties *)

\* A completed dump is a whole file; a completed restore or transfer has restored
\* everything and left restoring mode.
RecordsTellTheTruth ==
  \A o \in Ops : HasStatus(o, {"completed"}) =>
    IF Kind(o) \in {"backup", "scheduled"} THEN file[o] = "whole"
    ELSE target[o] = "restored" /\ o \notin restoring

\* A record says running exactly while its operation's task is there to complete it:
\* no error path, crash or reboot leaves one behind.  (A scheduled run is queued first,
\* and a cancel request may settle its record under it.)
RunningMeansRunning ==
  alive => \A o \in Ops : Records(o) # {} =>
    /\ HasStatus(o, {"running"}) => o \in running \/ run[o].phase = "queued"
    /\ Kind(o) # "scheduled" => (HasStatus(o, {"running"}) <=> o \in running)

\* Whoever watched a backup or a restore to its end was told in the end what the
\* history says.
LiveAndStoredAgree ==
  \A f \in Followers :
    LET c == conn[f] IN
      c.phase = "done" /\ ~c.gone /\ Kind(c.op) \in {"backup", "restore"} /\ Records(c.op) # {} =>
        (c.got # <<>> /\ c.got[Len(c.got)] = "ok" <=> HasStatus(c.op, {"completed"}))

\* The outcome of an operation a client asked for is recorded once.
OutcomesAreFinal ==
  [][\A o \in Ops : Kind(o) # "scheduled" /\ Records(o) # {} /\ ~HasStatus(o, {"running"}) =>
       \A i \in Records(o)' : HasStatus(o, {history'[i].status})]_operationVars

\* Every operation comes to an end, cancelled or not, across crashes.
OperationsConclude ==
  \A o \in Ops : HasStatus(o, {"running"}) ~> ~HasStatus(o, {"running"})

\* An operation that is not streamed "already finished" (the comment in
\* websocket_follow_operation()).
StaticMeansFinished ==
  \A f \in Followers : told[f].answer \in {"ok", "fail"} => run[told[f].op].phase \in {"over", "lost"}

\* A running operation can be followed ("Follow running or view completed operation"):
\* it has its record.
RunningIsListed == alive => \A o \in running : Records(o) # {}

\* A transfer that reports success has removed its intermediate file.
SuccessRemovesIntermediate ==
  \A o \in Ops : Kind(o) = "transfer" /\ run[o].phase = "over" /\ o \in kept =>
    (buffer[o][Len(buffer[o])] = "ok" => file[o] = "none")
=============================================================================
