------------------------------- MODULE Progress -------------------------------
(***************************************************************************)
(* The registry of remote transfers behind the progress bars (progress.py) *)
(* and the transfers that report to it from worker threads, S3 from        *)
(* several at once.  Each function of the registry holds its lock.         *)
(***************************************************************************)
EXTENDS Naturals, FiniteSets

CONSTANTS
  Transfers,
  Parallel,   \* those with S3: their parts are moved by Workers
  Lengthless, \* those from a link that does not tell its length
  Workers,
  Threads,    \* how many transfers the thread pool runs at once
  MaxOps,     \* _MAX_OPS
  Size,       \* bound: in chunks
  None

Bars == [done : 0 .. Size, total : {0, Size}, status : {"running", "done", "error"}, age : {"none", "fresh", "stale"}]

\* S3 tells the length of every object.
ASSUME ProgressConstants ==
  /\ Parallel \cup Lengthless \subseteq Transfers /\ Parallel \cap Lengthless = {}
  /\ Threads \in Nat /\ MaxOps \in Nat /\ Threads < MaxOps
  /\ Size \in Nat \ {0}
  /\ None \notin Bars \cup Nat

VARIABLES
  ops,      \* _ops: what each bar shows
  transfer  \* each transfer: its phase, the bytes its adapter counted, what each worker has yet to report

progressVars == <<ops, transfer>>

Phases == {"new", "runs", "sent", "failed", "over"}

ProgressTypeOK ==
  /\ ops \in [Transfers -> Bars \cup {None}]
  /\ transfer \in [Transfers -> [phase : Phases, sent : 0 .. Size, held : [Workers -> 0 .. Size \cup {None}]]]
  /\ \A t \in Transfers : ops[t] # None => (ops[t].status = "running" <=> ops[t].age = "none")

Idle == [phase |-> "new", sent |-> 0, held |-> [w \in Workers |-> None]]

ProgressInit ==
  /\ ops = [t \in Transfers |-> None]
  /\ transfer = [t \in Transfers |-> Idle]

Known == {t \in Transfers : ops[t] # None}
Running == {t \in Transfers : transfer[t].phase \in {"runs", "sent", "failed"}}
Quiet(t) == \A w \in Workers : transfer[t].held[w] = None

-----------------------------------------------------------------------------
(* The registry *)

\* Mutant: a full registry is emptied.
PrunedAll(force) == [t \in Transfers |-> IF t \in Known /\ (force \/ ops[t].age = "stale") THEN None ELSE ops[t]]

\* _prune_locked(): only what has ended goes.
Pruned(force) ==
  [t \in Transfers |-> IF t \in Known /\ (ops[t].age = "stale" \/ (force /\ ops[t].age # "none")) THEN None ELSE ops[t]]

Started(t) ==
  [(IF Cardinality(Known) >= MaxOps THEN Pruned(TRUE) ELSE ops) EXCEPT
     ![t] = [done |-> 0, total |-> 0, status |-> "running", age |-> "none"]]

\* update(), called with the counters of the callback.
Updated(t, done) ==
  IF t \in Known /\ ops[t].status = "running"
    THEN [ops EXCEPT ![t] = [@ EXCEPT !.done = done, !.total = IF t \in Lengthless THEN 0 ELSE Size]] ELSE ops

Finished(t, status) ==
  LET full == status = "done" /\ ops[t].total # 0 IN
    IF t \in Known
      THEN [ops EXCEPT ![t] = [@ EXCEPT !.status = status, !.age = "fresh",
                                        !.done = IF full THEN ops[t].total ELSE ops[t].done]]
      ELSE ops

-----------------------------------------------------------------------------
(* A transfer, in its thread *)

Begin(t) ==
  /\ transfer[t].phase = "new" /\ Cardinality(Running) < Threads
  /\ ops' = Started(t)
  /\ transfer' = [transfer EXCEPT ![t].phase = "runs"]

\* A chunk is moved and counted; a worker of a parallel transfer is on its own.
Send(t, w) ==
  /\ transfer[t].phase = "runs" /\ transfer[t].sent < Size
  /\ IF t \in Parallel THEN transfer[t].held[w] = None ELSE Quiet(t)
  /\ transfer' = [transfer EXCEPT ![t] = [@ EXCEPT !.sent = transfer[t].sent + 1, !.held[w] = transfer[t].sent + 1]]
  /\ UNCHANGED ops

\* The callback takes the count it read to the registry.
Report(t, w) ==
  /\ transfer[t].held[w] # None
  /\ ops' = Updated(t, transfer[t].held[w])
  /\ transfer' = [transfer EXCEPT ![t].held[w] = None]

\* The library returns when its workers have: with all sent, or with an error at any time.
Returns(t) ==
  /\ transfer[t].phase = "runs" /\ Quiet(t)
  /\ \E outcome \in {"failed"} \cup IF transfer[t].sent = Size THEN {"sent"} ELSE {} :
       transfer' = [transfer EXCEPT ![t].phase = outcome]
  /\ UNCHANGED ops

\* Mutant: a transfer that fails is not finalised.
FinalizeSuccess(t) ==
  /\ transfer[t].phase \in {"sent", "failed"}
  /\ ops' = IF transfer[t].phase = "sent" THEN Finished(t, "done") ELSE ops
  /\ transfer' = [transfer EXCEPT ![t].phase = "over"]

\* The end of _run_with_progress(), by a result or by an exception.
Finalize(t) ==
  /\ transfer[t].phase \in {"sent", "failed"}
  /\ ops' = Finished(t, IF transfer[t].phase = "sent" THEN "done" ELSE "error")
  /\ transfer' = [transfer EXCEPT ![t].phase = "over"]

\* The same backup is transferred again, as another operation; its bar must be gone.
Again(t) ==
  /\ transfer[t].phase = "over" /\ ops[t] = None
  /\ transfer' = [transfer EXCEPT ![t] = Idle]
  /\ UNCHANGED ops

-----------------------------------------------------------------------------
(* Time and the pages that poll *)

\* _RETAIN_DONE_SECONDS have passed.
Retained(t) ==
  /\ t \in Known /\ ops[t].age = "fresh"
  /\ ops' = [ops EXCEPT ![t].age = "stale"]
  /\ UNCHANGED transfer

Snapshot == ops' = Pruned(FALSE) /\ UNCHANGED transfer

TransferRuns(t) ==
  \/ \E w \in Workers : Send(t, w) \/ Report(t, w)
  \/ Returns(t) \/ Finalize(t)

ProgressNext ==
  \/ \E t \in Transfers : Begin(t) \/ TransferRuns(t) \/ Again(t) \/ Retained(t)
  \/ Snapshot

ProgressSpec == ProgressInit /\ [][ProgressNext]_progressVars

\* Threads run; time passes.  Nobody need look.
ProgressFairness == \A t \in Transfers : WF_progressVars(TransferRuns(t)) /\ WF_progressVars(Retained(t))

FairProgressSpec == ProgressSpec /\ ProgressFairness

-----------------------------------------------------------------------------
(* Properties *)

\* The registry never grows past _MAX_OPS, although only finished entries may go and
\* nobody polls: the pool has fewer threads than that.
RegistryBounded == Cardinality(Known) <= MaxOps

\* While a transfer runs its bar is there, and running, whatever is pruned to make room.
RunningShown == \A t \in Running : t \in Known /\ ops[t].status = "running"

\* A bar that says "done" is full, in whichever order the workers' counts arrived.
DoneIsFull == \A t \in Known : ops[t].status = "done" => ops[t].done = Size

\* A bar goes forward while its transfer runs, but for the parallel ones.
BarsGoForward ==
  [][\A t \in Known \ Parallel : ops'[t] # None /\ ops'[t].status = "running" => ops'[t].done >= ops[t].done]_progressVars

\* No bar runs for ever.
BarsEnd == \A t \in Transfers : (t \in Known /\ ops[t].status = "running") ~> ~(t \in Known /\ ops[t].status = "running")
===============================================================================
