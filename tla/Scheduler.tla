------------------------------ MODULE Scheduler ------------------------------
(***************************************************************************)
(* scheduler.py: the tick loop, the set of reserved schedule names and the *)
(* global slot semaphore.  Everything runs on one event-loop thread, so an *)
(* action is the code between two suspension points.  The run itself       *)
(* (run_one, injected by main.py) is opaque here: it may return without    *)
(* suspending, or suspend and return in a later step.                      *)
(***************************************************************************)
EXTENDS Naturals, Sequences, FiniteSets, AsyncSemaphore

CONSTANTS
  Names,          \* schedule names
  Tasks,          \* pool of asyncio tasks that run run_reserved()
  MaxConcurrent,  \* _MAX_CONCURRENT
  None            \* the name of an idle task

ASSUME SchedulerConstants ==
  /\ MaxConcurrent \in Nat \ {0}
  /\ IsFiniteSet(Tasks)
  /\ None \notin Names

VARIABLES
  ticking,   \* the _loop() task is alive
  pending,   \* names whose _launch() task was created by a tick and has not run
  running,   \* Scheduler._running
  sem,       \* Scheduler._sem
  task       \* the tasks of the pool: where each one is, and for which name

vars == <<ticking, pending, running, sem, task>>

Phases == {"idle", "created", "waiting", "body"}
Idle == [phase |-> "idle", name |-> None]

TypeOK ==
  /\ ticking \in BOOLEAN
  /\ pending \subseteq Names
  /\ running \subseteq Names
  /\ sem \in [value : Nat, waiters : Seq(Tasks), woken : Nat]
  /\ task \in [Tasks -> [phase : Phases, name : Names \cup {None}]]

Init ==
  /\ ticking = FALSE
  /\ pending = {}
  /\ running = {}
  /\ sem = Fresh(MaxConcurrent)
  /\ task = [t \in Tasks |-> Idle]

-----------------------------------------------------------------------------
(* Lifecycle and the tick loop *)

\* start(): create the loop task unless it is alive.
Start ==
  /\ ~ticking
  /\ ticking' = TRUE
  /\ UNCHANGED <<pending, running, sem, task>>

\* stop(): end the loop.  Runs in flight are not touched.
Stop ==
  /\ ticking
  /\ ticking' = FALSE
  /\ UNCHANGED <<pending, running, sem, task>>

\* One pass of _evaluate() that found the names in `due` enabled and due.  The
\* ready queue is first-in first-out, so the _launch() tasks of a tick have
\* all run before the timer of the next one can fire.
Tick(due) ==
  /\ ticking
  /\ pending = {}
  /\ pending' = due \ running
  /\ UNCHANGED <<ticking, running, sem, task>>

-----------------------------------------------------------------------------
(* reserve() and release() *)

\* Mutant: reserve() without its test.
AlwaysReservable(n) == TRUE

Reservable(n) == n \notin running

Reserve(n) == running \cup {n}

\* Mutant: no finally block.
KeepReserved(n) == running

Unreserve(n) == running \ {n}

-----------------------------------------------------------------------------
(* _launch(): the tick's path *)

\* Mutant: the reservation is not given back when no slot is free.
LaunchSkipsLeaking(n) ==
  /\ n \in pending
  /\ ~Reservable(n) \/ Locked(sem)
  /\ pending' = pending \ {n}
  /\ running' = Reserve(n)
  /\ UNCHANGED <<ticking, sem, task>>

\* The name is already in flight, or every slot is taken: nothing is queued.
LaunchSkips(n) ==
  /\ n \in pending
  /\ ~Reservable(n) \/ Locked(sem)
  /\ pending' = pending \ {n}
  /\ UNCHANGED <<ticking, running, sem, task>>

\* Mutant: the run is entered without the semaphore.
LaunchRunsUnguarded(n, t) ==
  /\ n \in pending
  /\ Reservable(n)
  /\ task[t].phase = "idle"
  /\ pending' = pending \ {n}
  /\ running' = Reserve(n)
  /\ task' = [task EXCEPT ![t] = [phase |-> "body", name |-> n]]
  /\ UNCHANGED <<ticking, sem>>

\* Reserve the name, take a slot and enter the run, which suspends.
LaunchRuns(n, t) ==
  /\ n \in pending
  /\ Reservable(n)
  /\ ~Locked(sem)
  /\ task[t].phase = "idle"
  /\ pending' = pending \ {n}
  /\ running' = Reserve(n)
  /\ sem' = Acquire(sem)
  /\ task' = [task EXCEPT ![t] = [phase |-> "body", name |-> n]]
  /\ UNCHANGED ticking

\* The same, with a run that returns before it suspends: slot and reservation
\* are back when the step ends.
LaunchReturns(n) ==
  /\ n \in pending
  /\ Reservable(n)
  /\ ~Locked(sem)
  /\ pending' = pending \ {n}
  /\ running' = Reserve(n) \ {n}
  /\ sem' = Release(Acquire(sem))
  /\ UNCHANGED <<ticking, task>>

-----------------------------------------------------------------------------
(* run_reserved(): run-now's path, which waits for a slot *)

\* The handler reserves the name (409 otherwise) and creates the task.
RunNow(n, t) ==
  /\ Reservable(n)
  /\ task[t].phase = "idle"
  /\ running' = Reserve(n)
  /\ task' = [task EXCEPT ![t] = [phase |-> "created", name |-> n]]
  /\ UNCHANGED <<ticking, pending, sem>>

\* The task's first step.  A _launch() pending for the same name was created
\* while the name was free, hence before this task: it runs first.
FirstStep(t) ==
  /\ task[t].phase = "created"
  /\ task[t].name \notin pending
  /\ UNCHANGED <<ticking, pending>>

ReservedQueues(t) ==
  /\ FirstStep(t)
  /\ Locked(sem)
  /\ sem' = Enqueue(sem, t)
  /\ task' = [task EXCEPT ![t].phase = "waiting"]
  /\ UNCHANGED running

\* Mutant: acquire() does not look at the value.
ReservedRunsUnchecked(t) ==
  /\ FirstStep(t)
  /\ sem' = Acquire(sem)
  /\ task' = [task EXCEPT ![t].phase = "body"]
  /\ UNCHANGED running

ReservedRuns(t) ==
  /\ FirstStep(t)
  /\ ~Locked(sem)
  /\ sem' = Acquire(sem)
  /\ task' = [task EXCEPT ![t].phase = "body"]
  /\ UNCHANGED running

ReservedReturns(t) ==
  /\ FirstStep(t)
  /\ ~Locked(sem)
  /\ sem' = Release(Acquire(sem))
  /\ running' = Unreserve(task[t].name)
  /\ task' = [task EXCEPT ![t] = Idle]

\* A waiter that was handed a slot runs again, in the order they were woken.
HasSlot(t) ==
  /\ sem.woken > 0
  /\ t = Head(sem.waiters)
  /\ UNCHANGED <<ticking, pending>>

WaiterRuns(t) ==
  /\ HasSlot(t)
  /\ sem' = Resume(sem)
  /\ task' = [task EXCEPT ![t].phase = "body"]
  /\ UNCHANGED running

WaiterReturns(t) ==
  /\ HasSlot(t)
  /\ sem' = Release(Resume(sem))
  /\ running' = Unreserve(task[t].name)
  /\ task' = [task EXCEPT ![t] = Idle]

\* run_one returns or raises: the semaphore's __aexit__, then the finally block.
Finish(t) ==
  /\ task[t].phase = "body"
  /\ sem' = Release(sem)
  /\ running' = Unreserve(task[t].name)
  /\ task' = [task EXCEPT ![t] = Idle]
  /\ UNCHANGED <<ticking, pending>>

\* The process dies; init_scheduler() builds a new Scheduler at the next boot.
Crash ==
  /\ ticking' = FALSE
  /\ pending' = {}
  /\ running' = {}
  /\ sem' = Fresh(MaxConcurrent)
  /\ task' = [t \in Tasks |-> Idle]

-----------------------------------------------------------------------------
FirstSteps(t) == ReservedQueues(t) \/ ReservedRuns(t) \/ ReservedReturns(t)
Wakes(t) == WaiterRuns(t) \/ WaiterReturns(t)

Next ==
  \/ Start
  \/ Stop
  \/ \E due \in SUBSET Names : Tick(due)
  \/ \E n \in Names :
       \/ LaunchSkips(n)
       \/ LaunchReturns(n)
       \/ \E t \in Tasks : LaunchRuns(n, t) \/ RunNow(n, t)
  \/ \E t \in Tasks : FirstSteps(t) \/ Wakes(t) \/ Finish(t)
  \/ Crash

Spec == Init /\ [][Next]_vars

\* The event loop runs every ready task, and every run ends (pg_dump and the
\* upload terminate).  Ticks, requests and crashes are not promised.
Fairness ==
  /\ \A n \in Names :
       WF_vars(LaunchSkips(n) \/ LaunchReturns(n) \/ \E t \in Tasks : LaunchRuns(n, t))
  /\ \A t \in Tasks : WF_vars(FirstSteps(t)) /\ WF_vars(Wakes(t)) /\ WF_vars(Finish(t))

FairSpec == Spec /\ Fairness

-----------------------------------------------------------------------------
(* Properties *)

Active == {t \in Tasks : task[t].phase # "idle"}
Bodies == {t \in Tasks : task[t].phase = "body"}

\* Per-schedule non-overlap: no two tasks are in flight for one schedule, so
\* two dumps never write one schedule's file.
NonOverlap ==
  \A t, u \in Active : task[t].name = task[u].name => t = u

\* _running holds exactly the names in flight: a reservation is never leaked
\* (run-now would answer 409 for ever) and never dropped early.
ReservationsExact == running = {task[t].name : t \in Active}

\* Every slot is free, handed to a woken waiter, or owned by a run.
SlotsConserved == sem.value + sem.woken + Cardinality(Bodies) = MaxConcurrent

\* The global cap: at most _MAX_CONCURRENT scheduled backups run at once.
AtMostMaxConcurrent == Cardinality(Bodies) <= MaxConcurrent

\* The deque holds every waiting task once, the woken ones in front.
QueueExact ==
  /\ sem.woken <= Len(sem.waiters)
  /\ \A i, j \in 1..Len(sem.waiters) : sem.waiters[i] = sem.waiters[j] => i = j
  /\ \A t \in Tasks :
       task[t].phase = "waiting" <=> \E i \in 1..Len(sem.waiters) : sem.waiters[i] = t

\* A free slot is never left beside a sleeping waiter with nobody to wake it.
NoLostWakeup ==
  sem.value > 0 /\ sem.woken < Len(sem.waiters) => sem.woken > 0

\* The inductive invariant: the facts above support one another.
IInv ==
  /\ TypeOK
  /\ NonOverlap
  /\ ReservationsExact
  /\ SlotsConserved
  /\ QueueExact
  /\ NoLostWakeup

\* A task in the pool is blank until it is taken, and no run of a name is past
\* its creation while a launch of that name is pending.
TasksInOrder ==
  /\ \A t \in Tasks : task[t].phase = "idle" => task[t] = Idle
  /\ \A n \in pending, t \in Tasks : task[t].name = n => task[t].phase = "created"

\* Every accepted run gets its slot and ends: ticks that find a slot free
\* cannot starve a run-now that waits for one.
ReservationEnds == \A n \in Names : n \in running ~> n \notin running

\* The engine implements RunSlots.
SlotOf(n) ==
  IF \E t \in Bodies : task[t].name = n THEN "running"
  ELSE IF n \in running THEN "queued"
  ELSE "free"

Abstract == INSTANCE RunSlots WITH slot <- [n \in Names |-> SlotOf(n)]

ImplementsRunSlots == Abstract!Spec
=============================================================================
