------------------------ MODULE ScheduledBackupsProofs ------------------------
(***************************************************************************)
(* Proofs about scheduled runs, for any number of schedules, tasks, slots  *)
(* and administrators, any cron minutes and any threshold of two or more.  *)
(* Scheduler: its invariants, and that it implements RunSlots.             *)
(* ScheduledBackups: its steps are steps of the engine, and BackupInv is   *)
(* inductive over the engine's IInv.  FireOnce: the tick fires a schedule  *)
(* once in a clock minute.  CronExpressions, on every date: an expression  *)
(* matches the minutes its text means, its next run is the next of them,   *)
(* two of them are as far apart as was probed (or a day), and the tick     *)
(* launches what they say.                                                 *)
(***************************************************************************)
EXTENDS FireOnce, Cron, FiniteSetTheorems, WellFoundedInduction, TLAPS

Semaphores == [value : Nat, waiters : Seq(Tasks), woken : Nat]

\* What the operations on the semaphore keep.
Sound(s) ==
  /\ s \in Semaphores
  /\ s.woken <= Len(s.waiters)
  /\ s.value > 0 /\ s.woken < Len(s.waiters) => s.woken > 0

Once(q) == \A i, j \in 1..Len(q) : q[i] = q[j] => i = j

Holds(q, t) == \E i \in 1..Len(q) : q[i] = t

-----------------------------------------------------------------------------
(* The semaphore *)

\* Waking a waiter when a slot is free moves that slot to it.
LEMMA WakeNextSound ==
  ASSUME NEW s \in Semaphores, s.woken <= Len(s.waiters), s.value > 0
  PROVE  /\ Sound(WakeNext(s))
         /\ WakeNext(s).waiters = s.waiters
         /\ WakeNext(s).value + WakeNext(s).woken = s.value + s.woken
<1>1. /\ s.value \in Nat /\ s.woken \in Nat /\ s.waiters \in Seq(Tasks)
      /\ Len(s.waiters) \in Nat
  BY DEF Semaphores
<1>2. CASE s.woken < Len(s.waiters)
  <2> DEFINE w == [value |-> s.value - 1, waiters |-> s.waiters, woken |-> s.woken + 1]
  <2>1. WakeNext(s) = w
    BY <1>2 DEF WakeNext
  <2>2. /\ w \in Semaphores
        /\ w.waiters = s.waiters
        /\ w.value = s.value - 1
        /\ w.woken = s.woken + 1
    BY <1>1 DEF Semaphores
  <2> HIDE DEF w
  <2>3. Sound(w)
    BY <1>1, <1>2, <2>2 DEF Sound
  <2>4. QED
    BY <1>1, <2>1, <2>2, <2>3
<1>3. CASE ~(s.woken < Len(s.waiters))
  <2>1. WakeNext(s) = s
    BY <1>3 DEF WakeNext
  <2>2. Sound(s)
    BY <1>3 DEF Sound
  <2>3. QED
    BY <2>1, <2>2
<1>4. QED
  BY <1>2, <1>3

\* A released slot goes to the next waiter or becomes free; the deque stays.
LEMMA ReleaseSound ==
  ASSUME NEW s \in Semaphores, s.woken <= Len(s.waiters)
  PROVE  /\ Sound(Release(s))
         /\ Release(s).waiters = s.waiters
         /\ Release(s).value + Release(s).woken = s.value + s.woken + 1
<1> DEFINE back == [s EXCEPT !.value = @ + 1]
<1>1. /\ back \in Semaphores
      /\ back.waiters = s.waiters
      /\ back.value = s.value + 1
      /\ back.woken = s.woken
      /\ s.value \in Nat /\ s.woken \in Nat
  BY DEF Semaphores
<1>2. Release(s) = WakeNext(back)
  BY DEF Release
<1> HIDE DEF back
<1>3. back.value > 0 /\ back.woken <= Len(back.waiters)
  BY <1>1
<1>4. /\ Sound(WakeNext(back))
      /\ WakeNext(back).waiters = back.waiters
      /\ WakeNext(back).value + WakeNext(back).woken = back.value + back.woken
  BY <1>1, <1>3, WakeNextSound
<1>5. /\ Sound(Release(s))
      /\ Release(s).waiters = s.waiters
  BY <1>1, <1>2, <1>4
<1>6. Release(s).value + Release(s).woken = s.value + s.woken + 1
  BY <1>1, <1>2, <1>4
<1>7. QED
  BY <1>5, <1>6

\* A resumed waiter takes the slot it was handed and leaves the deque.
LEMMA ResumeSound ==
  ASSUME NEW s \in Semaphores, s.woken > 0, s.woken <= Len(s.waiters)
  PROVE  /\ Sound(Resume(s))
         /\ Resume(s).waiters = Tail(s.waiters)
         /\ Resume(s).value + Resume(s).woken = s.value + s.woken - 1
<1> DEFINE left == [value |-> s.value, waiters |-> Tail(s.waiters), woken |-> s.woken - 1]
<1>1. /\ s.value \in Nat /\ s.woken \in Nat /\ s.waiters \in Seq(Tasks)
      /\ Len(s.waiters) \in Nat /\ Len(s.waiters) > 0
  BY DEF Semaphores
<1>2. /\ Tail(s.waiters) \in Seq(Tasks)
      /\ Len(Tail(s.waiters)) = Len(s.waiters) - 1
  BY <1>1
<1>3. /\ left \in Semaphores
      /\ left.waiters = Tail(s.waiters)
      /\ left.value = s.value
      /\ left.woken = s.woken - 1
  BY <1>1, <1>2 DEF Semaphores
<1>4. Resume(s) = IF left.value > 0 THEN WakeNext(left) ELSE left
  BY DEF Resume
<1> HIDE DEF left
<1>5. left.woken <= Len(left.waiters)
  BY <1>1, <1>2, <1>3
<1>6. CASE left.value > 0
  BY <1>1, <1>3, <1>4, <1>5, <1>6, WakeNextSound
<1>7. CASE ~(left.value > 0)
  BY <1>1, <1>3, <1>4, <1>5, <1>7 DEF Sound
<1>8. QED
  BY <1>6, <1>7

\* Taking a slot of an unlocked semaphore.
LEMMA AcquireSound ==
  ASSUME NEW s \in Semaphores, s.woken <= Len(s.waiters), ~Locked(s)
  PROVE  /\ Sound(Acquire(s))
         /\ s.waiters = <<>>
         /\ Acquire(s).waiters = <<>>
         /\ Acquire(s).value + Acquire(s).woken = s.value + s.woken - 1
  BY DEF Semaphores, Sound, Acquire, Locked

\* A run that returns at once leaves the semaphore's counts as they were.
LEMMA AcquireReleaseSound ==
  ASSUME NEW s \in Semaphores, s.woken <= Len(s.waiters), ~Locked(s)
  PROVE  /\ Sound(Release(Acquire(s)))
         /\ Release(Acquire(s)).waiters = s.waiters
         /\ Release(Acquire(s)).value + Release(Acquire(s)).woken = s.value + s.woken
<1> DEFINE a == Acquire(s)
           r == Release(a)
<1>1. /\ Sound(a) /\ a.waiters = s.waiters
      /\ a.value + a.woken = s.value + s.woken - 1
  BY AcquireSound
<1>2. a \in Semaphores /\ a.woken <= Len(a.waiters)
  BY <1>1 DEF Sound
<1>3. /\ Sound(r) /\ r.waiters = a.waiters
      /\ r.value + r.woken = a.value + a.woken + 1
  BY <1>2, ReleaseSound
<1> HIDE DEF a, r
<1>4. r.value + r.woken = s.value + s.woken
  BY <1>1, <1>2, <1>3 DEF Semaphores
<1>5. QED
  BY <1>1, <1>3, <1>4 DEF a, r

\* The same for a woken waiter, which leaves the deque as well.
LEMMA ResumeReleaseSound ==
  ASSUME NEW s \in Semaphores, s.woken > 0, s.woken <= Len(s.waiters)
  PROVE  /\ Sound(Release(Resume(s)))
         /\ Release(Resume(s)).waiters = Tail(s.waiters)
         /\ Release(Resume(s)).value + Release(Resume(s)).woken = s.value + s.woken
<1> DEFINE a == Resume(s)
           r == Release(a)
<1>1. /\ Sound(a) /\ a.waiters = Tail(s.waiters)
      /\ a.value + a.woken = s.value + s.woken - 1
  BY ResumeSound
<1>2. a \in Semaphores /\ a.woken <= Len(a.waiters)
  BY <1>1 DEF Sound
<1>3. /\ Sound(r) /\ r.waiters = a.waiters
      /\ r.value + r.woken = a.value + a.woken + 1
  BY <1>2, ReleaseSound
<1> HIDE DEF a, r
<1>4. r.value + r.woken = s.value + s.woken
  BY <1>1, <1>2, <1>3 DEF Semaphores
<1>5. QED
  BY <1>1, <1>3, <1>4 DEF a, r

\* Suspending on a locked semaphore.
LEMMA EnqueueSound ==
  ASSUME NEW s, Sound(s), Locked(s), NEW t \in Tasks
  PROVE  /\ Sound(Enqueue(s, t))
         /\ Enqueue(s, t).waiters = Append(s.waiters, t)
         /\ Enqueue(s, t).value = s.value
         /\ Enqueue(s, t).woken = s.woken
<1>1. Len(s.waiters) \in Nat /\ (s.waiters = <<>> => Len(s.waiters) = 0)
  BY DEF Sound, Semaphores
<1>2. s.waiters # <<>> => Len(s.waiters) > 0
  BY <1>1 DEF Sound, Semaphores
<1>3. QED
  BY <1>1, <1>2 DEF Semaphores, Sound, Enqueue, Locked

\* A task that is not in the deque joins it once.
LEMMA AppendOnce ==
  ASSUME NEW q \in Seq(Tasks), NEW t \in Tasks, Once(q), ~Holds(q, t)
  PROVE  /\ Once(Append(q, t))
         /\ \A u \in Tasks : Holds(Append(q, t), u) <=> Holds(q, u) \/ u = t
<1> DEFINE r == Append(q, t)
<1>1. /\ Len(r) = Len(q) + 1
      /\ \A i \in 1..Len(q) : r[i] = q[i]
      /\ r[Len(q) + 1] = t
      /\ Len(q) \in Nat
  OBVIOUS
<1> HIDE DEF r
<1>2. Once(r)
  BY <1>1 DEF Once, Holds
<1>3. ASSUME NEW u \in Tasks
      PROVE  Holds(r, u) <=> Holds(q, u) \/ u = t
  <2>1. ASSUME Holds(r, u) PROVE Holds(q, u) \/ u = t
    BY <1>1, <2>1 DEF Holds
  <2>2. ASSUME Holds(q, u) PROVE Holds(r, u)
    BY <1>1, <2>2 DEF Holds
  <2>3. ASSUME u = t PROVE Holds(r, u)
    BY <1>1, <2>3 DEF Holds
  <2>4. QED
    BY <2>1, <2>2, <2>3
<1>4. QED
  BY <1>2, <1>3 DEF r

\* The head of a deque without repetitions leaves it altogether.
LEMMA TailOnce ==
  ASSUME NEW q \in Seq(Tasks), q # <<>>, Once(q)
  PROVE  /\ Once(Tail(q))
         /\ \A u \in Tasks : Holds(Tail(q), u) <=> Holds(q, u) /\ u # Head(q)
         /\ Holds(q, Head(q))
<1> DEFINE r == Tail(q)
<1>1. /\ Len(q) \in Nat /\ Len(q) > 0
      /\ Len(r) = Len(q) - 1
      /\ \A i \in 1..Len(r) : r[i] = q[i + 1]
      /\ Head(q) = q[1]
  OBVIOUS
<1> HIDE DEF r
<1>2. Once(r)
  <2> SUFFICES ASSUME NEW i \in 1..Len(r), NEW j \in 1..Len(r), r[i] = r[j]
               PROVE  i = j
    BY DEF Once
  <2>1. i + 1 \in 1..Len(q) /\ j + 1 \in 1..Len(q) /\ q[i + 1] = q[j + 1]
    BY <1>1
  <2>2. i + 1 = j + 1
    BY <2>1 DEF Once
  <2>3. QED
    BY <2>2, <1>1
<1>3. ASSUME NEW u \in Tasks
      PROVE  Holds(r, u) <=> Holds(q, u) /\ u # Head(q)
  <2>1. ASSUME Holds(r, u) PROVE Holds(q, u) /\ u # Head(q)
    <3>1. PICK i \in 1..Len(r) : r[i] = u
      BY <2>1 DEF Holds
    <3>2. i + 1 \in 1..Len(q) /\ q[i + 1] = u /\ i + 1 # 1 /\ 1 \in 1..Len(q)
      BY <3>1, <1>1
    <3>3. q[1] # u
      BY <3>2 DEF Once
    <3>4. QED
      BY <3>2, <3>3, <1>1 DEF Holds
  <2>2. ASSUME Holds(q, u), u # Head(q) PROVE Holds(r, u)
    <3>1. PICK i \in 1..Len(q) : q[i] = u
      BY <2>2 DEF Holds
    <3>2. i # 1
      BY <3>1, <2>2, <1>1
    <3>3. i - 1 \in 1..Len(r) /\ r[i - 1] = q[(i - 1) + 1] /\ (i - 1) + 1 = i
      BY <3>1, <3>2, <1>1
    <3>4. QED
      BY <3>1, <3>3 DEF Holds
  <2>3. QED
    BY <2>1, <2>2
<1>4. Holds(q, Head(q))
  BY <1>1 DEF Holds
<1>5. QED
  BY <1>2, <1>3, <1>4 DEF r

-----------------------------------------------------------------------------
(* Runs that hold a slot *)

LEMMA BodiesFinite ==
  IsFiniteSet(Bodies) /\ Cardinality(Bodies) \in Nat
<1>1. Bodies \subseteq Tasks /\ IsFiniteSet(Tasks)
  BY SchedulerConstants DEF Bodies, SchedulerConstants
<1>2. QED
  BY <1>1, FS_Subset, FS_CardinalityType

\* A task that enters its run owns a slot that was free or handed to it.
LEMMA SlotTaken ==
  ASSUME Sound(sem), Sound(sem'), SlotsConserved,
         NEW t \in Tasks, t \notin Bodies, Bodies' = Bodies \cup {t},
         sem'.value + sem'.woken = sem.value + sem.woken - 1
  PROVE  SlotsConserved'
<1>1. Cardinality(Bodies') = Cardinality(Bodies) + 1 /\ Cardinality(Bodies) \in Nat
  BY BodiesFinite, FS_AddElement
<1>2. /\ sem.value \in Nat /\ sem.woken \in Nat
      /\ sem'.value \in Nat /\ sem'.woken \in Nat
  BY DEF Sound, Semaphores
<1> DEFINE before == Cardinality(Bodies)
           after == Cardinality(Bodies')
<1>3. after = before + 1 /\ before \in Nat
  BY <1>1
<1>4. sem.value + sem.woken + before = MaxConcurrent
  BY DEF SlotsConserved
<1> HIDE DEF before, after
<1>5. sem'.value + sem'.woken + after = MaxConcurrent
  BY <1>2, <1>3, <1>4, SchedulerConstants DEF SchedulerConstants
<1>6. QED
  BY <1>5 DEF SlotsConserved, after

\* A task that leaves its run gives its slot back.
LEMMA SlotFreed ==
  ASSUME Sound(sem), Sound(sem'), SlotsConserved,
         NEW t \in Tasks, t \in Bodies, Bodies' = Bodies \ {t},
         sem'.value + sem'.woken = sem.value + sem.woken + 1
  PROVE  SlotsConserved'
<1>1. Cardinality(Bodies') = Cardinality(Bodies) - 1 /\ Cardinality(Bodies) \in Nat
  BY BodiesFinite, FS_RemoveElement
<1>2. /\ sem.value \in Nat /\ sem.woken \in Nat
      /\ sem'.value \in Nat /\ sem'.woken \in Nat
  BY DEF Sound, Semaphores
<1> DEFINE before == Cardinality(Bodies)
           after == Cardinality(Bodies')
<1>3. after = before - 1 /\ before \in Nat
  BY <1>1
<1>4. sem.value + sem.woken + before = MaxConcurrent
  BY DEF SlotsConserved
<1> HIDE DEF before, after
<1>5. sem'.value + sem'.woken + after = MaxConcurrent
  BY <1>2, <1>3, <1>4, SchedulerConstants DEF SchedulerConstants
<1>6. QED
  BY <1>5 DEF SlotsConserved, after

-----------------------------------------------------------------------------
(* The invariant *)

LEMMA QueueExactMeans ==
  QueueExact <=> /\ sem.woken <= Len(sem.waiters)
                 /\ Once(sem.waiters)
                 /\ \A t \in Tasks : task[t].phase = "waiting" <=> Holds(sem.waiters, t)
  BY DEF QueueExact, Once, Holds

\* What the invariant says of the semaphore.
LEMMA SemSound ==
  ASSUME IInv PROVE Sound(sem) /\ sem \in Semaphores /\ sem.woken <= Len(sem.waiters)
  BY DEF IInv, TypeOK, QueueExact, NoLostWakeup, Sound, Semaphores

\* A step that touches neither the tasks, nor the reservations, nor the
\* semaphore keeps everything but the types of the rest.
LEMMA BystanderStep ==
  ASSUME IInv, UNCHANGED <<running, sem, task>>, TypeOK'
  PROVE  IInv'
  BY DEF IInv, NonOverlap, ReservationsExact, SlotsConserved, QueueExact, NoLostWakeup, Active, Bodies

LEMMA InitIInv == Init => IInv
<1> SUFFICES ASSUME Init PROVE IInv
  OBVIOUS
<1>1. sem = [value |-> MaxConcurrent, waiters |-> <<>>, woken |-> 0]
  BY DEF Init, Fresh
<1>2. TypeOK
  <2>1. sem \in Semaphores
    BY <1>1, SchedulerConstants DEF Semaphores, SchedulerConstants
  <2>2. Idle \in [phase : Phases, name : Names \cup {None}]
    BY DEF Idle, Phases
  <2>3. QED
    BY <2>1, <2>2 DEF Init, TypeOK, Semaphores
<1>3. Active = {} /\ Bodies = {}
  BY DEF Init, Idle, Active, Bodies
<1>4. NonOverlap /\ ReservationsExact
  BY <1>3 DEF NonOverlap, ReservationsExact, Init
<1>5. SlotsConserved
  BY <1>1, <1>3, FS_EmptySet, SchedulerConstants DEF SlotsConserved, SchedulerConstants
<1>6. QueueExact /\ NoLostWakeup
  BY <1>1 DEF QueueExact, NoLostWakeup, Init, Idle
<1>7. QED
  BY <1>2, <1>4, <1>5, <1>6 DEF IInv

-----------------------------------------------------------------------------
(* Reservations: the three ways a task moves *)

TaskType == [phase : Phases, name : Names \cup {None}]

\* An idle task takes a name nobody has reserved.
LEMMA TaskJoins ==
  ASSUME TypeOK, NonOverlap, ReservationsExact,
         NEW n \in Names, NEW t \in Tasks, NEW p \in Phases \ {"idle"},
         task[t].phase = "idle", n \notin running,
         running' = running \cup {n},
         task' = [task EXCEPT ![t] = [phase |-> p, name |-> n]]
  PROVE  /\ task' \in [Tasks -> TaskType] /\ running' \subseteq Names
         /\ NonOverlap' /\ ReservationsExact'
<1>1. task' \in [Tasks -> TaskType] /\ running' \subseteq Names
  BY DEF TypeOK, TaskType
<1>2. /\ task'[t] = [phase |-> p, name |-> n]
      /\ \A u \in Tasks : u # t => task'[u] = task[u]
  BY DEF TypeOK
<1>3. Active' = Active \cup {t}
  BY <1>2 DEF Active
<1>4. \A u \in Active : task[u].name # n /\ u # t
  BY DEF ReservationsExact, Active
<1>5. NonOverlap'
  BY <1>2, <1>3, <1>4 DEF NonOverlap, Active
<1>6. ReservationsExact'
  BY <1>2, <1>3, <1>4 DEF ReservationsExact, Active
<1>7. QED
  BY <1>1, <1>5, <1>6

\* A task in flight goes on under the same name.
LEMMA TaskMoves ==
  ASSUME TypeOK, NonOverlap, ReservationsExact,
         NEW t \in Tasks, NEW p \in Phases \ {"idle"},
         task[t].phase # "idle", running' = running,
         task' = [task EXCEPT ![t].phase = p]
  PROVE  /\ task' \in [Tasks -> TaskType] /\ running' \subseteq Names
         /\ NonOverlap' /\ ReservationsExact'
<1>1. task' \in [Tasks -> TaskType] /\ running' \subseteq Names
  BY DEF TypeOK, TaskType
<1>2. /\ task'[t].phase = p
      /\ \A u \in Tasks : task'[u].name = task[u].name
      /\ \A u \in Tasks : u # t => task'[u] = task[u]
  BY DEF TypeOK
<1>3. Active' = Active
  BY <1>2 DEF Active
<1>4. NonOverlap' /\ ReservationsExact'
  BY <1>2, <1>3 DEF NonOverlap, ReservationsExact, Active
<1>5. QED
  BY <1>1, <1>4

\* A task in flight ends and frees its name.
LEMMA TaskLeaves ==
  ASSUME TypeOK, NonOverlap, ReservationsExact,
         NEW t \in Tasks, task[t].phase # "idle",
         running' = running \ {task[t].name},
         task' = [task EXCEPT ![t] = Idle]
  PROVE  /\ task' \in [Tasks -> TaskType] /\ running' \subseteq Names
         /\ NonOverlap' /\ ReservationsExact'
<1>1. Idle \in TaskType
  BY DEF Idle, TaskType, Phases
<1>2. task' \in [Tasks -> TaskType] /\ running' \subseteq Names
  BY <1>1 DEF TypeOK, TaskType
<1>3. /\ task'[t] = Idle
      /\ \A u \in Tasks : u # t => task'[u] = task[u]
  BY DEF TypeOK
<1>4. Active' = Active \ {t} /\ t \in Active
  BY <1>3 DEF Active, Idle
<1>5. NonOverlap'
  BY <1>3, <1>4 DEF NonOverlap, Active
<1>6. ReservationsExact'
  BY <1>3, <1>4 DEF ReservationsExact, NonOverlap, Active
<1>7. QED
  BY <1>2, <1>5, <1>6

-----------------------------------------------------------------------------
(* One lemma per action that moves a task *)

\* How the parts of IInv' are put together.
LEMMA Assemble ==
  ASSUME Sound(sem'), ticking' \in BOOLEAN, pending' \subseteq Names,
         task' \in [Tasks -> TaskType], running' \subseteq Names,
         NonOverlap', ReservationsExact', SlotsConserved',
         Once(sem'.waiters),
         \A u \in Tasks : task'[u].phase = "waiting" <=> Holds(sem'.waiters, u)
  PROVE  IInv'
<1>1. TypeOK' /\ NoLostWakeup'
  BY DEF TypeOK, NoLostWakeup, Sound, Semaphores, TaskType
<1>2. QueueExact'
  BY DEF QueueExact, Once, Holds, Sound
<1>3. QED
  BY <1>1, <1>2 DEF IInv

LEMMA LaunchRunsStep ==
  ASSUME IInv, NEW n \in Names, NEW t \in Tasks, LaunchRuns(n, t)
  PROVE  IInv'
<1>1. TypeOK /\ NonOverlap /\ ReservationsExact /\ SlotsConserved /\ QueueExact
  BY DEF IInv
<1>2. /\ task[t].phase = "idle" /\ n \notin running
      /\ running' = running \cup {n}
      /\ task' = [task EXCEPT ![t] = [phase |-> "body", name |-> n]]
      /\ ~Locked(sem) /\ sem' = Acquire(sem)
      /\ ticking' \in BOOLEAN /\ pending' \subseteq Names
  BY <1>1 DEF LaunchRuns, Reservable, Reserve, TypeOK
<1>3. /\ task' \in [Tasks -> TaskType] /\ running' \subseteq Names
      /\ NonOverlap' /\ ReservationsExact'
  <2>1. "body" \in Phases \ {"idle"}
    BY DEF Phases
  <2>2. QED
    BY <1>1, <1>2, <2>1, TaskJoins
<1>4. /\ task'[t].phase = "body"
      /\ \A u \in Tasks : u # t => task'[u] = task[u]
  BY <1>1, <1>2 DEF TypeOK
<1>5. /\ Sound(sem') /\ sem'.waiters = sem.waiters
      /\ sem'.value + sem'.woken = sem.value + sem.woken - 1
  BY <1>2, SemSound, AcquireSound
<1>6. SlotsConserved'
  <2>1. t \notin Bodies /\ Bodies' = Bodies \cup {t}
    BY <1>2, <1>4 DEF Bodies
  <2>2. QED
    BY <1>1, <1>5, <2>1, SlotTaken, SemSound
<1>7. /\ Once(sem'.waiters)
      /\ \A u \in Tasks : task'[u].phase = "waiting" <=> Holds(sem'.waiters, u)
  BY <1>1, <1>2, <1>4, <1>5, QueueExactMeans
<1>8. QED
  BY <1>2, <1>3, <1>5, <1>6, <1>7, Assemble

LEMMA RunNowStep ==
  ASSUME IInv, NEW n \in Names, NEW t \in Tasks, RunNow(n, t)
  PROVE  IInv'
<1>1. TypeOK /\ NonOverlap /\ ReservationsExact /\ SlotsConserved /\ QueueExact
  BY DEF IInv
<1>2. /\ task[t].phase = "idle" /\ n \notin running
      /\ running' = running \cup {n}
      /\ task' = [task EXCEPT ![t] = [phase |-> "created", name |-> n]]
      /\ sem' = sem /\ ticking' \in BOOLEAN /\ pending' \subseteq Names
  BY <1>1 DEF RunNow, Reservable, Reserve, TypeOK
<1>3. /\ task' \in [Tasks -> TaskType] /\ running' \subseteq Names
      /\ NonOverlap' /\ ReservationsExact'
  <2>1. "created" \in Phases \ {"idle"}
    BY DEF Phases
  <2>2. QED
    BY <1>1, <1>2, <2>1, TaskJoins
<1>4. /\ task'[t].phase = "created"
      /\ \A u \in Tasks : u # t => task'[u] = task[u]
  BY <1>1, <1>2 DEF TypeOK
<1>5. SlotsConserved'
  <2>1. Bodies' = Bodies
    BY <1>2, <1>4 DEF Bodies
  <2>2. QED
    BY <1>1, <1>2, <2>1 DEF SlotsConserved
<1>6. /\ Once(sem'.waiters)
      /\ \A u \in Tasks : task'[u].phase = "waiting" <=> Holds(sem'.waiters, u)
  BY <1>1, <1>2, <1>4, QueueExactMeans
<1>7. QED
  BY <1>2, <1>3, <1>5, <1>6, Assemble, SemSound

LEMMA ReservedQueuesStep ==
  ASSUME IInv, NEW t \in Tasks, ReservedQueues(t)
  PROVE  IInv'
<1>1. TypeOK /\ NonOverlap /\ ReservationsExact /\ SlotsConserved /\ QueueExact
  BY DEF IInv
<1>2. /\ task[t].phase = "created" /\ running' = running
      /\ task' = [task EXCEPT ![t].phase = "waiting"]
      /\ Locked(sem) /\ sem' = Enqueue(sem, t)
      /\ ticking' \in BOOLEAN /\ pending' \subseteq Names
  BY <1>1 DEF ReservedQueues, FirstStep, TypeOK
<1>3. /\ task' \in [Tasks -> TaskType] /\ running' \subseteq Names
      /\ NonOverlap' /\ ReservationsExact'
  <2>1. "waiting" \in Phases \ {"idle"} /\ "created" # "idle"
    BY DEF Phases
  <2>2. QED
    BY <1>1, <1>2, <2>1, TaskMoves
<1>4. /\ task'[t].phase = "waiting"
      /\ \A u \in Tasks : u # t => task'[u] = task[u]
  BY <1>1, <1>2 DEF TypeOK
<1>5. /\ Sound(sem') /\ sem'.waiters = Append(sem.waiters, t)
      /\ sem'.value = sem.value /\ sem'.woken = sem.woken
  BY <1>2, SemSound, EnqueueSound
<1>6. SlotsConserved'
  <2>1. Bodies' = Bodies
    BY <1>2, <1>4 DEF Bodies
  <2>2. QED
    BY <1>1, <1>5, <2>1 DEF SlotsConserved
<1>7. /\ Once(sem'.waiters)
      /\ \A u \in Tasks : task'[u].phase = "waiting" <=> Holds(sem'.waiters, u)
  <2>1. /\ sem.waiters \in Seq(Tasks) /\ Once(sem.waiters)
        /\ \A u \in Tasks : task[u].phase = "waiting" <=> Holds(sem.waiters, u)
    BY <1>1, QueueExactMeans, SemSound DEF Semaphores
  <2>2. ~Holds(sem.waiters, t)
    BY <2>1, <1>2
  <2>3. /\ Once(sem'.waiters)
        /\ \A u \in Tasks : Holds(sem'.waiters, u) <=> Holds(sem.waiters, u) \/ u = t
    BY <2>1, <2>2, <1>5, AppendOnce
  <2>4. QED
    BY <2>1, <2>3, <1>4
<1>8. QED
  BY <1>2, <1>3, <1>5, <1>6, <1>7, Assemble

LEMMA ReservedRunsStep ==
  ASSUME IInv, NEW t \in Tasks, ReservedRuns(t)
  PROVE  IInv'
<1>1. TypeOK /\ NonOverlap /\ ReservationsExact /\ SlotsConserved /\ QueueExact
  BY DEF IInv
<1>2. /\ task[t].phase = "created" /\ running' = running
      /\ task' = [task EXCEPT ![t].phase = "body"]
      /\ ~Locked(sem) /\ sem' = Acquire(sem)
      /\ ticking' \in BOOLEAN /\ pending' \subseteq Names
  BY <1>1 DEF ReservedRuns, FirstStep, TypeOK
<1>3. /\ task' \in [Tasks -> TaskType] /\ running' \subseteq Names
      /\ NonOverlap' /\ ReservationsExact'
  <2>1. "body" \in Phases \ {"idle"} /\ "created" # "idle"
    BY DEF Phases
  <2>2. QED
    BY <1>1, <1>2, <2>1, TaskMoves
<1>4. /\ task'[t].phase = "body"
      /\ \A u \in Tasks : u # t => task'[u] = task[u]
  BY <1>1, <1>2 DEF TypeOK
<1>5. /\ Sound(sem') /\ sem'.waiters = sem.waiters
      /\ sem'.value + sem'.woken = sem.value + sem.woken - 1
  BY <1>2, SemSound, AcquireSound
<1>6. SlotsConserved'
  <2>1. t \notin Bodies /\ Bodies' = Bodies \cup {t}
    BY <1>2, <1>4 DEF Bodies
  <2>2. QED
    BY <1>1, <1>5, <2>1, SlotTaken, SemSound
<1>7. /\ Once(sem'.waiters)
      /\ \A u \in Tasks : task'[u].phase = "waiting" <=> Holds(sem'.waiters, u)
  BY <1>1, <1>2, <1>4, <1>5, QueueExactMeans
<1>8. QED
  BY <1>2, <1>3, <1>5, <1>6, <1>7, Assemble

LEMMA ReservedReturnsStep ==
  ASSUME IInv, NEW t \in Tasks, ReservedReturns(t)
  PROVE  IInv'
<1>1. TypeOK /\ NonOverlap /\ ReservationsExact /\ SlotsConserved /\ QueueExact
  BY DEF IInv
<1>2. /\ task[t].phase = "created" /\ running' = running \ {task[t].name}
      /\ task' = [task EXCEPT ![t] = Idle]
      /\ ~Locked(sem) /\ sem' = Release(Acquire(sem))
      /\ ticking' \in BOOLEAN /\ pending' \subseteq Names
  BY <1>1 DEF ReservedReturns, FirstStep, Unreserve, TypeOK
<1>3. /\ task' \in [Tasks -> TaskType] /\ running' \subseteq Names
      /\ NonOverlap' /\ ReservationsExact'
  BY <1>1, <1>2, TaskLeaves
<1>4. /\ task'[t].phase = "idle"
      /\ \A u \in Tasks : u # t => task'[u] = task[u]
  BY <1>1, <1>2 DEF TypeOK, Idle
<1>5. /\ Sound(sem') /\ sem'.waiters = sem.waiters
      /\ sem'.value + sem'.woken = sem.value + sem.woken
  BY <1>2, AcquireReleaseSound, SemSound
<1>6. SlotsConserved'
  <2>1. Bodies' = Bodies
    BY <1>2, <1>4 DEF Bodies
  <2>2. QED
    BY <1>1, <1>5, <2>1 DEF SlotsConserved
<1>7. /\ Once(sem'.waiters)
      /\ \A u \in Tasks : task'[u].phase = "waiting" <=> Holds(sem'.waiters, u)
  BY <1>1, <1>2, <1>4, <1>5, QueueExactMeans
<1>8. QED
  BY <1>2, <1>3, <1>5, <1>6, <1>7, Assemble

\* A woken waiter is the head of the deque, and a waiting task.
LEMMA HeadWaits ==
  ASSUME IInv, NEW t \in Tasks, HasSlot(t)
  PROVE  /\ task[t].phase = "waiting"
         /\ \A u \in Tasks :
              (task[u].phase = "waiting" /\ u # t) <=> Holds(Tail(sem.waiters), u)
         /\ Once(Tail(sem.waiters))
<1>1. /\ sem.waiters \in Seq(Tasks) /\ sem.waiters # <<>> /\ t = Head(sem.waiters)
  BY SemSound DEF HasSlot, Semaphores, Sound
<1>2. /\ Once(sem.waiters)
      /\ \A u \in Tasks : task[u].phase = "waiting" <=> Holds(sem.waiters, u)
  BY QueueExactMeans DEF IInv
<1>3. QED
  BY <1>1, <1>2, TailOnce

LEMMA WaiterRunsStep ==
  ASSUME IInv, NEW t \in Tasks, WaiterRuns(t)
  PROVE  IInv'
<1>1. TypeOK /\ NonOverlap /\ ReservationsExact /\ SlotsConserved /\ QueueExact
  BY DEF IInv
<1>2. /\ HasSlot(t) /\ sem.woken > 0 /\ running' = running
      /\ task' = [task EXCEPT ![t].phase = "body"]
      /\ sem' = Resume(sem)
      /\ ticking' \in BOOLEAN /\ pending' \subseteq Names
  BY <1>1 DEF WaiterRuns, HasSlot, TypeOK
<1>3. /\ task[t].phase = "waiting"
      /\ \A u \in Tasks :
           (task[u].phase = "waiting" /\ u # t) <=> Holds(Tail(sem.waiters), u)
      /\ Once(Tail(sem.waiters))
  BY <1>2, HeadWaits
<1>4. /\ task' \in [Tasks -> TaskType] /\ running' \subseteq Names
      /\ NonOverlap' /\ ReservationsExact'
  <2>1. "body" \in Phases \ {"idle"} /\ task[t].phase # "idle"
    BY <1>3 DEF Phases
  <2>2. QED
    BY <1>1, <1>2, <2>1, TaskMoves
<1>5. /\ task'[t].phase = "body"
      /\ \A u \in Tasks : u # t => task'[u] = task[u]
  BY <1>1, <1>2 DEF TypeOK
<1>6. /\ Sound(sem') /\ sem'.waiters = Tail(sem.waiters)
      /\ sem'.value + sem'.woken = sem.value + sem.woken - 1
  BY <1>2, SemSound, ResumeSound
<1>7. SlotsConserved'
  <2>1. t \notin Bodies /\ Bodies' = Bodies \cup {t}
    BY <1>3, <1>5 DEF Bodies
  <2>2. QED
    BY <1>1, <1>6, <2>1, SlotTaken, SemSound
<1>8. \A u \in Tasks : task'[u].phase = "waiting" <=> Holds(sem'.waiters, u)
  BY <1>3, <1>5, <1>6
<1>9. QED
  BY <1>2, <1>3, <1>4, <1>6, <1>7, <1>8, Assemble

LEMMA WaiterReturnsStep ==
  ASSUME IInv, NEW t \in Tasks, WaiterReturns(t)
  PROVE  IInv'
<1>1. TypeOK /\ NonOverlap /\ ReservationsExact /\ SlotsConserved /\ QueueExact
  BY DEF IInv
<1>2. /\ HasSlot(t) /\ sem.woken > 0 /\ running' = running \ {task[t].name}
      /\ task' = [task EXCEPT ![t] = Idle]
      /\ sem' = Release(Resume(sem))
      /\ ticking' \in BOOLEAN /\ pending' \subseteq Names
  BY <1>1 DEF WaiterReturns, HasSlot, Unreserve, TypeOK
<1>3. /\ task[t].phase = "waiting"
      /\ \A u \in Tasks :
           (task[u].phase = "waiting" /\ u # t) <=> Holds(Tail(sem.waiters), u)
      /\ Once(Tail(sem.waiters))
  BY <1>2, HeadWaits
<1>4. /\ task' \in [Tasks -> TaskType] /\ running' \subseteq Names
      /\ NonOverlap' /\ ReservationsExact'
  BY <1>1, <1>2, <1>3, TaskLeaves
<1>5. /\ task'[t].phase = "idle"
      /\ \A u \in Tasks : u # t => task'[u] = task[u]
  BY <1>1, <1>2 DEF TypeOK, Idle
<1>6. /\ Sound(sem') /\ sem'.waiters = Tail(sem.waiters)
      /\ sem'.value + sem'.woken = sem.value + sem.woken
  BY <1>2, SemSound, ResumeReleaseSound
<1>7. SlotsConserved'
  <2>1. Bodies' = Bodies
    BY <1>3, <1>5 DEF Bodies
  <2>2. QED
    BY <1>1, <1>6, <2>1 DEF SlotsConserved
<1>8. \A u \in Tasks : task'[u].phase = "waiting" <=> Holds(sem'.waiters, u)
  BY <1>3, <1>5, <1>6
<1>9. QED
  BY <1>2, <1>3, <1>4, <1>6, <1>7, <1>8, Assemble

LEMMA FinishStep ==
  ASSUME IInv, NEW t \in Tasks, Finish(t)
  PROVE  IInv'
<1>1. TypeOK /\ NonOverlap /\ ReservationsExact /\ SlotsConserved /\ QueueExact
  BY DEF IInv
<1>2. /\ task[t].phase = "body" /\ running' = running \ {task[t].name}
      /\ task' = [task EXCEPT ![t] = Idle]
      /\ sem' = Release(sem)
      /\ ticking' \in BOOLEAN /\ pending' \subseteq Names
  BY <1>1 DEF Finish, Unreserve, TypeOK
<1>3. /\ task' \in [Tasks -> TaskType] /\ running' \subseteq Names
      /\ NonOverlap' /\ ReservationsExact'
  BY <1>1, <1>2, TaskLeaves
<1>4. /\ task'[t].phase = "idle"
      /\ \A u \in Tasks : u # t => task'[u] = task[u]
  BY <1>1, <1>2 DEF TypeOK, Idle
<1>5. /\ Sound(sem') /\ sem'.waiters = sem.waiters
      /\ sem'.value + sem'.woken = sem.value + sem.woken + 1
  BY <1>2, SemSound, ReleaseSound
<1>6. SlotsConserved'
  <2>1. t \in Bodies /\ Bodies' = Bodies \ {t}
    BY <1>2, <1>4 DEF Bodies
  <2>2. QED
    BY <1>1, <1>5, <2>1, SlotFreed, SemSound
<1>7. /\ Once(sem'.waiters)
      /\ \A u \in Tasks : task'[u].phase = "waiting" <=> Holds(sem'.waiters, u)
  BY <1>1, <1>2, <1>4, <1>5, QueueExactMeans
<1>8. QED
  BY <1>2, <1>3, <1>5, <1>6, <1>7, Assemble

LEMMA LaunchReturnsStep ==
  ASSUME IInv, NEW n \in Names, LaunchReturns(n)
  PROVE  IInv'
<1>1. TypeOK /\ NonOverlap /\ ReservationsExact /\ SlotsConserved /\ QueueExact
  BY DEF IInv
<1>2. /\ ~Locked(sem) /\ sem' = Release(Acquire(sem)) /\ task' = task
      /\ running' = running
      /\ ticking' \in BOOLEAN /\ pending' \subseteq Names
  BY <1>1 DEF LaunchReturns, Reservable, Reserve, TypeOK
<1>3. /\ Sound(sem') /\ sem'.waiters = sem.waiters
      /\ sem'.value + sem'.woken = sem.value + sem.woken
  BY <1>2, AcquireReleaseSound, SemSound
<1>4. /\ task' \in [Tasks -> TaskType] /\ running' \subseteq Names
      /\ NonOverlap' /\ ReservationsExact'
  BY <1>1, <1>2 DEF TypeOK, TaskType, NonOverlap, ReservationsExact, Active
<1>5. SlotsConserved'
  <2>1. Bodies' = Bodies
    BY <1>2 DEF Bodies
  <2>2. QED
    BY <1>1, <1>3, <2>1 DEF SlotsConserved
<1>6. /\ Once(sem'.waiters)
      /\ \A u \in Tasks : task'[u].phase = "waiting" <=> Holds(sem'.waiters, u)
  BY <1>1, <1>2, <1>3, QueueExactMeans
<1>7. QED
  BY <1>2, <1>3, <1>4, <1>5, <1>6, Assemble

-----------------------------------------------------------------------------
(* The theorems *)

LEMMA NextIInv == IInv /\ [Next]_vars => IInv'
<1> SUFFICES ASSUME IInv, [Next]_vars PROVE IInv'
  OBVIOUS
<1> USE DEF IInv, TypeOK
<1>1. CASE Start
  BY <1>1, BystanderStep DEF Start
<1>2. CASE Stop
  BY <1>2, BystanderStep DEF Stop
<1>3. ASSUME NEW due \in SUBSET Names, Tick(due) PROVE IInv'
  BY <1>3, BystanderStep DEF Tick
<1>4. ASSUME NEW n \in Names, LaunchSkips(n) PROVE IInv'
  BY <1>4, BystanderStep DEF LaunchSkips
<1>5. CASE Crash
  <2>1. Init'
    BY <1>5 DEF Crash, Init
  <2>2. QED
    BY <2>1, InitIInv, PTL
<1>6. CASE UNCHANGED vars
  BY <1>6, BystanderStep DEF vars
<1>7. ASSUME NEW n \in Names,
             LaunchReturns(n) \/ \E t \in Tasks : LaunchRuns(n, t) \/ RunNow(n, t)
      PROVE  IInv'
  BY <1>7, LaunchReturnsStep, LaunchRunsStep, RunNowStep
<1>8. ASSUME NEW t \in Tasks, FirstSteps(t) \/ Wakes(t) \/ Finish(t) PROVE IInv'
  BY <1>8, ReservedQueuesStep, ReservedRunsStep, ReservedReturnsStep,
     WaiterRunsStep, WaiterReturnsStep, FinishStep
     DEF FirstSteps, Wakes
<1>9. QED
  BY <1>1, <1>2, <1>3, <1>4, <1>5, <1>6, <1>7, <1>8 DEF Next

\* The scheduler keeps its invariant: types, one task per schedule, exact
\* reservations, no slot lost or invented, an exact queue, no lost wake-up.
THEOREM SchedulerInvariant == Spec => []IInv
  BY InitIInv, NextIInv, PTL DEF Spec

LEMMA NextTasksInOrder == IInv /\ TasksInOrder /\ [Next]_vars => TasksInOrder'
<1> SUFFICES ASSUME IInv, TasksInOrder, [Next]_vars PROVE TasksInOrder'
  OBVIOUS
<1>1. /\ task \in [Tasks -> TaskType] /\ None \notin Names /\ pending \subseteq Names
      /\ running = {task[t].name : t \in Active}
  BY SchedulerConstants DEF SchedulerConstants, IInv, TypeOK, TaskType, ReservationsExact
<1>2. \A t \in Tasks : task[t].phase = "idle" => task[t] = Idle
  BY DEF TasksInOrder
<1>3. \A n \in pending, t \in Tasks : task[t].name = n => task[t].phase = "created"
  BY DEF TasksInOrder
<1>4. CASE Start \/ Stop \/ UNCHANGED vars
  BY <1>4 DEF Start, Stop, vars, TasksInOrder
<1>5. ASSUME NEW due \in SUBSET Names, Tick(due) PROVE TasksInOrder'
  <2>1. pending' = due \ running /\ task' = task
    BY <1>5 DEF Tick
  <2>2. \A n \in pending', t \in Tasks : task[t].name # n
    BY <1>1, <1>2, <2>1 DEF Active, Idle
  <2>3. QED
    BY <1>2, <2>1, <2>2 DEF TasksInOrder
<1>6. ASSUME NEW n \in Names, LaunchSkips(n) \/ LaunchReturns(n) PROVE TasksInOrder'
  BY <1>2, <1>3, <1>6 DEF LaunchSkips, LaunchReturns, TasksInOrder
<1>7. ASSUME NEW n \in Names, NEW t \in Tasks, LaunchRuns(n, t) PROVE TasksInOrder'
  BY <1>1, <1>2, <1>3, <1>7 DEF LaunchRuns, TasksInOrder
<1>8. ASSUME NEW n \in Names, NEW t \in Tasks, RunNow(n, t) PROVE TasksInOrder'
  BY <1>1, <1>2, <1>3, <1>8 DEF RunNow, TasksInOrder
<1>9. ASSUME NEW t \in Tasks, FirstSteps(t) PROVE TasksInOrder'
  <2>1. task[t].name \notin pending /\ pending' = pending
    BY <1>9 DEF FirstSteps, ReservedQueues, ReservedRuns, ReservedReturns, FirstStep
  <2>2. \/ \E p \in {"waiting", "body"} : task' = [task EXCEPT ![t].phase = p]
        \/ task' = [task EXCEPT ![t] = Idle]
    BY <1>9 DEF FirstSteps, ReservedQueues, ReservedRuns, ReservedReturns
  <2>3. QED
    BY <1>1, <1>2, <1>3, <2>1, <2>2 DEF TasksInOrder, Idle, TaskType
<1>10. ASSUME NEW t \in Tasks, Wakes(t) PROVE TasksInOrder'
  <2>1. task[t].phase = "waiting" /\ pending' = pending
    BY <1>10, HeadWaits DEF Wakes, WaiterRuns, WaiterReturns, HasSlot
  <2>2. \/ task' = [task EXCEPT ![t].phase = "body"]
        \/ task' = [task EXCEPT ![t] = Idle]
    BY <1>10 DEF Wakes, WaiterRuns, WaiterReturns
  <2>3. QED
    BY <1>1, <1>2, <1>3, <2>1, <2>2 DEF TasksInOrder, Idle, TaskType
<1>11. ASSUME NEW t \in Tasks, Finish(t) PROVE TasksInOrder'
  BY <1>1, <1>2, <1>3, <1>11 DEF Finish, TasksInOrder, Idle, TaskType
<1>12. CASE Crash
  BY <1>12 DEF Crash, TasksInOrder
<1>13. QED
  BY <1>4, <1>5, <1>6, <1>7, <1>8, <1>9, <1>10, <1>11, <1>12 DEF Next

\* Launches created by a tick run before anything a run-now of the same name
\* created later.
THEOREM LaunchesComeFirst == Spec => []TasksInOrder
<1>1. Init => TasksInOrder
  BY DEF Init, TasksInOrder
<1>2. QED
  BY <1>1, SchedulerInvariant, NextTasksInOrder, PTL DEF Spec

\* Every variable of the scheduler keeps its type.
THEOREM SchedulerTypes == Spec => []TypeOK
<1>1. IInv => TypeOK
  BY DEF IInv
<1>2. QED
  BY <1>1, SchedulerInvariant, PTL

\* No schedule is ever in flight twice, by ticks, run-now or both.
THEOREM SchedulesNeverOverlap == Spec => []NonOverlap
<1>1. IInv => NonOverlap
  BY DEF IInv
<1>2. QED
  BY <1>1, SchedulerInvariant, PTL

\* _running never leaks a name and never drops one early.
THEOREM ReservationsStayExact == Spec => []ReservationsExact
<1>1. IInv => ReservationsExact
  BY DEF IInv
<1>2. QED
  BY <1>1, SchedulerInvariant, PTL

\* At most _MAX_CONCURRENT scheduled backups run at once.
THEOREM ConcurrencyCapHolds == Spec => []AtMostMaxConcurrent
<1>1. IInv => AtMostMaxConcurrent
  <2> SUFFICES ASSUME IInv PROVE AtMostMaxConcurrent
    OBVIOUS
  <2> DEFINE c == Cardinality(Bodies)
  <2>1. sem.value \in Nat /\ sem.woken \in Nat
    BY SemSound DEF Semaphores
  <2>2. sem.value + sem.woken + c = MaxConcurrent
    BY DEF IInv, SlotsConserved
  <2>3. c \in Nat
    BY BodiesFinite
  <2> HIDE DEF c
  <2>4. c <= MaxConcurrent
    BY <2>1, <2>2, <2>3, SchedulerConstants DEF SchedulerConstants
  <2>5. QED
    BY <2>4 DEF AtMostMaxConcurrent, c
<1>2. QED
  BY <1>1, SchedulerInvariant, PTL

-----------------------------------------------------------------------------
(* Scheduler implements RunSlots: whatever the reservations, the pool of   *)
(* tasks and the semaphore do, a schedule is free, queued or running, and  *)
(* at most MaxConcurrent run.                                              *)

SlotMap == [n \in Names |-> SlotOf(n)]

\* Under the invariant a schedule's slot is what its one task is doing.
LEMMA SlotMeans ==
  ASSUME IInv, NEW n \in Names
  PROVE  /\ n \notin running => SlotOf(n) = "free"
         /\ \A t \in Active : task[t].name = n =>
              SlotOf(n) = IF task[t].phase = "body" THEN "running" ELSE "queued"
<1>1. NonOverlap /\ ReservationsExact /\ Bodies \subseteq Active
  BY DEF IInv, Bodies, Active
<1>2. ASSUME n \notin running PROVE SlotOf(n) = "free"
  BY <1>1, <1>2 DEF SlotOf, ReservationsExact
<1>3. ASSUME NEW t \in Active, task[t].name = n
      PROVE  SlotOf(n) = IF task[t].phase = "body" THEN "running" ELSE "queued"
  <2>1. n \in running
    BY <1>1, <1>3 DEF ReservationsExact
  <2>2. (\E u \in Bodies : task[u].name = n) <=> task[t].phase = "body"
    BY <1>1, <1>3 DEF NonOverlap, Bodies, Active
  <2>3. QED
    BY <2>1, <2>2 DEF SlotOf
<1>4. QED
  BY <1>2, <1>3

\* A step of one task, for one name, leaves the other schedules' slots alone.
LEMMA OtherSlots ==
  ASSUME NEW t \in Tasks, NEW n \in Names,
         \A u \in Tasks : u # t => task'[u] = task[u],
         task[t].phase = "idle" \/ task[t].name = n,
         task'[t].phase = "idle" \/ task'[t].name = n,
         running' \ {n} = running \ {n}
  PROVE  \A m \in Names : m # n => SlotOf(m)' = SlotOf(m)
  BY DEF SlotOf, Bodies

\* Hence the abstract variable changes at that name only.
LEMMA OneSlotChanges ==
  ASSUME NEW n \in Names, \A m \in Names : m # n => SlotOf(m)' = SlotOf(m)
  PROVE  SlotMap' = [SlotMap EXCEPT ![n] = SlotOf(n)']
  BY DEF SlotMap

\* A run may begin while a slot is free or handed over.
LEMMA RoomForOneMore ==
  ASSUME IInv, sem.value > 0 \/ sem.woken > 0
  PROVE  Cardinality({n \in Names : SlotMap[n] = "running"}) < MaxConcurrent
<1> DEFINE R == {n \in Names : SlotMap[n] = "running"}
           named == [t \in Bodies |-> task[t].name]
           I == {named[t] : t \in Bodies}
<1>1. \A n \in R : \E t \in Bodies : task[t].name = n
  BY DEF SlotMap, SlotOf
<1>2. R \subseteq I
  BY <1>1
<1>3. IsFiniteSet(I) /\ Cardinality(I) <= Cardinality(Bodies)
  <2>1. named \in Surjection(Bodies, I)
    BY DEF Surjection
  <2>2. QED
    BY <2>1, BodiesFinite, FS_Surjection
<1>4. Cardinality(R) <= Cardinality(I) /\ Cardinality(I) \in Nat /\ Cardinality(R) \in Nat
  BY <1>2, <1>3, FS_Subset, FS_CardinalityType
<1> DEFINE r == Cardinality(R)
           i == Cardinality(I)
           b == Cardinality(Bodies)
<1>5. r <= i /\ i <= b /\ r \in Nat /\ i \in Nat /\ b \in Nat
  BY <1>3, <1>4, BodiesFinite
<1>6. sem.value + sem.woken + b = MaxConcurrent /\ sem.value \in Nat /\ sem.woken \in Nat
  BY SemSound DEF IInv, SlotsConserved, Semaphores
<1> HIDE DEF r, i, b
<1>7. r < MaxConcurrent
  BY <1>5, <1>6, SchedulerConstants DEF SchedulerConstants
<1>8. QED
  BY <1>7 DEF r

-----------------------------------------------------------------------------
(* Every step is a step of RunSlots or changes nothing there *)

LEMMA AbstractInit == Init => Abstract!Init
<1> SUFFICES ASSUME Init PROVE \A n \in Names : SlotOf(n) = "free"
  BY DEF Abstract!Init
<1>1. running = {} /\ Bodies = {}
  BY DEF Init, Bodies, Idle
<1>2. QED
  BY <1>1 DEF SlotOf

\* RunSlots counts with the same operator.
LEMMA SameCardinality == \A S : Abstract!Cardinality(S) = Cardinality(S)
  BY DEF Abstract!Cardinality, Cardinality

\* A free schedule is accepted.
LEMMA AcceptStep ==
  ASSUME IInv, IInv', NEW n \in Names, NEW t \in Tasks, RunNow(n, t)
  PROVE  Abstract!Accept(n)
<1>1. /\ n \notin running /\ task[t].phase = "idle" /\ running' = running \cup {n}
      /\ task'[t] = [phase |-> "created", name |-> n]
      /\ \A u \in Tasks : u # t => task'[u] = task[u]
  BY DEF RunNow, Reservable, Reserve, IInv, TypeOK
<1>2. SlotMap' = [SlotMap EXCEPT ![n] = SlotOf(n)']
  BY <1>1, OtherSlots, OneSlotChanges
<1>3. SlotOf(n) = "free"
  BY <1>1, SlotMeans
<1>4. SlotOf(n)' = "queued"
  <2>1. n \in running' /\ \A u \in Bodies' : task'[u].name # n
    BY <1>1 DEF IInv, ReservationsExact, Active, Bodies
  <2>2. QED
    BY <2>1 DEF SlotOf
<1>5. QED
  BY <1>2, <1>3, <1>4 DEF Abstract!Accept, SlotMap

\* A tick starts a free schedule at once.
LEMMA LaunchStep ==
  ASSUME IInv, IInv', NEW n \in Names, NEW t \in Tasks, LaunchRuns(n, t)
  PROVE  Abstract!Begin(n)
<1>1. /\ n \notin running /\ task[t].phase = "idle" /\ running' = running \cup {n}
      /\ task'[t] = [phase |-> "body", name |-> n] /\ ~Locked(sem)
      /\ \A u \in Tasks : u # t => task'[u] = task[u]
  BY DEF LaunchRuns, Reservable, Reserve, IInv, TypeOK
<1>2. SlotMap' = [SlotMap EXCEPT ![n] = SlotOf(n)']
  BY <1>1, OtherSlots, OneSlotChanges
<1>3. SlotOf(n) = "free"
  BY <1>1, SlotMeans
<1>4. SlotOf(n)' = "running"
  BY <1>1 DEF SlotOf, Bodies
<1>5. sem.value > 0
  BY <1>1, SemSound DEF Locked, Semaphores
<1>6. QED
  BY <1>2, <1>3, <1>4, <1>5, RoomForOneMore, SameCardinality
     DEF Abstract!Begin, Abstract!Running, SlotMap

\* A reserved task that enters its run begins; one that returns ends.
LEMMA BeginStep ==
  ASSUME IInv, IInv', NEW t \in Tasks, NEW n \in Names, task[t].name = n,
         task[t].phase \in {"created", "waiting"},
         running' = running, task' = [task EXCEPT ![t].phase = "body"],
         sem.value > 0 \/ sem.woken > 0
  PROVE  Abstract!Begin(n)
<1>1. /\ t \in Active /\ task[t].phase # "body"
      /\ task'[t].phase = "body" /\ task'[t].name = n
      /\ \A u \in Tasks : u # t => task'[u] = task[u]
  BY DEF IInv, TypeOK, Active
<1>2. SlotMap' = [SlotMap EXCEPT ![n] = SlotOf(n)']
  BY <1>1, OtherSlots, OneSlotChanges
<1>3. SlotOf(n) = "queued"
  BY <1>1, SlotMeans
<1>4. SlotOf(n)' = "running"
  BY <1>1 DEF SlotOf, Bodies
<1>5. QED
  BY <1>2, <1>3, <1>4, RoomForOneMore, SameCardinality
     DEF Abstract!Begin, Abstract!Running, SlotMap

LEMMA EndStep ==
  ASSUME IInv, IInv', NEW t \in Tasks, NEW n \in Names, task[t].name = n,
         task[t].phase # "idle",
         running' = running \ {n}, task' = [task EXCEPT ![t] = Idle]
  PROVE  Abstract!End(n)
<1>1. /\ t \in Active /\ task'[t].phase = "idle" /\ n \notin running'
      /\ \A u \in Tasks : u # t => task'[u] = task[u]
  BY DEF IInv, TypeOK, Active, Idle
<1>2. SlotMap' = [SlotMap EXCEPT ![n] = SlotOf(n)']
  BY <1>1, OtherSlots, OneSlotChanges
<1>3. SlotOf(n) \in {"queued", "running"}
  BY <1>1, SlotMeans
<1>4. SlotOf(n)' = "free"
  <2>1. \A u \in Bodies' : task'[u].name # n
    BY <1>1 DEF IInv, ReservationsExact, Active, Bodies
  <2>2. QED
    BY <2>1, <1>1 DEF SlotOf
<1>5. QED
  BY <1>2, <1>3, <1>4 DEF Abstract!End, SlotMap

\* A task in flight has a name from Names.
LEMMA ActiveNamed ==
  ASSUME IInv, NEW t \in Tasks, task[t].phase # "idle"
  PROVE  task[t].name \in Names
  BY DEF IInv, TypeOK, ReservationsExact, Active

\* Tasks and reservations unchanged: nothing happens in RunSlots.
LEMMA StutterStep ==
  ASSUME UNCHANGED <<running, task>>
  PROVE  UNCHANGED SlotMap
  BY DEF SlotMap, SlotOf, Bodies

\* A waiting reservation stays queued when its task joins the deque.
LEMMA QueueStep ==
  ASSUME IInv, NEW t \in Tasks, ReservedQueues(t)
  PROVE  UNCHANGED SlotMap
<1>1. /\ running' = running
      /\ task' = [task EXCEPT ![t].phase = "waiting"] /\ task[t].phase = "created"
  BY DEF ReservedQueues, FirstStep
<1>2. Bodies' = Bodies /\ \A u \in Tasks : task'[u].name = task[u].name
  BY <1>1 DEF IInv, TypeOK, Bodies
<1>3. \A n \in Names : SlotOf(n)' = SlotOf(n)
  BY <1>1, <1>2 DEF SlotOf, Bodies
<1>4. QED
  BY <1>3 DEF SlotMap

LEMMA FirstStepsMap ==
  ASSUME IInv, IInv', NEW t \in Tasks, FirstSteps(t)
  PROVE  UNCHANGED SlotMap \/ \E n \in Names : Abstract!Begin(n) \/ Abstract!End(n)
<1>1. task[t].phase = "created" /\ task[t].name \in Names
  BY ActiveNamed DEF FirstSteps, ReservedQueues, ReservedRuns, ReservedReturns, FirstStep
<1>2. CASE ReservedQueues(t)
  BY <1>2, QueueStep
<1>3. CASE ReservedRuns(t)
  <2>1. /\ running' = running /\ task' = [task EXCEPT ![t].phase = "body"]
        /\ ~Locked(sem)
    BY <1>3 DEF ReservedRuns
  <2>2. sem.value > 0
    BY <2>1, SemSound DEF Locked, Semaphores
  <2>3. QED
    BY <1>1, <2>1, <2>2, BeginStep
<1>4. CASE ReservedReturns(t)
  <2>1. running' = running \ {task[t].name} /\ task' = [task EXCEPT ![t] = Idle]
    BY <1>4 DEF ReservedReturns, Unreserve
  <2>2. QED
    BY <1>1, <2>1, EndStep
<1>5. QED
  BY <1>2, <1>3, <1>4 DEF FirstSteps

LEMMA WakesMap ==
  ASSUME IInv, IInv', NEW t \in Tasks, Wakes(t)
  PROVE  \E n \in Names : Abstract!Begin(n) \/ Abstract!End(n)
<1>1. HasSlot(t) /\ sem.woken > 0
  BY DEF Wakes, WaiterRuns, WaiterReturns, HasSlot
<1>2. task[t].phase = "waiting" /\ task[t].name \in Names
  BY <1>1, HeadWaits, ActiveNamed
<1>3. CASE WaiterRuns(t)
  BY <1>1, <1>2, <1>3, BeginStep DEF WaiterRuns
<1>4. CASE WaiterReturns(t)
  BY <1>2, <1>4, EndStep DEF WaiterReturns, Unreserve
<1>5. QED
  BY <1>3, <1>4 DEF Wakes

LEMMA AbstractNext ==
  ASSUME IInv, IInv', [Next]_vars
  PROVE  [Abstract!Next]_SlotMap
<1>1. CASE Start \/ Stop \/ UNCHANGED vars
  BY <1>1, StutterStep DEF Start, Stop, vars
<1>2. ASSUME NEW due \in SUBSET Names, Tick(due) PROVE UNCHANGED SlotMap
  BY <1>2, StutterStep DEF Tick
<1>3. ASSUME NEW n \in Names, LaunchSkips(n) \/ LaunchReturns(n) PROVE UNCHANGED SlotMap
  <2>1. task' = task /\ running' = running
    BY <1>3 DEF LaunchSkips, LaunchReturns, Reserve, Reservable
  <2>2. QED
    BY <2>1, StutterStep
<1>4. ASSUME NEW n \in Names, NEW t \in Tasks, LaunchRuns(n, t) \/ RunNow(n, t)
      PROVE  Abstract!Next
  BY <1>4, LaunchStep, AcceptStep DEF Abstract!Next
<1>5. ASSUME NEW t \in Tasks, FirstSteps(t) \/ Wakes(t) \/ Finish(t)
      PROVE  UNCHANGED SlotMap \/ Abstract!Next
  <2>1. CASE FirstSteps(t)
    BY <2>1, FirstStepsMap DEF Abstract!Next
  <2>2. CASE Wakes(t)
    BY <2>2, WakesMap DEF Abstract!Next
  <2>3. CASE Finish(t)
    <3>1. /\ task[t].phase = "body" /\ running' = running \ {task[t].name}
          /\ task' = [task EXCEPT ![t] = Idle]
      BY <2>3 DEF Finish, Unreserve
    <3>2. task[t].name \in Names
      BY <3>1, ActiveNamed
    <3>3. Abstract!End(task[t].name)
      BY <3>1, <3>2, EndStep
    <3>4. QED
      BY <3>2, <3>3 DEF Abstract!Next
  <2>4. QED
    BY <1>5, <2>1, <2>2, <2>3
<1>6. ASSUME Crash PROVE Abstract!Next
  <2>1. Init'
    BY <1>6 DEF Crash, Init
  <2>2. running' = {} /\ Bodies' = {}
    BY <2>1 DEF Init, Bodies, Idle
  <2>3. \A n \in Names : SlotOf(n)' = "free"
    BY <2>2 DEF SlotOf
  <2>4. QED
    BY <2>3 DEF Abstract!Next, Abstract!Reset
<1>7. QED
  BY <1>1, <1>2, <1>3, <1>4, <1>5, <1>6 DEF Next

\* The engine of scheduler.py does only what RunSlots allows.
THEOREM SchedulerImplementsRunSlots == Spec => ImplementsRunSlots
<1>1. Init => Abstract!Init
  BY AbstractInit
<1>2. IInv /\ IInv' /\ [Next]_vars => [Abstract!Next]_[n \in Names |-> SlotOf(n)]
  BY AbstractNext DEF SlotMap
<1>3. QED
  BY <1>1, <1>2, SchedulerInvariant, PTL DEF Spec, Abstract!Spec, ImplementsRunSlots

-----------------------------------------------------------------------------
(* The engine underneath *)

LEMMA TaskStepIsEngineStep ==
  ASSUME NEW t \in Tasks, TaskStarts(t) \/ RunAdvances(t)
  PROVE  Next \/ UNCHANGED vars
<1>1. CASE TaskStarts(t)
  BY <1>1 DEF TaskStarts, QueueForSlot, StartRun, StartWithoutEndpoint, Next, FirstSteps, Wakes
<1>2. CASE Connected(t) \/ DumpPushed(t)
  BY <1>2 DEF Connected, DumpPushed, engine, vars
<1>3. CASE ConnectFails(t) \/ (\E status \in {"failed", "cancelled"} : DumpFails(t, status))
           \/ DumpKept(t) \/ PushFails(t) \/ PushSucceeds(t)
  <2>1. Finish(t)
    BY <1>3 DEF ConnectFails, DumpFails, DumpKept, PushFails, PushSucceeds, RunEnds
  <2>2. QED
    BY <2>1 DEF Next
<1>4. QED
  BY <1>1, <1>2, <1>3 DEF RunAdvances

LEMMA RequestIsEngineStep == Request => Next \/ UNCHANGED vars
<1>1. ASSUME NEW n \in Names, NEW t \in Tasks, RequestRun(n, t) PROVE Next
  BY <1>1 DEF RequestRun, Next
<1>2. ASSUME NEW n \in Names,
             (\E t \in Tasks : CancelDump(n, t)) \/ CancelStale(n)
             \/ (\E enabled \in BOOLEAN : Toggle(n, enabled)) \/ Delete(n)
             \/ (\E a \in Admins, def \in Definition : SaveChecked(a, n, def))
      PROVE UNCHANGED vars
  BY <1>2 DEF CancelDump, CancelStale, Toggle, Delete, SaveChecked, engine, vars
<1>3. ASSUME (\E a \in Admins : SaveRejected(a) \/ SaveCommitted(a)) \/ ClearHistory
      PROVE UNCHANGED vars
  BY <1>3 DEF SaveRejected, SaveCommitted, ClearHistory, engine, vars
<1>4. QED
  BY <1>1, <1>2, <1>3 DEF Request

LEMMA BackupStepIsEngineStep == [BackupNext]_allVars => [Next]_vars
<1>1. TickSchedules => Next
  <2>1. {n \in Names : Due(n)} \in SUBSET Names
    OBVIOUS
  <2>2. QED
    BY <2>1 DEF TickSchedules, Next
<1>2. ASSUME NEW n \in Names, LaunchDecided(n) PROVE Next
  BY <1>2 DEF LaunchDecided, LaunchSkipped, LaunchDuplicate, LaunchWithoutEndpoint,
              LaunchEnters, Next
<1>3. MinutePasses => UNCHANGED vars
  BY DEF MinutePasses, engine, vars
<1>4. Shutdown \/ Dies \/ Boot => Next
  BY DEF Shutdown, Dies, Boot, Next
<1>5. UNCHANGED allVars => UNCHANGED vars
  BY DEF allVars, engine, vars
<1>6. QED
  BY <1>1, <1>2, <1>3, <1>4, <1>5, TaskStepIsEngineStep, RequestIsEngineStep
     DEF BackupNext, ProcessDies, DiesMidway, DiesConcluding

\* What drives the engine end to end never leaves its specification: everything
\* proved of Scheduler holds of scheduled backups.
THEOREM BackupsRunOnTheEngine == BackupSpec => Spec
<1>1. BackupInit => Init
  BY DEF BackupInit
<1>2. QED
  BY <1>1, BackupStepIsEngineStep, PTL DEF BackupSpec, Spec

\* So scheduled backups, with their requests, crashes and boots, do only what RunSlots
\* allows, and no schedule is in flight twice, whoever starts it.
THEOREM BackupsImplementRunSlots == BackupSpec => ImplementsRunSlots /\ []NonOverlap
BY BackupsRunOnTheEngine, SchedulerImplementsRunSlots, SchedulesNeverOverlap, PTL

-----------------------------------------------------------------------------
(* Run-state entries *)

LEMMA DefinitionTypes ==
  /\ Undefined \notin Definition
  /\ \A def \in Definition \cup {Undefined} :
       /\ def.enabled \in BOOLEAN
       /\ def.enabled => def \in Definition
       /\ def = Undefined <=> def.settings = None
<1>1. None \notin Settings
  BY BackupConstants DEF BackupConstants
<1>2. Undefined.settings = None /\ Undefined.enabled = FALSE
  BY DEF Undefined
<1>3. \A def \in Definition : def.settings \in Settings /\ def.enabled \in BOOLEAN
  BY DEF Definition
<1>4. QED
  BY <1>1, <1>2, <1>3

LEMMA Disabling ==
  ASSUME NEW def \in Definition \cup {Undefined}, def.enabled, NEW off,
         off = [def EXCEPT !.enabled = FALSE]
  PROVE  off \in Definition /\ off.settings = def.settings /\ off.enabled = FALSE
  BY DefinitionTypes DEF Definition

LEMMA EntryTouched ==
  ASSUME NEW e \in Entry
  PROVE  /\ Touched(e) \in Entry /\ StreakCleared(e) \in Entry
         /\ Touched(e).failures = e.failures /\ StreakCleared(e).failures = 0
         /\ Touched(e).status = "running" <=> e.status = "running"
         /\ StreakCleared(e).status = "running" <=> e.status = "running"
<1>1. /\ Touched(e) \in Entry
      /\ Touched(e).failures = e.failures
      /\ Touched(e).status = "running" <=> e.status = "running"
  BY DEF Entry, Touched
<1>2. /\ StreakCleared(e) \in Entry
      /\ StreakCleared(e).failures = 0
      /\ StreakCleared(e).status = Touched(e).status
  BY <1>1 DEF StreakCleared, Entry
<1>3. QED
  BY <1>1, <1>2

LEMMA EntryMarked ==
  ASSUME NEW e \in Entry, minute \in Minutes, NEW status \in {"failed", "copy_failed"}
  PROVE  /\ Fired(e) \in Entry /\ Fired(e).failures = e.failures
         /\ Failed(e, status) \in Entry /\ Failed(e, status).failures = e.failures + 1
         /\ Failed(e, status).status # "running"
         /\ Succeeded(e) \in Entry /\ Succeeded(e).failures = 0
         /\ Succeeded(e).status # "running"
<1>1. e.failures \in Nat /\ e.failures + 1 \in Nat /\ 0 \in Nat
  BY DEF Entry
<1>2. /\ Fired(e) \in Entry /\ Fired(e).failures = e.failures
      /\ Succeeded(e) \in Entry /\ Succeeded(e).failures = 0
      /\ Succeeded(e).status # "running"
  BY <1>1 DEF Entry, Fired, Succeeded
<1>3. /\ Failed(e, status) \in Entry
      /\ Failed(e, status).failures = e.failures + 1
      /\ Failed(e, status).status # "running"
  BY <1>1 DEF Entry, Failed
<1>4. QED
  BY <1>2, <1>3

\* What a failure writes, given that the run's definition spares later decisions.
LEMMA FailureRecorded ==
  ASSUME BackupTypeOK, AutoDisabled, NEW n \in Names,
         NEW def \in Definition \cup {Undefined}, Spared(n, def),
         NEW e \in Entry, e.failures = state[n].failures,
         NEW status \in {"failed", "copy_failed"}, RecordFailure(n, def, e, status)
  PROVE  /\ state' \in [Names -> Entry]
         /\ config' \in [Names -> Definition \cup {Undefined}]
         /\ AutoDisabled'
         /\ state'[n].status # "running"
         /\ \A m \in Names \ {n} : state'[m] = state[m] /\ config'[m] = config[m]
         /\ \A m \in Names : config'[m].settings = config[m].settings
         /\ cut' \subseteq Names
<1>1. /\ state \in [Names -> Entry] /\ config \in [Names -> Definition \cup {Undefined}]
      /\ minute \in Minutes /\ cut \subseteq Names
  BY DEF BackupTypeOK
<1> DEFINE off == [def EXCEPT !.enabled = FALSE]
           f == Failed(e, status)
           disables == e.failures + 1 >= AutoDisableAfter /\ def.enabled
<1>2. /\ f \in Entry /\ f.failures = e.failures + 1 /\ f.status # "running"
  BY <1>1, EntryMarked
<1>3. def.enabled => off \in Definition /\ off.settings = def.settings /\ off.enabled = FALSE
  BY Disabling
<1>4. /\ state' = [state EXCEPT ![n] = f]
      /\ \/ disables /\ config' = [config EXCEPT ![n] = off] /\ cut' = cut \ {n}
         \/ disables /\ config' = config /\ cut' = cut \cup {n}
         \/ ~disables /\ config' = config /\ cut' = cut
  BY DEF RecordFailure, DisabledOrNot
<1>5. e.failures \in Nat /\ AutoDisableAfter \in Nat /\ AutoDisableAfter >= 2
  BY BackupConstants DEF Entry, BackupConstants
<1>6. config[n].enabled \in BOOLEAN /\ def.enabled \in BOOLEAN
  BY <1>1, DefinitionTypes
<1> HIDE DEF off, f
<1>7. e.failures + 1 >= AutoDisableAfter =>
        /\ def.settings = config[n].settings
        /\ config[n].enabled => def.enabled
  BY <1>5 DEF Spared
<1>8. /\ state' \in [Names -> Entry]
      /\ \A m \in Names \ {n} : state'[m] = state[m]
      /\ state'[n] = f
  BY <1>1, <1>2, <1>4
<1>9. /\ config' \in [Names -> Definition \cup {Undefined}]
      /\ \A m \in Names \ {n} : config'[m] = config[m]
      /\ (disables /\ config'[n] = off) \/ (config'[n] = config[n] /\ (~disables \/ n \in cut'))
      /\ cut' \subseteq Names /\ \A m \in Names \ {n} : m \in cut' <=> m \in cut
  <2>1. CASE disables /\ config' = [config EXCEPT ![n] = off] /\ cut' = cut \ {n}
    BY <1>1, <1>3, <2>1
  <2>2. CASE config' = config /\ cut' = cut \cup {n}
    BY <1>1, <2>2
  <2>3. CASE ~disables /\ config' = config /\ cut' = cut
    BY <1>1, <2>3
  <2>4. QED
    BY <1>4, <2>1, <2>2, <2>3
<1>10. config'[n].settings = config[n].settings
  BY <1>3, <1>7, <1>9
<1>11. f.failures >= AutoDisableAfter /\ n \notin cut' => ~config'[n].enabled
  BY <1>2, <1>3, <1>6, <1>7, <1>9
<1>12. AutoDisabled'
  BY <1>8, <1>9, <1>11 DEF AutoDisabled
<1>13. QED
  BY <1>2, <1>8, <1>9, <1>10, <1>12

\* complete_operation() leaves its operation neither running nor another one changed.
LEMMA OperationCompleted ==
  ASSUME BackupTypeOK, NEW n \in Names,
         NEW status \in {"completed", "failed", "cancelled"}, Complete(n, status)
  PROVE  /\ history' \in [Names -> {"none", "running", "completed", "failed", "cancelled"}]
         /\ history'[n] # "running"
         /\ \A m \in Names \ {n} : history'[m] = history[m]
  BY DEF BackupTypeOK, Complete

-----------------------------------------------------------------------------
(* How the parts of BackupInv are carried over a step *)

\* What every step starts from and ends in.
Context ==
  /\ IInv /\ IInv' /\ TasksInOrder /\ TasksInOrder'
  /\ BackupInv

StreakHolds(m) ==
  \/ state'[m].failures = 0
  \/ /\ state'[m].failures = state[m].failures
     /\ config'[m].settings = config[m].settings
     /\ config'[m].enabled => config[m].enabled

\* Nothing is in flight for m after the step.
QuietAfter(m) == m \notin pending' /\ \A t \in Active' : task'[t].name # m

LEMMA SparingKept ==
  ASSUME \A t \in Active' :
           task'[t].name \in Names /\ Spared(task'[t].name, job'[t].def),
         \A n \in pending' : n \in Names /\ Spared(n, seen'[n]),
         \A m \in Names : StreakHolds(m) \/ QuietAfter(m)
  PROVE  RunsSpared' /\ LaunchesSpared'
<1>1. ASSUME NEW t \in Active' PROVE Spared(task[t].name, job[t].def)'
  <2>1. StreakHolds(task'[t].name)
    BY <1>1 DEF QuietAfter
  <2>2. QED
    BY <1>1, <2>1 DEF Spared, StreakHolds
<1>2. ASSUME NEW n \in pending' PROVE Spared(n, seen[n])'
  <2>1. StreakHolds(n)
    BY <1>2 DEF QuietAfter
  <2>2. QED
    BY <1>2, <2>1 DEF Spared, StreakHolds
<1>3. QED
  BY <1>1, <1>2 DEF RunsSpared, LaunchesSpared

\* The tasks in flight have the names they were taken for.
LEMMA ActiveNames ==
  ASSUME IInv PROVE \A t \in Active : t \in Tasks /\ task[t].name \in Names
  BY DEF IInv, TypeOK, ReservationsExact, Active

\* A step that touches no task, launch or run keeps the runs spared if it keeps the streaks.
LEMMA BystandersSpared ==
  ASSUME Context, UNCHANGED <<task, pending, seen>>,
         \A t \in Tasks : job'[t].def = job[t].def,
         \A m \in Names : StreakHolds(m)
  PROVE  RunsSpared' /\ LaunchesSpared'
<1>1. RunsSpared /\ LaunchesSpared /\ pending \subseteq Names
  BY DEF Context, BackupInv, IInv, TypeOK
<1>2. Active' = Active
  BY DEF Active
<1>3. \A t \in Active : t \in Tasks /\ task[t].name \in Names
  BY ActiveNames DEF Context
<1>4. \A t \in Active' : task'[t].name \in Names /\ Spared(task'[t].name, job'[t].def)
  BY <1>1, <1>2, <1>3 DEF RunsSpared
<1>5. \A n \in pending' : n \in Names /\ Spared(n, seen'[n])
  BY <1>1 DEF LaunchesSpared
<1>6. QED
  BY <1>4, <1>5, SparingKept

\* No new "running" and no body lost.
LEMMA RunningKept ==
  ASSUME Context, up' => up,
         \A m \in Names : state'[m].status = "running" =>
           /\ state[m].status = "running"
           /\ \A t \in InFlight(m) : task[t].phase = "body" => task'[t] = task[t]
  PROVE  RunningIsReal'
  BY DEF Context, BackupInv, RunningIsReal, InFlight

LEMMA OperationsKept ==
  ASSUME Context, up' => up,
         \A m \in Names : history'[m] = "running" =>
           /\ history[m] = "running"
           /\ \A t \in InFlight(m) : job[t].op => task'[t].name = m /\ job'[t].op
  PROVE  OperationIsReal'
  BY DEF Context, BackupInv, OperationIsReal, InFlight

\* A step that leaves the run-state and the history alone, and every task that
\* works on something.
LEMMA StatusesKept ==
  ASSUME Context, up' => up, UNCHANGED <<state, history>>,
         \A t \in Tasks : task[t].phase = "body" => task'[t] = task[t],
         \A t \in Active : task'[t].name = task[t].name /\ (job[t].op => job'[t].op)
  PROVE  RunningIsReal' /\ OperationIsReal'
<1>1. RunningIsReal'
  BY RunningKept DEF InFlight
<1>2. None \notin Names
  BY SchedulerConstants DEF SchedulerConstants
<1>3. \A m \in Names : InFlight(m) \subseteq Active
  BY <1>2 DEF Context, TasksInOrder, Idle, InFlight, Active
<1>4. OperationIsReal'
  BY <1>3, OperationsKept DEF InFlight
<1>5. QED
  BY <1>1, <1>4

-----------------------------------------------------------------------------
(* Requests, time and shutdown *)

LEMMA ContextTypes ==
  ASSUME Context
  PROVE  /\ BackupTypeOK /\ TypeOK' /\ AutoDisabled
         /\ config \in [Names -> Definition \cup {Undefined}]
         /\ state \in [Names -> Entry]
         /\ history \in [Names -> {"none", "running", "completed", "failed", "cancelled"}]
         /\ seen \in [Names -> Definition \cup {Undefined}]
         /\ job \in [Tasks -> Job]
         /\ save \in [Admins -> [name : Names, def : Definition] \cup {NoSave}]
         /\ task \in [Tasks -> [phase : Phases, name : Names \cup {None}]]
         /\ pending \subseteq Names
         /\ minute \in Minutes
         /\ cut \subseteq Names
  BY DEF Context, BackupInv, BackupTypeOK, IInv, TypeOK

LEMMA BystandingRequests ==
  ASSUME Context,
         \/ \E a \in Admins, n \in Names, def \in Definition : SaveChecked(a, n, def)
         \/ \E a \in Admins : SaveRejected(a)
         \/ \E n \in Names, t \in Tasks : CancelDump(n, t)
         \/ MinutePasses
         \/ Shutdown
  PROVE  BackupInv'
<1>1. /\ UNCHANGED <<config, state, history, cut, up, task, pending, seen>>
      /\ \/ UNCHANGED job
         \/ \E t \in Tasks : job' = [job EXCEPT ![t].cancel = TRUE]
  BY DEF SaveChecked, SaveRejected, CancelDump, MinutePasses, Shutdown, Stop, disk, engine
<1>2. /\ job' \in [Tasks -> Job]
      /\ \A t \in Tasks : job'[t].def = job[t].def /\ job'[t].op = job[t].op
  <2>1. CASE UNCHANGED job
    BY <2>1, ContextTypes
  <2>2. ASSUME NEW t \in Tasks, job' = [job EXCEPT ![t].cancel = TRUE]
        PROVE  <1>2!1 /\ <1>2!2
    BY <2>2, ContextTypes DEF Job
  <2>3. QED
    BY <1>1, <2>1, <2>2
<1>3. save' \in [Admins -> [name : Names, def : Definition] \cup {NoSave}] /\ minute' \in Minutes
  <2>1. minute' \in Minutes
    BY ContextTypes DEF SaveChecked, SaveRejected, CancelDump, MinutePasses, Shutdown
  <2>2. ASSUME NEW a \in Admins, NEW n \in Names, NEW def \in Definition, SaveChecked(a, n, def)
        PROVE  save' \in [Admins -> [name : Names, def : Definition] \cup {NoSave}]
    <3>1. [name |-> n, def |-> def] \in [name : Names, def : Definition]
      OBVIOUS
    <3>2. QED
      BY <2>2, <3>1, ContextTypes DEF SaveChecked
  <2>3. ASSUME NEW a \in Admins, SaveRejected(a)
        PROVE  save' \in [Admins -> [name : Names, def : Definition] \cup {NoSave}]
    BY <2>3, ContextTypes DEF SaveRejected
  <2>4. ASSUME UNCHANGED save
        PROVE  save' \in [Admins -> [name : Names, def : Definition] \cup {NoSave}]
    BY <2>4, ContextTypes
  <2>5. QED
    BY <2>1, <2>2, <2>3, <2>4 DEF CancelDump, MinutePasses, Shutdown
<1>4. BackupTypeOK'
  BY <1>1, <1>2, <1>3, ContextTypes DEF BackupTypeOK
<1>5. AutoDisabled'
  BY <1>1, ContextTypes DEF AutoDisabled
<1>6. RunningIsReal' /\ OperationIsReal'
  BY <1>1, <1>2, StatusesKept DEF Active
<1>7. RunsSpared' /\ LaunchesSpared'
  BY <1>1, <1>2, BystandersSpared DEF StreakHolds
<1>8. QED
  BY <1>4, <1>5, <1>6, <1>7 DEF BackupInv

\* Requests that write the definition or the run-state of one schedule.
LEMMA ScheduleWritten ==
  ASSUME Context, NEW n \in Names, NEW d \in Definition \cup {Undefined}, NEW e \in Entry,
         config' = [config EXCEPT ![n] = d], state' = [state EXCEPT ![n] = e],
         e.status = "running" => state[n].status = "running",
         \/ e.failures = 0 /\ cut' = cut \ {n}
         \/ e = state[n] /\ d.settings = config[n].settings /\ ~d.enabled /\ UNCHANGED cut,
         save' \in [Admins -> [name : Names, def : Definition] \cup {NoSave}],
         UNCHANGED <<task, pending, history, up, minute, seen, job>>
  PROVE  BackupInv'
<1>1. /\ config' \in [Names -> Definition \cup {Undefined}] /\ state' \in [Names -> Entry]
      /\ config'[n] = d /\ state'[n] = e
      /\ \A m \in Names \ {n} : config'[m] = config[m] /\ state'[m] = state[m]
  BY ContextTypes
<1>2. BackupTypeOK'
  BY <1>1, ContextTypes DEF BackupTypeOK
<1>3. AutoDisabled'
  <2>1. AutoDisableAfter \in Nat /\ ~(0 >= AutoDisableAfter)
    BY BackupConstants DEF BackupConstants
  <2>2. e.failures >= AutoDisableAfter => ~d.enabled
    BY <2>1
  <2>3. \A m \in Names \ {n} : m \in cut' <=> m \in cut
    OBVIOUS
  <2>4. QED
    BY <1>1, <2>2, <2>3, ContextTypes DEF AutoDisabled
<1>4. RunningIsReal'
  BY <1>1, RunningKept DEF InFlight
<1>5. OperationIsReal'
  BY OperationsKept DEF InFlight
<1>6. RunsSpared' /\ LaunchesSpared'
  <2>1. \A m \in Names : StreakHolds(m)
    BY <1>1 DEF StreakHolds
  <2>2. QED
    BY <2>1, BystandersSpared
<1>7. QED
  BY <1>2, <1>3, <1>4, <1>5, <1>6 DEF BackupInv

LEMMA WritingRequests ==
  ASSUME Context,
         \/ \E a \in Admins : SaveCommitted(a)
         \/ \E n \in Names, enabled \in BOOLEAN : Toggle(n, enabled)
         \/ \E n \in Names : Delete(n)
  PROVE  BackupInv'
<1>1. ASSUME NEW a \in Admins, SaveCommitted(a) PROVE BackupInv'
  <2> DEFINE n == save[a].name
             e == StreakCleared(state[n])
  <2>1. n \in Names /\ save[a].def \in Definition
    BY <1>1, ContextTypes DEF SaveCommitted
  <2>2. state[n] \in Entry
    BY <2>1, ContextTypes
  <2>3. e \in Entry /\ e.failures = 0 /\ (e.status = "running" => state[n].status = "running")
    BY <2>2, EntryTouched
  <2>4. /\ config' = [config EXCEPT ![n] = save[a].def] /\ state' = [state EXCEPT ![n] = e]
        /\ save' = [save EXCEPT ![a] = NoSave] /\ cut' = cut \ {n}
        /\ UNCHANGED <<task, pending, history, up, minute, seen, job>>
    BY <1>1 DEF SaveCommitted, Written, ClearStreak, engine
  <2>5. save' \in [Admins -> [name : Names, def : Definition] \cup {NoSave}]
    BY <2>4, ContextTypes
  <2> HIDE DEF n, e
  <2>6. QED
    BY <2>1, <2>3, <2>4, <2>5, ScheduleWritten
<1>2. ASSUME NEW n \in Names, Toggle(n, TRUE) PROVE BackupInv'
  <2> DEFINE d == [config[n] EXCEPT !.enabled = TRUE]
             e == StreakCleared(state[n])
  <2>1. d \in Definition
    BY <1>2, ContextTypes DEF Toggle, Defined, Definition
  <2>2. state[n] \in Entry
    BY ContextTypes
  <2>3. e \in Entry /\ e.failures = 0 /\ (e.status = "running" => state[n].status = "running")
    BY <2>2, EntryTouched
  <2>4. /\ config' = [config EXCEPT ![n] = d] /\ state' = [state EXCEPT ![n] = e]
        /\ cut' = cut \ {n}
        /\ UNCHANGED <<task, pending, history, up, minute, seen, job, save>>
    BY <1>2, ContextTypes DEF Toggle, Written, Switched, ClearStreak, engine
  <2>5. save' \in [Admins -> [name : Names, def : Definition] \cup {NoSave}]
    BY <2>4, ContextTypes
  <2> HIDE DEF d, e
  <2>6. QED
    BY <2>1, <2>3, <2>4, <2>5, ScheduleWritten
<1>3. ASSUME NEW n \in Names, Toggle(n, FALSE) PROVE BackupInv'
  <2> DEFINE d == [config[n] EXCEPT !.enabled = FALSE]
  <2>1. d \in Definition /\ d.settings = config[n].settings /\ ~d.enabled
    <3>1. config[n] \in Definition
      BY <1>3, ContextTypes DEF Toggle, Defined
    <3>2. d \in Definition /\ d.settings = config[n].settings
      BY <3>1 DEF Definition
    <3>3. d.enabled = FALSE
      BY <3>1 DEF Definition
    <3>4. QED
      BY <3>2, <3>3
  <2>2. state[n] \in Entry
    BY ContextTypes
  <2>3. /\ config' = [config EXCEPT ![n] = d] /\ state' = [state EXCEPT ![n] = state[n]]
        /\ UNCHANGED <<task, pending, history, cut, up, minute, seen, job, save>>
    BY <1>3, ContextTypes DEF Toggle, Written, Switched, engine
  <2>4. save' \in [Admins -> [name : Names, def : Definition] \cup {NoSave}]
    BY <2>3, ContextTypes
  <2> HIDE DEF d
  <2>5. QED
    BY <2>1, <2>2, <2>3, <2>4, ScheduleWritten
<1>4. ASSUME NEW n \in Names, Delete(n) PROVE BackupInv'
  <2>1. NoEntry \in Entry /\ NoEntry.failures = 0 /\ NoEntry.status # "running"
    BY DEF NoEntry, Entry
  <2>2. /\ config' = [config EXCEPT ![n] = Undefined] /\ state' = [state EXCEPT ![n] = NoEntry]
        /\ cut' = cut \ {n}
        /\ UNCHANGED <<task, pending, history, up, minute, seen, job, save>>
    BY <1>4 DEF Delete, Written, engine
  <2>3. save' \in [Admins -> [name : Names, def : Definition] \cup {NoSave}]
    BY <2>2, ContextTypes
  <2>4. QED
    BY <2>1, <2>2, <2>3, ScheduleWritten
<1>5. QED
  BY <1>1, <1>2, <1>3, <1>4

LEMMA HistoryRequests ==
  ASSUME Context, ClearHistory \/ \E n \in Names : CancelStale(n)
  PROVE  BackupInv'
<1>1. UNCHANGED <<config, state, cut, up, minute, task, pending, seen, job, save>>
  BY DEF ClearHistory, CancelStale, engine
<1>2. /\ history' \in [Names -> {"none", "running", "completed", "failed", "cancelled"}]
      /\ \A m \in Names : history'[m] = "running" => history[m] = "running"
  BY ContextTypes DEF ClearHistory, CancelStale, Complete
<1>3. BackupTypeOK'
  BY <1>1, <1>2, ContextTypes DEF BackupTypeOK
<1>4. AutoDisabled'
  BY <1>1, ContextTypes DEF AutoDisabled
<1>5. RunningIsReal'
  BY <1>1, RunningKept DEF InFlight
<1>6. OperationIsReal'
  BY <1>1, <1>2, OperationsKept DEF InFlight
<1>7. RunsSpared' /\ LaunchesSpared'
  BY <1>1, BystandersSpared DEF StreakHolds
<1>8. QED
  BY <1>3, <1>4, <1>5, <1>6, <1>7 DEF BackupInv

-----------------------------------------------------------------------------
(* The tick and its launches *)

\* Only the launches change, each with the definition its tick read.
LEMMA LaunchesMoved ==
  ASSUME Context, UNCHANGED <<config, state, history, cut, up, minute, task, job, save>>,
         seen' \in [Names -> Definition \cup {Undefined}],
         \A n \in pending' : n \in Names /\ Spared(n, seen'[n])
  PROVE  BackupInv'
<1>1. BackupTypeOK'
  BY ContextTypes DEF BackupTypeOK
<1>2. AutoDisabled'
  BY ContextTypes DEF AutoDisabled
<1>3. RunningIsReal' /\ OperationIsReal'
  BY StatusesKept DEF Active
<1>4. RunsSpared' /\ LaunchesSpared'
  <2>1. RunsSpared /\ \A t \in Active : t \in Tasks /\ task[t].name \in Names
    BY ActiveNames DEF Context, BackupInv
  <2>2. \A t \in Active' : task'[t].name \in Names /\ Spared(task'[t].name, job'[t].def)
    BY <2>1 DEF RunsSpared, Active
  <2>3. \A m \in Names : StreakHolds(m)
    BY DEF StreakHolds
  <2>4. QED
    BY <2>2, <2>3, SparingKept
<1>5. QED
  BY <1>1, <1>2, <1>3, <1>4 DEF BackupInv

LEMMA TickKeeps ==
  ASSUME Context, TickSchedules PROVE BackupInv'
<1>1. UNCHANGED <<config, state, history, cut, up, minute, task, job, save>>
  BY DEF TickSchedules, Tick, disk
<1>2. pending' \subseteq Names
  BY ContextTypes DEF TypeOK
<1>3. seen' = [n \in Names |-> IF n \in pending' THEN config[n] ELSE Undefined]
  BY DEF TickSchedules
<1>4. seen' \in [Names -> Definition \cup {Undefined}]
  BY <1>3, ContextTypes
<1>5. \A n \in pending' : n \in Names /\ Spared(n, seen'[n])
  BY <1>2, <1>3 DEF Spared
<1>6. QED
  BY <1>1, <1>4, <1>5, LaunchesMoved

LEMMA LaunchDropped ==
  ASSUME Context, NEW n \in Names, LaunchSkipped(n) \/ LaunchDuplicate(n)
  PROVE  BackupInv'
<1>1. /\ UNCHANGED <<config, state, history, cut, up, minute, task, job, save>>
      /\ pending' = pending \ {n}
      /\ seen' = [seen EXCEPT ![n] = Undefined]
  BY DEF LaunchSkipped, LaunchDuplicate, LaunchSkips, LaunchReturns, Forget, disk
<1>2. seen' \in [Names -> Definition \cup {Undefined}]
  BY <1>1, ContextTypes
<1>3. \A m \in pending' : m \in Names /\ Spared(m, seen'[m])
  BY <1>1, ContextTypes DEF Context, BackupInv, LaunchesSpared
<1>4. QED
  BY <1>1, <1>2, <1>3, LaunchesMoved

LEMMA LaunchFails ==
  ASSUME Context, NEW n \in Names, LaunchWithoutEndpoint(n)
  PROVE  BackupInv'
<1>1. /\ n \in pending /\ n \notin running
      /\ pending' = pending \ {n} /\ seen' = [seen EXCEPT ![n] = Undefined]
      /\ UNCHANGED <<history, up, minute, task, job, save>>
      /\ RecordFailure(n, seen[n], Fired(state[n]), "failed")
  BY DEF LaunchWithoutEndpoint, LaunchReturns, Reservable, Forget
<1>2. Spared(n, seen[n])
  BY <1>1 DEF Context, BackupInv, LaunchesSpared
<1>3. Fired(state[n]) \in Entry /\ Fired(state[n]).failures = state[n].failures
  BY ContextTypes, EntryMarked
<1>4. /\ state' \in [Names -> Entry]
      /\ config' \in [Names -> Definition \cup {Undefined}]
      /\ AutoDisabled'
      /\ state'[n].status # "running"
      /\ \A m \in Names \ {n} : state'[m] = state[m] /\ config'[m] = config[m]
      /\ cut' \subseteq Names
  BY <1>1, <1>2, <1>3, ContextTypes, FailureRecorded
<1>5. BackupTypeOK'
  <2>1. seen' \in [Names -> Definition \cup {Undefined}]
    BY <1>1, ContextTypes
  <2>2. QED
    BY <1>1, <1>4, <2>1, ContextTypes DEF BackupTypeOK
<1>6. RunningIsReal'
  BY <1>1, <1>4, RunningKept DEF InFlight
<1>7. OperationIsReal'
  BY <1>1, OperationsKept DEF InFlight
<1>8. RunsSpared' /\ LaunchesSpared'
  <2>1. \A t \in Active : t \in Tasks /\ task[t].name \in Names /\ task[t].name # n
    BY <1>1, ActiveNames DEF Context, IInv, ReservationsExact
  <2>2. \A t \in Active' : task'[t].name \in Names /\ Spared(task'[t].name, job'[t].def)
    BY <1>1, <2>1 DEF Context, BackupInv, RunsSpared, Active
  <2>3. \A m \in pending' : m \in Names /\ Spared(m, seen'[m])
    BY <1>1, ContextTypes DEF Context, BackupInv, LaunchesSpared
  <2>4. QuietAfter(n)
    BY <1>1, <2>1 DEF QuietAfter, Active
  <2>5. \A m \in Names \ {n} : StreakHolds(m)
    BY <1>4 DEF StreakHolds
  <2>6. QED
    BY <2>2, <2>3, <2>4, <2>5, SparingKept
<1>9. QED
  BY <1>4, <1>5, <1>6, <1>7, <1>8 DEF BackupInv

-----------------------------------------------------------------------------
(* Runs that start *)

LEMMA JobTypes ==
  ASSUME NEW d \in Definition \cup {Undefined}, NEW op \in BOOLEAN,
         NEW step \in {"none", "connect", "dump", "push"}, NEW c \in BOOLEAN
  PROVE  [def |-> d, op |-> op, step |-> step, cancel |-> c] \in Job
  BY DEF Job

\* A run enters its first await: from a launch, or as a task that was waiting to start.
LEMMA RunEntered ==
  ASSUME Context, NEW n \in Names, NEW t \in Tasks,
         NEW d \in Definition \cup {Undefined}, NEW op \in BOOLEAN, Spared(n, d),
         EnterRun(n, t, d, op), pending' \subseteq pending,
         \A m \in pending' : seen'[m] = seen[m],
         seen' \in [Names -> Definition \cup {Undefined}],
         \A u \in Tasks \ {t} : task'[u] = task[u],
         task'[t] = [phase |-> "body", name |-> n],
         task[t].phase # "body",
         task[t].phase = "idle" \/ task[t].name = n,
         t \in InFlight(n) => op
  PROVE  BackupInv'
<1> DEFINE j == [def |-> d, op |-> op, step |-> "connect", cancel |-> FALSE]
<1>1. /\ state' = [state EXCEPT ![n] = Fired(@)]
      /\ job' = [job EXCEPT ![t] = j]
      /\ UNCHANGED <<config, history, cut, up, minute, save>>
  BY DEF EnterRun
<1>2. j \in Job /\ j.def = d /\ j.op = op
  BY JobTypes
<1> HIDE DEF j
<1>3. /\ job' \in [Tasks -> Job] /\ job'[t] = j
      /\ \A u \in Tasks \ {t} : job'[u] = job[u]
  BY <1>1, <1>2, ContextTypes
<1>4. Fired(state[n]) \in Entry /\ Fired(state[n]).failures = state[n].failures
  BY ContextTypes, EntryMarked
<1>5. /\ state' \in [Names -> Entry]
      /\ \A m \in Names : state'[m].failures = state[m].failures
      /\ \A m \in Names \ {n} : state'[m] = state[m]
  BY <1>1, <1>4, ContextTypes
<1>6. BackupTypeOK'
  BY <1>1, <1>3, <1>5, ContextTypes DEF BackupTypeOK
<1>7. AutoDisabled'
  BY <1>1, <1>5, ContextTypes DEF AutoDisabled
<1>8. RunningIsReal'
  <2>1. t \in InFlight(n)' /\ task'[t].phase = "body"
    BY DEF InFlight
  <2>2. ASSUME NEW m \in Names \ {n}, up, state[m].status = "running"
        PROVE  \E u \in InFlight(m)' : task'[u].phase = "body"
    <3>1. PICK u \in InFlight(m) : task[u].phase = "body"
      BY <2>2 DEF Context, BackupInv, RunningIsReal
    <3>2. u # t /\ u \in Tasks
      BY <3>1 DEF InFlight
    <3>3. QED
      BY <3>1, <3>2 DEF InFlight
  <2>3. QED
    BY <1>1, <1>5, <2>1, <2>2 DEF RunningIsReal
<1>9. OperationIsReal'
  <2>1. ASSUME NEW m \in Names, up, history[m] = "running"
        PROVE  \E u \in InFlight(m)' : job'[u].op
    <3>1. PICK u \in InFlight(m) : job[u].op
      BY <2>1 DEF Context, BackupInv, OperationIsReal
    <3>2. CASE u # t
      BY <1>3, <3>1, <3>2 DEF InFlight
    <3>3. CASE u = t
      <4>1. m = n
        BY <3>1, <3>3, SchedulerConstants DEF InFlight, Context, TasksInOrder, Idle, SchedulerConstants
      <4>2. op
        BY <3>1, <3>3, <4>1
      <4>3. job'[t].op
        BY <1>2, <1>3, <4>2, Zenon
      <4>4. t \in InFlight(m)'
        BY <4>1 DEF InFlight
      <4>5. QED
        BY <4>3, <4>4
    <3>4. QED
      BY <3>2, <3>3
  <2>2. QED
    BY <1>1, <2>1 DEF OperationIsReal
<1>10. RunsSpared' /\ LaunchesSpared'
  <2>1. \A u \in Active : u \in Tasks /\ task[u].name \in Names
    BY ActiveNames DEF Context
  <2>2. \A u \in Active' : task'[u].name \in Names /\ Spared(task'[u].name, job'[u].def)
    <3>1. ASSUME NEW u \in Active', u # t
          PROVE  task'[u].name \in Names /\ Spared(task'[u].name, job'[u].def)
      <4>1. u \in Active /\ task'[u] = task[u] /\ job'[u] = job[u]
        BY <1>3, <3>1 DEF Active
      <4>2. QED
        BY <2>1, <4>1 DEF Context, BackupInv, RunsSpared
    <3>2. task'[t].name \in Names /\ Spared(task'[t].name, job'[t].def)
      BY <1>2, <1>3
    <3>3. QED
      BY <3>1, <3>2
  <2>3. \A m \in pending' : m \in Names /\ Spared(m, seen'[m])
    BY ContextTypes DEF Context, BackupInv, LaunchesSpared
  <2>4. \A m \in Names : StreakHolds(m)
    BY <1>1, <1>5 DEF StreakHolds
  <2>5. QED
    BY <2>2, <2>3, <2>4, SparingKept
<1>11. QED
  BY <1>6, <1>7, <1>8, <1>9, <1>10 DEF BackupInv

LEMMA LaunchKeeps ==
  ASSUME Context, NEW n \in Names, NEW t \in Tasks, LaunchEnters(n, t)
  PROVE  BackupInv'
<1>1. /\ n \in pending /\ task[t].phase = "idle"
      /\ pending' = pending \ {n} /\ seen' = [seen EXCEPT ![n] = Undefined]
      /\ task' = [task EXCEPT ![t] = [phase |-> "body", name |-> n]]
      /\ EnterRun(n, t, seen[n], FALSE)
  BY DEF LaunchEnters, LaunchRuns, Forget
<1>2. Spared(n, seen[n]) /\ seen[n] \in Definition \cup {Undefined}
  BY <1>1, ContextTypes DEF Context, BackupInv, LaunchesSpared
<1>3. /\ pending' \subseteq pending
      /\ \A m \in pending' : seen'[m] = seen[m]
      /\ seen' \in [Names -> Definition \cup {Undefined}]
  BY <1>1, ContextTypes
<1>4. /\ \A u \in Tasks \ {t} : task'[u] = task[u]
      /\ task'[t] = [phase |-> "body", name |-> n]
  BY <1>1, ContextTypes
<1>5. t \notin InFlight(n)
  BY <1>1, SchedulerConstants DEF Context, TasksInOrder, Idle, InFlight, SchedulerConstants
<1>6. QED
  BY <1>1, <1>2, <1>3, <1>4, <1>5, RunEntered

\* Where a task that is about to start comes from.
LEMMA StartingTask ==
  ASSUME Context, NEW t \in Tasks, FirstStep(t) \/ HasSlot(t)
  PROVE  /\ task[t].phase \in {"created", "waiting"}
         /\ task[t].name \in Names /\ task[t].name \notin pending
         /\ t \in Active /\ pending' = pending
<1>1. task[t].phase \in {"created", "waiting"} /\ pending' = pending
  BY HeadWaits DEF FirstStep, HasSlot, Context
<1>2. t \in Active /\ task[t].name \in Names
  BY <1>1, ActiveNames DEF Active, Context
<1>3. CASE FirstStep(t)
  BY <1>1, <1>2, <1>3 DEF FirstStep
<1>4. CASE HasSlot(t)
  <2>1. task[t].phase = "waiting"
    BY <1>4, HeadWaits DEF Context
  <2>2. QED
    BY <1>1, <1>2, <2>1 DEF Context, TasksInOrder
<1>5. QED
  BY <1>3, <1>4

LEMMA BodiesNotPending ==
  ASSUME Context, NEW t \in Tasks, task[t].phase = "body"
  PROVE  task[t].name \in Names /\ task[t].name \notin pending /\ t \in Active
  BY ActiveNames DEF Context, TasksInOrder, Active

\* The task of a run-now enters its run.
LEMMA StartKeeps ==
  ASSUME Context, NEW t \in Tasks, StartRun(t)
  PROVE  BackupInv'
<1> DEFINE n == task[t].name
           d == job[t].def
<1>1. FirstStep(t) \/ HasSlot(t)
  BY DEF StartRun, ReservedRuns, WaiterRuns
<1>2. /\ task[t].phase \in {"created", "waiting"} /\ n \in Names
      /\ t \in Active /\ pending' = pending
  BY <1>1, StartingTask
<1>3. /\ task' = [task EXCEPT ![t].phase = "body"] /\ seen' = seen
      /\ EnterRun(n, t, d, TRUE)
  BY DEF StartRun, ReservedRuns, WaiterRuns
<1>4. Spared(n, d) /\ d \in Definition \cup {Undefined}
  BY <1>2, ContextTypes DEF Context, BackupInv, RunsSpared, Job
<1>5. /\ \A u \in Tasks \ {t} : task'[u] = task[u]
      /\ task'[t] = [phase |-> "body", name |-> n]
  BY <1>3, ContextTypes
<1>6. seen' \in [Names -> Definition \cup {Undefined}]
  BY <1>3, ContextTypes
<1> HIDE DEF n, d
<1>7. task[t].name = n /\ task[t].phase # "body"
  BY <1>2 DEF n
<1>8. QED
  BY <1>2, <1>3, <1>4, <1>5, <1>6, <1>7, RunEntered

LEMMA QueueKeeps ==
  ASSUME Context, NEW t \in Tasks, QueueForSlot(t)
  PROVE  BackupInv'
<1>1. /\ UNCHANGED <<config, state, history, cut, up, minute, pending, seen, job, save>>
      /\ task' = [task EXCEPT ![t].phase = "waiting"] /\ task[t].phase = "created"
  BY DEF QueueForSlot, ReservedQueues, FirstStep, disk
<1>2. /\ \A u \in Tasks : task'[u].name = task[u].name
      /\ \A u \in Tasks : task[u].phase = "body" => task'[u] = task[u]
      /\ Active' = Active
  BY <1>1, ContextTypes DEF Active
<1>3. BackupTypeOK'
  BY <1>1, ContextTypes DEF BackupTypeOK
<1>4. AutoDisabled'
  BY <1>1, ContextTypes DEF AutoDisabled
<1>5. RunningIsReal' /\ OperationIsReal'
  BY <1>1, <1>2, StatusesKept DEF Active
<1>6. RunsSpared' /\ LaunchesSpared'
  <2>1. RunsSpared /\ LaunchesSpared /\ \A u \in Active : u \in Tasks /\ task[u].name \in Names
    BY ActiveNames DEF Context, BackupInv
  <2>2. \A u \in Active' : task'[u].name \in Names /\ Spared(task'[u].name, job'[u].def)
    BY <1>1, <1>2, <2>1 DEF RunsSpared
  <2>3. \A m \in pending' : m \in Names /\ Spared(m, seen'[m])
    BY <1>1, <2>1, ContextTypes DEF LaunchesSpared
  <2>4. \A m \in Names : StreakHolds(m)
    BY <1>1 DEF StreakHolds
  <2>5. QED
    BY <2>2, <2>3, <2>4, SparingKept
<1>7. QED
  BY <1>3, <1>4, <1>5, <1>6 DEF BackupInv

LEMMA RequestedRunKeeps ==
  ASSUME Context, NEW n \in Names, NEW t \in Tasks, RequestRun(n, t)
  PROVE  BackupInv'
<1> DEFINE j == [NoJob EXCEPT !.def = config[n], !.op = TRUE]
<1>1. /\ UNCHANGED <<config, state, cut, up, minute, pending, seen, save>>
      /\ task[t].phase = "idle"
      /\ task' = [task EXCEPT ![t] = [phase |-> "created", name |-> n]]
      /\ job' = [job EXCEPT ![t] = j]
      /\ history' = [history EXCEPT ![n] = "running"]
  BY DEF RequestRun, RunNow
<1>2. j \in Job /\ j.def = config[n] /\ j.op = TRUE
  BY ContextTypes DEF NoJob, Job
<1> HIDE DEF j
<1>3. /\ job' \in [Tasks -> Job] /\ job'[t] = j
      /\ \A u \in Tasks \ {t} : job'[u] = job[u] /\ task'[u] = task[u]
      /\ task'[t].name = n
  BY <1>1, <1>2, ContextTypes
<1>4. /\ history' \in [Names -> {"none", "running", "completed", "failed", "cancelled"}]
      /\ \A m \in Names \ {n} : history'[m] = history[m]
  BY <1>1, ContextTypes
<1>5. BackupTypeOK'
  BY <1>1, <1>3, <1>4, ContextTypes DEF BackupTypeOK
<1>6. AutoDisabled'
  BY <1>1, ContextTypes DEF AutoDisabled
<1>7. \A m \in Names : t \notin InFlight(m)
  BY <1>1, SchedulerConstants DEF Context, TasksInOrder, Idle, InFlight, SchedulerConstants
<1>8. RunningIsReal'
  BY <1>1, <1>3, <1>7, RunningKept DEF InFlight
<1>9. OperationIsReal'
  <2>1. t \in InFlight(n)' /\ job'[t].op
    BY <1>2, <1>3 DEF InFlight
  <2>2. ASSUME NEW m \in Names \ {n}, up, history[m] = "running"
        PROVE  \E u \in InFlight(m)' : job'[u].op
    <3>1. PICK u \in InFlight(m) : job[u].op
      BY <2>2 DEF Context, BackupInv, OperationIsReal
    <3>2. u \in Tasks \ {t} /\ task[u].name = m
      BY <1>7, <3>1 DEF InFlight
    <3>3. QED
      BY <1>3, <3>1, <3>2 DEF InFlight
  <2>3. QED
    BY <1>1, <1>4, <2>1, <2>2 DEF OperationIsReal
<1>10. RunsSpared' /\ LaunchesSpared'
  <2>1. RunsSpared /\ LaunchesSpared /\ \A u \in Active : u \in Tasks /\ task[u].name \in Names
    BY ActiveNames DEF Context, BackupInv
  <2>2. \A u \in Active' : task'[u].name \in Names /\ Spared(task'[u].name, job'[u].def)
    <3>1. ASSUME NEW u \in Active', u # t
          PROVE  task'[u].name \in Names /\ Spared(task'[u].name, job'[u].def)
      <4>1. u \in Active /\ task'[u] = task[u] /\ job'[u] = job[u]
        BY <1>3, <3>1 DEF Active
      <4>2. QED
        BY <2>1, <4>1 DEF RunsSpared
    <3>2. task'[t].name \in Names /\ Spared(task'[t].name, job'[t].def)
      BY <1>2, <1>3 DEF Spared
    <3>3. QED
      BY <3>1, <3>2
  <2>3. \A m \in pending' : m \in Names /\ Spared(m, seen'[m])
    BY <1>1, <2>1, ContextTypes DEF LaunchesSpared
  <2>4. \A m \in Names : StreakHolds(m)
    BY <1>1 DEF StreakHolds
  <2>5. QED
    BY <2>2, <2>3, <2>4, SparingKept
<1>11. QED
  BY <1>5, <1>6, <1>8, <1>9, <1>10 DEF BackupInv

-----------------------------------------------------------------------------
(* Runs that advance and end *)

\* A run ends with its outcome in the run-state and its operation completed.
LEMMA RunEnded ==
  ASSUME Context, NEW t \in Tasks, NEW n \in Names, n = task[t].name, n \notin pending, t \in Active,
         task' = [task EXCEPT ![t] = Idle], job' = [job EXCEPT ![t] = NoJob],
         UNCHANGED <<pending, up, minute, seen, save>>,
         state' \in [Names -> Entry],
         config' \in [Names -> Definition \cup {Undefined}],
         history' \in [Names -> {"none", "running", "completed", "failed", "cancelled"}],
         AutoDisabled', state'[n].status # "running", cut' \subseteq Names,
         \A m \in Names \ {n} :
           state'[m] = state[m] /\ config'[m] = config[m] /\ history'[m] = history[m],
         history'[n] = "running" => history[n] = "running" /\ ~job[t].op
  PROVE  BackupInv'
<1>1. NoJob \in Job
  BY DEF NoJob, Job, Undefined
<1>2. /\ job' \in [Tasks -> Job]
      /\ \A u \in Tasks \ {t} : job'[u] = job[u] /\ task'[u] = task[u]
      /\ task'[t].phase = "idle"
  BY <1>1, ContextTypes DEF Idle
<1>3. BackupTypeOK'
  BY <1>2, ContextTypes DEF BackupTypeOK
<1>4. RunningIsReal'
  BY <1>2, RunningKept DEF InFlight
<1>5. OperationIsReal'
  BY <1>2, OperationsKept DEF InFlight
<1>6. RunsSpared' /\ LaunchesSpared'
  <2>1. RunsSpared /\ LaunchesSpared /\ \A u \in Active : u \in Tasks /\ task[u].name \in Names
    BY ActiveNames DEF Context, BackupInv
  <2>2. ASSUME NEW u \in Active'
        PROVE  /\ u \in Active /\ task'[u] = task[u] /\ job'[u] = job[u]
               /\ task[u].name # n
    <3>1. u \in Tasks \ {t} /\ u \in Active
      BY <1>2, <2>2 DEF Active
    <3>2. task[u].name # n
      BY <3>1 DEF Context, IInv, NonOverlap
    <3>3. QED
      BY <1>2, <3>1, <3>2
  <2>3. \A u \in Active' : task'[u].name \in Names /\ Spared(task'[u].name, job'[u].def)
    BY <2>1, <2>2 DEF RunsSpared
  <2>4. \A m \in pending' : m \in Names /\ Spared(m, seen'[m])
    BY <2>1, ContextTypes DEF LaunchesSpared
  <2>5. QuietAfter(n)
    BY <2>2 DEF QuietAfter
  <2>6. \A m \in Names \ {n} : StreakHolds(m)
    BY DEF StreakHolds
  <2>7. QED
    BY <2>3, <2>4, <2>5, <2>6, SparingKept
<1>7. QED
  BY <1>3, <1>4, <1>5, <1>6 DEF BackupInv

LEMMA SuccessRecorded ==
  ASSUME BackupTypeOK, AutoDisabled, NEW n \in Names, RecordSuccess(n)
  PROVE  /\ state' \in [Names -> Entry]
         /\ config' \in [Names -> Definition \cup {Undefined}]
         /\ AutoDisabled'
         /\ state'[n].status # "running"
         /\ \A m \in Names \ {n} : state'[m] = state[m] /\ config'[m] = config[m]
         /\ cut' \subseteq Names
<1>1. /\ state \in [Names -> Entry] /\ config \in [Names -> Definition \cup {Undefined}]
      /\ minute \in Minutes /\ cut \subseteq Names
  BY DEF BackupTypeOK
<1>2. Succeeded(state[n]) \in Entry /\ Succeeded(state[n]).failures = 0
      /\ Succeeded(state[n]).status # "running"
  BY <1>1, EntryMarked
<1>3. state' = [state EXCEPT ![n] = Succeeded(state[n])] /\ config' = config /\ cut' = cut \ {n}
  BY DEF RecordSuccess
<1>4. ~(0 >= AutoDisableAfter)
  BY BackupConstants DEF BackupConstants
<1>5. /\ state' \in [Names -> Entry] /\ state'[n] = Succeeded(state[n])
      /\ \A m \in Names \ {n} : state'[m] = state[m]
  BY <1>1, <1>2, <1>3
<1>6. AutoDisabled'
  BY <1>2, <1>3, <1>4, <1>5 DEF AutoDisabled
<1>7. QED
  BY <1>1, <1>2, <1>3, <1>5, <1>6

LEMMA StartFails ==
  ASSUME Context, NEW t \in Tasks, StartWithoutEndpoint(t)
  PROVE  BackupInv'
<1> DEFINE n == task[t].name
           d == job[t].def
           e == Fired(state[n])
<1>1. FirstStep(t) \/ HasSlot(t)
  BY DEF StartWithoutEndpoint, ReservedReturns, WaiterReturns
<1>2. n \in Names /\ n \notin pending /\ t \in Active /\ pending' = pending
  BY <1>1, StartingTask
<1>3. /\ task' = [task EXCEPT ![t] = Idle] /\ job' = [job EXCEPT ![t] = NoJob]
      /\ UNCHANGED <<up, minute, seen, save>>
      /\ RecordFailure(n, d, e, "failed") /\ Complete(n, "failed")
  BY DEF StartWithoutEndpoint, ReservedReturns, WaiterReturns
<1>4. Spared(n, d) /\ d \in Definition \cup {Undefined}
  BY <1>2, ContextTypes DEF Context, BackupInv, RunsSpared, Job
<1>5. e \in Entry /\ e.failures = state[n].failures
  BY <1>2, ContextTypes, EntryMarked
<1> HIDE DEF n, d, e
<1>6. /\ state' \in [Names -> Entry]
      /\ config' \in [Names -> Definition \cup {Undefined}]
      /\ AutoDisabled' /\ state'[n].status # "running"
      /\ \A m \in Names \ {n} : state'[m] = state[m] /\ config'[m] = config[m]
      /\ cut' \subseteq Names
  BY <1>2, <1>3, <1>4, <1>5, ContextTypes, FailureRecorded
<1>7. /\ history' \in [Names -> {"none", "running", "completed", "failed", "cancelled"}]
      /\ history'[n] # "running"
      /\ \A m \in Names \ {n} : history'[m] = history[m]
  BY <1>2, <1>3, ContextTypes, OperationCompleted
<1>8. n = task[t].name
  BY DEF n
<1>9. QED
  BY <1>2, <1>3, <1>6, <1>7, <1>8, RunEnded

LEMMA RunFails ==
  ASSUME Context, NEW t \in Tasks,
         ConnectFails(t) \/ PushFails(t) \/ \E status \in {"failed", "cancelled"} : DumpFails(t, status)
  PROVE  BackupInv'
<1> DEFINE n == task[t].name
           d == job[t].def
<1>1. /\ RunEnds(t) /\ task[t].phase = "body"
      /\ \E status \in {"failed", "copy_failed"} : RecordFailure(n, d, state[n], status)
      /\ \/ \E status \in {"completed", "failed", "cancelled"} : Complete(n, status)
         \/ UNCHANGED history /\ ~job[t].op
  BY DEF ConnectFails, PushFails, DumpFails, At
<1>2. n \in Names /\ n \notin pending /\ t \in Active
  BY <1>1, BodiesNotPending
<1>3. /\ task' = [task EXCEPT ![t] = Idle] /\ job' = [job EXCEPT ![t] = NoJob]
      /\ UNCHANGED <<pending, up, minute, seen, save>>
  BY <1>1 DEF RunEnds, Finish
<1>4. Spared(n, d) /\ d \in Definition \cup {Undefined}
  BY <1>2, ContextTypes DEF Context, BackupInv, RunsSpared, Job
<1>5. state[n] \in Entry
  BY <1>2, ContextTypes
<1> HIDE DEF n, d
<1>6. /\ state' \in [Names -> Entry]
      /\ config' \in [Names -> Definition \cup {Undefined}]
      /\ AutoDisabled' /\ state'[n].status # "running"
      /\ \A m \in Names \ {n} : state'[m] = state[m] /\ config'[m] = config[m]
      /\ cut' \subseteq Names
  BY <1>1, <1>2, <1>4, <1>5, ContextTypes, FailureRecorded
<1>7. /\ history' \in [Names -> {"none", "running", "completed", "failed", "cancelled"}]
      /\ history'[n] = "running" => history[n] = "running" /\ ~job[t].op
      /\ \A m \in Names \ {n} : history'[m] = history[m]
  BY <1>1, <1>2, ContextTypes, OperationCompleted
<1>8. n = task[t].name
  BY DEF n
<1>9. QED
  BY <1>2, <1>3, <1>6, <1>7, <1>8, RunEnded

LEMMA RunSucceeds ==
  ASSUME Context, NEW t \in Tasks, DumpKept(t) \/ PushSucceeds(t)
  PROVE  BackupInv'
<1> DEFINE n == task[t].name
<1>1. /\ RunEnds(t) /\ task[t].phase = "body" /\ RecordSuccess(n) /\ Complete(n, "completed")
  BY DEF DumpKept, PushSucceeds, At
<1>2. n \in Names /\ n \notin pending /\ t \in Active
  BY <1>1, BodiesNotPending
<1>3. /\ task' = [task EXCEPT ![t] = Idle] /\ job' = [job EXCEPT ![t] = NoJob]
      /\ UNCHANGED <<pending, up, minute, seen, save>>
  BY <1>1 DEF RunEnds, Finish
<1> HIDE DEF n
<1>4. /\ state' \in [Names -> Entry]
      /\ config' \in [Names -> Definition \cup {Undefined}]
      /\ AutoDisabled' /\ state'[n].status # "running"
      /\ \A m \in Names \ {n} : state'[m] = state[m] /\ config'[m] = config[m]
      /\ cut' \subseteq Names
  BY <1>1, <1>2, ContextTypes, SuccessRecorded
<1>5. /\ history' \in [Names -> {"none", "running", "completed", "failed", "cancelled"}]
      /\ history'[n] # "running"
      /\ \A m \in Names \ {n} : history'[m] = history[m]
  BY <1>1, <1>2, ContextTypes, OperationCompleted
<1>6. n = task[t].name
  BY DEF n
<1>7. QED
  BY <1>2, <1>3, <1>4, <1>5, <1>6, RunEnded

LEMMA RunProceeds ==
  ASSUME Context, NEW t \in Tasks, Connected(t) \/ DumpPushed(t)
  PROVE  BackupInv'
<1> DEFINE n == task[t].name
<1>1. /\ task[t].phase = "body"
      /\ UNCHANGED <<config, cut, up, minute, task, pending, seen, save>>
  BY DEF Connected, DumpPushed, At, engine
<1>2. n \in Names /\ t \in InFlight(n)
  BY <1>1, BodiesNotPending DEF InFlight
<1>3. /\ job' \in [Tasks -> Job]
      /\ \A u \in Tasks : job'[u].def = job[u].def /\ (job[u].op => job'[u].op)
  <2>1. job[t] \in Job
    BY ContextTypes
  <2>2. PICK j \in Job : /\ job' = [job EXCEPT ![t] = j]
                         /\ j.def = job[t].def /\ (job[t].op => j.op)
    <3>1. CASE Connected(t)
      <4>1. job' = [job EXCEPT ![t] = [job[t] EXCEPT !.op = TRUE, !.step = "dump"]]
        BY <3>1, ContextTypes DEF Connected
      <4>2. [job[t] EXCEPT !.op = TRUE, !.step = "dump"] \in Job
        BY <2>1 DEF Job
      <4>3. /\ [job[t] EXCEPT !.op = TRUE, !.step = "dump"].def = job[t].def
            /\ [job[t] EXCEPT !.op = TRUE, !.step = "dump"].op
        BY <2>1 DEF Job
      <4>4. QED
        BY <4>1, <4>2, <4>3
    <3>2. CASE DumpPushed(t)
      <4>1. job' = [job EXCEPT ![t] = [job[t] EXCEPT !.step = "push", !.cancel = FALSE]]
        BY <3>2, ContextTypes DEF DumpPushed
      <4>2. [job[t] EXCEPT !.step = "push", !.cancel = FALSE] \in Job
        BY <2>1 DEF Job
      <4>3. /\ [job[t] EXCEPT !.step = "push", !.cancel = FALSE].def = job[t].def
            /\ [job[t] EXCEPT !.step = "push", !.cancel = FALSE].op = job[t].op
        BY <2>1 DEF Job
      <4>4. QED
        BY <4>1, <4>2, <4>3
    <3>3. QED
      BY <3>1, <3>2
  <2>3. QED
    BY <2>2, ContextTypes
<1>4. /\ state' \in [Names -> Entry]
      /\ \A m \in Names : state'[m].failures = state[m].failures
      /\ \A m \in Names : state'[m].status = "running" => state[m].status = "running"
  <2>1. CASE Connected(t)
    <3>1. state' = [state EXCEPT ![n] = Touched(state[n])]
      BY <2>1 DEF Connected
    <3>2. state[n] \in Entry
      BY <1>2, ContextTypes
    <3>3. QED
      BY <1>2, <3>1, <3>2, ContextTypes, EntryTouched
  <2>2. CASE DumpPushed(t)
    BY <2>2, ContextTypes DEF DumpPushed
  <2>3. QED
    BY <2>1, <2>2
<1>5. /\ history' \in [Names -> {"none", "running", "completed", "failed", "cancelled"}]
      /\ \A m \in Names : history'[m] = "running" =>
           history[m] = "running" \/ (m = n /\ job'[t].op)
  <2>1. CASE Connected(t)
    <3>1. job'[t].op
      BY <2>1, ContextTypes DEF Connected, Job
    <3>2. history' = history \/ history' = [history EXCEPT ![n] = "running"]
      BY <2>1 DEF Connected
    <3>3. QED
      BY <1>2, <3>1, <3>2, ContextTypes
  <2>2. CASE DumpPushed(t)
    <3>1. Complete(n, "completed")
      BY <2>2 DEF DumpPushed
    <3>2. QED
      BY <1>2, <3>1, ContextTypes, OperationCompleted
  <2>3. QED
    BY <2>1, <2>2
<1> HIDE DEF n
<1>6. BackupTypeOK'
  BY <1>1, <1>3, <1>4, <1>5, ContextTypes DEF BackupTypeOK
<1>7. AutoDisabled'
  BY <1>1, <1>4, ContextTypes DEF AutoDisabled
<1>8. RunningIsReal'
  BY <1>1, <1>4, RunningKept DEF InFlight
<1>9. OperationIsReal'
  <2>1. ASSUME NEW m \in Names, up, history'[m] = "running"
        PROVE  \E u \in InFlight(m) : job'[u].op
    <3>1. CASE history[m] = "running"
      <4>1. PICK u \in InFlight(m) : job[u].op
        BY <2>1, <3>1 DEF Context, BackupInv, OperationIsReal
      <4>2. QED
        BY <1>3, <4>1 DEF InFlight
    <3>2. CASE m = n /\ job'[t].op
      BY <1>2, <3>2
    <3>3. QED
      BY <1>5, <2>1, <3>1, <3>2
  <2>2. QED
    BY <1>1, <2>1 DEF OperationIsReal, InFlight
<1>10. RunsSpared' /\ LaunchesSpared'
  BY <1>1, <1>3, <1>4, BystandersSpared DEF StreakHolds
<1>11. QED
  BY <1>6, <1>7, <1>8, <1>9, <1>10 DEF BackupInv

-----------------------------------------------------------------------------
(* Crash and boot *)

\* A process that dies leaves nothing in flight, whatever of its disk it got to write.
LEMMA DeathLeaves ==
  ASSUME Context, Dies,
         config' \in [Names -> Definition \cup {Undefined}], UNCHANGED state, cut' \subseteq Names,
         history' \in [Names -> {"none", "running", "completed", "failed", "cancelled"}],
         AutoDisabled'
  PROVE  BackupInv'
<1>1. /\ UNCHANGED minute /\ up' = FALSE
      /\ pending' = {} /\ task' = [t \in Tasks |-> Idle]
      /\ seen' = [n \in Names |-> Undefined] /\ job' = [t \in Tasks |-> NoJob]
      /\ save' = [a \in Admins |-> NoSave]
  BY DEF Dies, Crash
<1>2. NoJob \in Job
  BY DEF NoJob, Job, Undefined
<1>3. BackupTypeOK'
  BY <1>1, <1>2, ContextTypes DEF BackupTypeOK
<1>4. RunningIsReal' /\ OperationIsReal'
  BY <1>1 DEF RunningIsReal, OperationIsReal
<1>5. RunsSpared' /\ LaunchesSpared'
  BY <1>1 DEF RunsSpared, LaunchesSpared, Active, Idle
<1>6. QED
  BY <1>3, <1>4, <1>5 DEF BackupInv

\* What a request that is killed midway has written.
LEMMA MidwayWrites ==
  ASSUME Context, NEW n \in Names, DiesMidway(n)
  PROVE  \E d \in Definition \cup {Undefined} :
           /\ config' = [config EXCEPT ![n] = d]
           /\ \/ d.settings = config[n].settings
              \/ d = Undefined
              \/ \E a \in Admins : save[a] = [name |-> n, def |-> d] /\ save'[a] = NoSave
<1>1. ASSUME NEW a \in Admins, save[a] # NoSave, save[a].name = n, Written(n, save[a].def)
      PROVE  /\ save[a].def \in Definition /\ config' = [config EXCEPT ![n] = save[a].def]
             /\ save[a] = [name |-> n, def |-> save[a].def] /\ save'[a] = NoSave
  <2>1. save[a] \in [name : Names, def : Definition]
    BY <1>1, ContextTypes
  <2>2. QED
    BY <1>1, <2>1 DEF Written, DiesMidway, Dies
<1>2. ASSUME Defined(n), Written(n, Switched(n, TRUE))
      PROVE  /\ Switched(n, TRUE) \in Definition /\ Switched(n, TRUE).settings = config[n].settings
             /\ config' = [config EXCEPT ![n] = Switched(n, TRUE)]
  <2>1. config[n] \in Definition
    BY <1>2, ContextTypes DEF Defined
  <2>2. Switched(n, TRUE) \in Definition /\ Switched(n, TRUE).settings = config[n].settings
    BY <2>1 DEF Switched, Definition
  <2>3. QED
    BY <1>2, <2>2 DEF Written
<1>3. QED
  BY <1>1, <1>2 DEF DiesMidway, Written

LEMMA DeathKeeps ==
  ASSUME Context,
         \/ ProcessDies
         \/ \E n \in Names : DiesMidway(n)
         \/ \E t \in Tasks : DiesConcluding(t)
  PROVE  BackupInv'
<1>1. CASE ProcessDies
  BY <1>1, DeathLeaves, ContextTypes DEF ProcessDies, disk, AutoDisabled
<1>2. ASSUME NEW n \in Names, DiesMidway(n) PROVE BackupInv'
  <2>1. PICK d \in Definition \cup {Undefined} : config' = [config EXCEPT ![n] = d]
    BY <1>2, MidwayWrites
  <2>2. Dies /\ UNCHANGED <<state, history>> /\ cut' = cut \cup {n}
    BY <1>2 DEF DiesMidway
  <2>3. /\ config' \in [Names -> Definition \cup {Undefined}]
        /\ \A m \in Names \ {n} : config'[m] = config[m]
    BY <2>1, ContextTypes
  <2>4. AutoDisabled'
    BY <2>2, <2>3, ContextTypes DEF AutoDisabled
  <2>5. QED
    BY <2>2, <2>3, <2>4, ContextTypes, DeathLeaves
<1>3. ASSUME NEW t \in Tasks, DiesConcluding(t) PROVE BackupInv'
  <2>1. /\ Dies /\ UNCHANGED <<config, state, cut>> /\ task[t].phase = "body"
        /\ \E status \in {"completed", "failed", "cancelled"} : Complete(task[t].name, status)
    BY <1>3 DEF DiesConcluding, At
  <2>2. task[t].name \in Names
    BY <2>1, BodiesNotPending
  <2>3. history' \in [Names -> {"none", "running", "completed", "failed", "cancelled"}]
    BY <2>1, <2>2, ContextTypes, OperationCompleted
  <2>4. AutoDisabled'
    BY <2>1, ContextTypes DEF AutoDisabled
  <2>5. QED
    BY <2>1, <2>3, <2>4, ContextTypes, DeathLeaves
<1>4. QED
  BY <1>1, <1>2, <1>3

LEMMA BootKeeps ==
  ASSUME Context, Boot
  PROVE  BackupInv'
<1> DEFINE settled(e) == [e EXCEPT !.status = "failed"]
<1>1. /\ UNCHANGED <<config, cut, minute, seen, job, save, task, pending>> /\ up' = TRUE
      /\ history' = [n \in Names |-> IF history[n] = "running" THEN "failed" ELSE history[n]]
      /\ state' = [n \in Names |-> IF state[n].status = "running" THEN settled(state[n]) ELSE state[n]]
  BY DEF Boot, Start
<1>2. \A e \in Entry : /\ settled(e) \in Entry
                        /\ settled(e).failures = e.failures /\ settled(e).status = "failed"
  BY DEF Entry
<1> HIDE DEF settled
<1>3. /\ state' \in [Names -> Entry]
      /\ \A n \in Names : state'[n].failures = state[n].failures /\ state'[n].status # "running"
  BY <1>1, <1>2, ContextTypes
<1>4. /\ history' \in [Names -> {"none", "running", "completed", "failed", "cancelled"}]
      /\ \A n \in Names : history'[n] # "running"
  BY <1>1, ContextTypes
<1>5. BackupTypeOK'
  BY <1>1, <1>3, <1>4, ContextTypes DEF BackupTypeOK
<1>6. AutoDisabled'
  BY <1>1, <1>3, ContextTypes DEF AutoDisabled
<1>7. RunningIsReal' /\ OperationIsReal'
  BY <1>3, <1>4 DEF RunningIsReal, OperationIsReal
<1>8. RunsSpared' /\ LaunchesSpared'
  BY <1>1, <1>3, BystandersSpared DEF StreakHolds
<1>9. QED
  BY <1>5, <1>6, <1>7, <1>8 DEF BackupInv

-----------------------------------------------------------------------------
(* The inductive invariant *)

LEMMA InitBackupInv == BackupInit => BackupInv
<1> SUFFICES ASSUME BackupInit PROVE BackupInv
  OBVIOUS
<1>1. IInv
  BY InitIInv DEF BackupInit
<1>2. NoEntry \in Entry /\ NoJob \in Job /\ 0 \in Minutes
  BY BackupConstants DEF BackupConstants, NoEntry, Entry, NoJob, Job, Undefined
<1>3. BackupTypeOK
  BY <1>1, <1>2 DEF IInv, BackupInit, BackupTypeOK
<1>4. AutoDisabled
  BY DEF BackupInit, AutoDisabled, Undefined
<1>5. RunningIsReal /\ OperationIsReal
  BY DEF BackupInit, RunningIsReal, OperationIsReal
<1>6. RunsSpared /\ LaunchesSpared
  BY DEF BackupInit, Init, RunsSpared, LaunchesSpared, Active, Idle
<1>7. QED
  BY <1>3, <1>4, <1>5, <1>6 DEF BackupInv

LEMMA RequestsKeep ==
  ASSUME Context, Request
  PROVE  BackupInv'
<1>1. ASSUME NEW n \in Names, NEW t \in Tasks, RequestRun(n, t) PROVE BackupInv'
  BY <1>1, RequestedRunKeeps
<1>2. CASE \/ \E a \in Admins, n \in Names, def \in Definition : SaveChecked(a, n, def)
           \/ \E a \in Admins : SaveRejected(a)
           \/ \E n \in Names, t \in Tasks : CancelDump(n, t)
  BY <1>2, BystandingRequests
<1>3. CASE \/ \E a \in Admins : SaveCommitted(a)
           \/ \E n \in Names, enabled \in BOOLEAN : Toggle(n, enabled)
           \/ \E n \in Names : Delete(n)
  BY <1>3, WritingRequests
<1>4. CASE ClearHistory \/ \E n \in Names : CancelStale(n)
  BY <1>4, HistoryRequests
<1>5. QED
  BY <1>1, <1>2, <1>3, <1>4 DEF Request

LEMMA StutterKeeps ==
  ASSUME BackupInv, UNCHANGED allVars
  PROVE  BackupInv'
<1>1. /\ UNCHANGED <<ticking, pending, running, sem, task>>
      /\ UNCHANGED <<config, state, history, cut, up, minute, seen, job, save>>
  BY DEF allVars, engine, disk
<1>2. BackupTypeOK'
  BY <1>1 DEF BackupInv, BackupTypeOK, TypeOK
<1>3. AutoDisabled' /\ RunningIsReal' /\ OperationIsReal'
  BY <1>1 DEF BackupInv, AutoDisabled, RunningIsReal, OperationIsReal, InFlight
<1>4. RunsSpared' /\ LaunchesSpared'
  BY <1>1 DEF BackupInv, RunsSpared, LaunchesSpared, Spared, Active
<1>5. QED
  BY <1>2, <1>3, <1>4 DEF BackupInv

LEMMA NextBackupInv ==
  IInv /\ IInv' /\ TasksInOrder /\ TasksInOrder' /\ BackupInv /\ [BackupNext]_allVars
    => BackupInv'
<1> SUFFICES ASSUME Context, [BackupNext]_allVars PROVE BackupInv'
  BY DEF Context
<1>1. CASE TickSchedules
  BY <1>1, TickKeeps
<1>2. ASSUME NEW n \in Names, LaunchDecided(n) PROVE BackupInv'
  BY <1>2, LaunchDropped, LaunchFails, LaunchKeeps DEF LaunchDecided
<1>3. ASSUME NEW t \in Tasks, TaskStarts(t) PROVE BackupInv'
  BY <1>3, QueueKeeps, StartKeeps, StartFails DEF TaskStarts
<1>4. ASSUME NEW t \in Tasks, RunAdvances(t) PROVE BackupInv'
  BY <1>4, RunProceeds, RunFails, RunSucceeds DEF RunAdvances
<1>5. CASE Request
  BY <1>5, RequestsKeep
<1>6. CASE MinutePasses \/ Shutdown
  BY <1>6, BystandingRequests
<1>7. CASE \/ ProcessDies \/ Boot
           \/ \E n \in Names : DiesMidway(n)
           \/ \E t \in Tasks : DiesConcluding(t)
  BY <1>7, DeathKeeps, BootKeeps
<1>8. CASE UNCHANGED allVars
  BY <1>8, StutterKeeps DEF Context
<1>9. QED
  BY <1>1, <1>2, <1>3, <1>4, <1>5, <1>6, <1>7, <1>8 DEF BackupNext

\* The end-to-end invariant: the disk never contradicts the runs in flight, and
\* no run in flight can write over an administrator's change.
THEOREM BackupInvariant == BackupSpec => []BackupInv
<1>1. BackupSpec => []IInv /\ []TasksInOrder
  BY BackupsRunOnTheEngine, SchedulerInvariant, LaunchesComeFirst, PTL
<1>2. QED
  BY <1>1, InitBackupInv, NextBackupInv, PTL DEF BackupSpec

\* Every variable of scheduled backups keeps its type.
THEOREM BackupTypes == BackupSpec => []BackupTypeOK
<1>1. BackupInv => BackupTypeOK
  BY DEF BackupInv
<1>2. QED
  BY <1>1, BackupInvariant, PTL

\* A schedule that failed _AUTO_DISABLE_AFTER times in a row is disabled unless the
\* write that goes with its streak was cut off and none was made since, for every
\* interleaving of runs, edits, toggles, deletions, failing writes and crashes.
THEOREM FailingSchedulesAreDisabled == BackupSpec => []AutoDisabled
<1>1. BackupInv => AutoDisabled
  BY DEF BackupInv
<1>2. QED
  BY <1>1, BackupInvariant, PTL

\* A run-state that says "running" is that of a run in progress.
THEOREM RunningStatesAreReal == BackupSpec => []RunningIsReal
<1>1. BackupInv => RunningIsReal
  BY DEF BackupInv
<1>2. QED
  BY <1>1, BackupInvariant, PTL

\* An operation that says "running" is that of a run that will complete it.
THEOREM RunningOperationsAreReal == BackupSpec => []OperationIsReal
<1>1. BackupInv => OperationIsReal
  BY DEF BackupInv
<1>2. QED
  BY <1>1, BackupInvariant, PTL

-----------------------------------------------------------------------------
(* Who changes a definition *)

\* What AdminsOwnDefinitions says of the step for one schedule.
OwnedByAdmins(n) ==
  config'[n].settings # config[n].settings =>
    \/ config'[n] = Undefined
    \/ \E a \in Admins : save[a] = [name |-> n, def |-> config'[n]] /\ save'[a] = NoSave

LEMMA FailuresOwnNothing ==
  ASSUME Context,
         \/ \E n \in Names : LaunchWithoutEndpoint(n)
         \/ \E t \in Tasks : \/ StartWithoutEndpoint(t)
                             \/ ConnectFails(t) \/ PushFails(t)
                             \/ \E status \in {"failed", "cancelled"} : DumpFails(t, status)
  PROVE  \A m \in Names : config'[m].settings = config[m].settings
<1>1. ASSUME NEW n \in Names, LaunchWithoutEndpoint(n)
      PROVE \A m \in Names : config'[m].settings = config[m].settings
  <2>1. n \in pending /\ RecordFailure(n, seen[n], Fired(state[n]), "failed")
    BY <1>1 DEF LaunchWithoutEndpoint, LaunchReturns
  <2>2. Spared(n, seen[n]) /\ seen[n] \in Definition \cup {Undefined}
    BY <2>1, ContextTypes DEF Context, BackupInv, LaunchesSpared
  <2>3. Fired(state[n]) \in Entry /\ Fired(state[n]).failures = state[n].failures
    BY ContextTypes, EntryMarked
  <2>4. QED
    BY <2>1, <2>2, <2>3, ContextTypes, FailureRecorded
<1>2. ASSUME NEW t \in Tasks, StartWithoutEndpoint(t)
      PROVE \A m \in Names : config'[m].settings = config[m].settings
  <2> DEFINE n == task[t].name
             d == job[t].def
             e == Fired(state[n])
  <2>1. (FirstStep(t) \/ HasSlot(t)) /\ RecordFailure(n, d, e, "failed")
    BY <1>2 DEF StartWithoutEndpoint, ReservedReturns, WaiterReturns
  <2>2. n \in Names /\ t \in Active
    BY <2>1, StartingTask
  <2>3. Spared(n, d) /\ d \in Definition \cup {Undefined}
    BY <2>2, ContextTypes DEF Context, BackupInv, RunsSpared, Job
  <2>4. e \in Entry /\ e.failures = state[n].failures
    BY <2>2, ContextTypes, EntryMarked
  <2> HIDE DEF n, d, e
  <2>5. QED
    BY <2>1, <2>2, <2>3, <2>4, ContextTypes, FailureRecorded
<1>3. ASSUME NEW t \in Tasks,
             \/ ConnectFails(t) \/ PushFails(t)
             \/ \E status \in {"failed", "cancelled"} : DumpFails(t, status)
      PROVE \A m \in Names : config'[m].settings = config[m].settings
  <2> DEFINE n == task[t].name
             d == job[t].def
  <2>1. /\ task[t].phase = "body"
        /\ \E status \in {"failed", "copy_failed"} : RecordFailure(n, d, state[n], status)
    BY <1>3 DEF ConnectFails, PushFails, DumpFails, At
  <2>2. n \in Names /\ t \in Active
    BY <2>1, BodiesNotPending
  <2>3. Spared(n, d) /\ d \in Definition \cup {Undefined}
    BY <2>2, ContextTypes DEF Context, BackupInv, RunsSpared, Job
  <2>4. state[n] \in Entry
    BY <2>2, ContextTypes
  <2> HIDE DEF n, d
  <2>5. QED
    BY <2>1, <2>2, <2>3, <2>4, ContextTypes, FailureRecorded
<1>4. QED
  BY <1>1, <1>2, <1>3

LEMMA RequestsOwned ==
  ASSUME Context, Request, NEW m \in Names
  PROVE  OwnedByAdmins(m)
<1>1. ASSUME NEW n \in Names, NEW t \in Tasks, RequestRun(n, t) \/ CancelDump(n, t)
      PROVE OwnedByAdmins(m)
  BY <1>1 DEF RequestRun, CancelDump, disk, OwnedByAdmins
<1>2. ASSUME NEW n \in Names, CancelStale(n) PROVE OwnedByAdmins(m)
  BY <1>2 DEF CancelStale, OwnedByAdmins
<1>3. ASSUME NEW n \in Names, NEW enabled \in BOOLEAN, Toggle(n, enabled)
      PROVE OwnedByAdmins(m)
  <2>1. config[n] \in Definition /\ config' = [config EXCEPT ![n] = [config[n] EXCEPT !.enabled = enabled]]
    BY <1>3, ContextTypes DEF Toggle, Written, Switched, Defined
  <2>2. [config[n] EXCEPT !.enabled = enabled].settings = config[n].settings
    BY <2>1 DEF Definition
  <2>3. config'[m].settings = config[m].settings
    BY <2>1, <2>2, ContextTypes
  <2>4. QED
    BY <2>3 DEF OwnedByAdmins
<1>4. ASSUME NEW n \in Names, Delete(n) PROVE OwnedByAdmins(m)
  BY <1>4, ContextTypes DEF Delete, Written, OwnedByAdmins
<1>5. ASSUME NEW a \in Admins, SaveCommitted(a) PROVE OwnedByAdmins(m)
  <2>1. save[a] \in [name : Names, def : Definition]
    BY <1>5, ContextTypes DEF SaveCommitted
  <2>2. save[a] = [name |-> save[a].name, def |-> save[a].def] /\ save'[a] = NoSave
    BY <1>5, <2>1, ContextTypes DEF SaveCommitted
  <2>3. /\ save[a].name # m => config'[m] = config[m]
        /\ save[a].name = m => config'[m] = save[a].def
    BY <1>5, ContextTypes DEF SaveCommitted, Written
  <2>4. QED
    BY <2>2, <2>3 DEF OwnedByAdmins
<1>6. CASE \/ \E a \in Admins, n \in Names, def \in Definition : SaveChecked(a, n, def)
           \/ \E a \in Admins : SaveRejected(a)
           \/ ClearHistory
  BY <1>6 DEF SaveChecked, SaveRejected, ClearHistory, disk, OwnedByAdmins
<1>7. QED
  BY <1>1, <1>2, <1>3, <1>4, <1>5, <1>6 DEF Request

LEMMA StepsOwned ==
  ASSUME Context, [BackupNext]_allVars, NEW m \in Names
  PROVE  OwnedByAdmins(m)
<1>1. CASE TickSchedules \/ MinutePasses \/ Shutdown \/ ProcessDies \/ Boot \/ UNCHANGED allVars
  BY <1>1 DEF TickSchedules, MinutePasses, Shutdown, ProcessDies, Boot, allVars, disk, OwnedByAdmins
<1>2. ASSUME NEW n \in Names, LaunchDecided(n) PROVE OwnedByAdmins(m)
  <2>1. CASE LaunchWithoutEndpoint(n)
    BY <2>1, FailuresOwnNothing DEF OwnedByAdmins
  <2>2. CASE LaunchSkipped(n) \/ LaunchDuplicate(n) \/ \E t \in Tasks : LaunchEnters(n, t)
    BY <2>2 DEF LaunchSkipped, LaunchDuplicate, LaunchEnters, EnterRun, disk, OwnedByAdmins
  <2>3. QED
    BY <1>2, <2>1, <2>2 DEF LaunchDecided
<1>3. ASSUME NEW t \in Tasks, TaskStarts(t) \/ RunAdvances(t) PROVE OwnedByAdmins(m)
  <2>1. CASE \/ StartWithoutEndpoint(t) \/ ConnectFails(t) \/ PushFails(t)
             \/ \E status \in {"failed", "cancelled"} : DumpFails(t, status)
    BY <2>1, FailuresOwnNothing DEF OwnedByAdmins
  <2>2. CASE \/ QueueForSlot(t) \/ StartRun(t) \/ Connected(t) \/ DumpPushed(t)
             \/ DumpKept(t) \/ PushSucceeds(t)
    BY <2>2 DEF QueueForSlot, StartRun, EnterRun, Connected, DumpPushed, DumpKept,
                PushSucceeds, RecordSuccess, disk, OwnedByAdmins
  <2>3. QED
    BY <1>3, <2>1, <2>2 DEF TaskStarts, RunAdvances
<1>4. CASE Request
  BY <1>4, RequestsOwned
<1>5. ASSUME NEW t \in Tasks, DiesConcluding(t) PROVE OwnedByAdmins(m)
  BY <1>5 DEF DiesConcluding, OwnedByAdmins
<1>6. ASSUME NEW n \in Names, DiesMidway(n) PROVE OwnedByAdmins(m)
  <2>1. PICK d \in Definition \cup {Undefined} :
          /\ config' = [config EXCEPT ![n] = d]
          /\ \/ d.settings = config[n].settings
             \/ d = Undefined
             \/ \E a \in Admins : save[a] = [name |-> n, def |-> d] /\ save'[a] = NoSave
    BY <1>6, MidwayWrites
  <2>2. CASE m = n
    BY <2>1, <2>2, ContextTypes DEF OwnedByAdmins
  <2>3. CASE m # n
    BY <2>1, <2>3, ContextTypes DEF OwnedByAdmins
  <2>4. QED
    BY <2>2, <2>3
<1>7. QED
  BY <1>1, <1>2, <1>3, <1>4, <1>5, <1>6 DEF BackupNext

\* Auto-disable writes back the definition a run started with, and still never
\* undoes an edit or a deletion: only saves and deletions change what a schedule does.
THEOREM DefinitionsBelongToAdmins == BackupSpec => AdminsOwnDefinitions
<1>1. BackupSpec => []IInv /\ []TasksInOrder /\ []BackupInv
  BY BackupsRunOnTheEngine, SchedulerInvariant, LaunchesComeFirst, BackupInvariant, PTL
<1>2. /\ IInv /\ IInv' /\ TasksInOrder /\ TasksInOrder' /\ BackupInv
      /\ [BackupNext]_allVars
      => [\A n \in Names : OwnedByAdmins(n)]_allVars
  BY StepsOwned DEF Context
<1>3. [\A n \in Names : OwnedByAdmins(n)]_allVars =>
        [\A n \in Names : config'[n].settings # config[n].settings =>
           \/ config'[n] = Undefined
           \/ \E a \in Admins : save[a] = [name |-> n, def |-> config'[n]] /\ save'[a] = NoSave
        ]_allVars
  BY DEF OwnedByAdmins
<1>4. QED
  BY <1>1, <1>2, <1>3, PTL DEF BackupSpec, AdminsOwnDefinitions

-----------------------------------------------------------------------------
(* The tick's de-dup *)

\* last_fired_minute is written by the two starts of a run, and by nothing else.
LEMMA EntryStamps ==
  ASSUME NEW e \in Entry
  PROVE  /\ Touched(e).fired = e.fired /\ StreakCleared(e).fired = e.fired
         /\ Succeeded(e).fired = e.fired /\ Fired(e).fired = minute
         /\ \A status \in {"failed", "copy_failed"} :
              Failed(e, status).fired = e.fired /\ Failed(Fired(e), status).fired = minute
         /\ [e EXCEPT !.status = "failed"].fired = e.fired
<1>1. Touched(e).fired = e.fired /\ Succeeded(e).fired = e.fired /\ Fired(e).fired = minute
      /\ [e EXCEPT !.status = "failed"].fired = e.fired
  BY DEF Entry, Touched, Succeeded, Fired
<1>2. StreakCleared(e).fired = e.fired
  BY DEF Entry, Touched, StreakCleared
<1>3. ASSUME NEW status \in {"failed", "copy_failed"}
      PROVE  Failed(e, status).fired = e.fired /\ Failed(Fired(e), status).fired = minute
  BY DEF Entry, Failed, Fired
<1>4. QED
  BY <1>1, <1>2, <1>3

\* The stamp of a schedule is kept, is set to the current minute, or goes with the schedule.
StampKept(m) == Deletes(m) \/ state'[m].fired \in {state[m].fired, minute}

LEMMA RequestsKeepStamps ==
  ASSUME BackupTypeOK, Request, NEW m \in Names
  PROVE  StampKept(m)
<1>1. state \in [Names -> Entry] /\ config \in [Names -> Definition \cup {Undefined}]
  BY DEF BackupTypeOK
<1>2. CASE \/ \E n \in Names :
                \/ \E t \in Tasks : RequestRun(n, t) \/ CancelDump(n, t)
                \/ CancelStale(n)
                \/ \E a \in Admins, def \in Definition : SaveChecked(a, n, def)
           \/ \E a \in Admins : SaveRejected(a)
           \/ ClearHistory
  BY <1>2 DEF RequestRun, CancelDump, CancelStale, SaveChecked, SaveRejected, ClearHistory, disk, StampKept
<1>3. ASSUME NEW n \in Names, NEW enabled \in BOOLEAN, Toggle(n, enabled) PROVE StampKept(m)
  BY <1>1, <1>3, EntryStamps DEF Toggle, ClearStreak, StampKept
<1>4. ASSUME NEW n \in Names, Delete(n) PROVE StampKept(m)
  BY <1>1, <1>4 DEF Delete, Written, Defined, StampKept, Deletes
<1>5. ASSUME NEW a \in Admins, SaveCommitted(a) PROVE StampKept(m)
  BY <1>1, <1>5, EntryStamps DEF SaveCommitted, ClearStreak, StampKept
<1>6. QED
  BY <1>2, <1>3, <1>4, <1>5 DEF Request

LEMMA TasksKeepStamps ==
  ASSUME BackupTypeOK, NEW t \in Tasks, TaskStarts(t) \/ RunAdvances(t), NEW m \in Names
  PROVE  StampKept(m)
<1>1. state \in [Names -> Entry]
  BY DEF BackupTypeOK
<1>2. CASE QueueForSlot(t) \/ DumpPushed(t)
  BY <1>2 DEF QueueForSlot, DumpPushed, disk, StampKept
<1>3. CASE StartRun(t) \/ StartWithoutEndpoint(t)
  BY <1>1, <1>3, EntryStamps DEF StartRun, EnterRun, StartWithoutEndpoint, RecordFailure, StampKept
<1>4. CASE ConnectFails(t) \/ PushFails(t) \/ \E status \in {"failed", "cancelled"} : DumpFails(t, status)
  BY <1>1, <1>4, EntryStamps DEF ConnectFails, PushFails, DumpFails, RecordFailure, StampKept
<1>5. CASE Connected(t) \/ DumpKept(t) \/ PushSucceeds(t)
  BY <1>1, <1>5, EntryStamps DEF Connected, DumpKept, PushSucceeds, RecordSuccess, StampKept
<1>6. QED
  BY <1>2, <1>3, <1>4, <1>5 DEF TaskStarts, RunAdvances

LEMMA StepsKeepStamps ==
  ASSUME BackupTypeOK, [BackupNext]_allVars, NEW m \in Names
  PROVE  StampKept(m)
<1>1. state \in [Names -> Entry]
  BY DEF BackupTypeOK
<1>2. CASE TickSchedules \/ MinutePasses \/ Shutdown \/ ProcessDies \/ UNCHANGED allVars
  BY <1>2 DEF TickSchedules, MinutePasses, Shutdown, ProcessDies, allVars, disk, StampKept
<1>3. CASE Boot
  BY <1>1, <1>3, EntryStamps DEF Boot, StampKept
<1>4. ASSUME NEW n \in Names, LaunchDecided(n) PROVE StampKept(m)
  BY <1>1, <1>4, EntryStamps
     DEF LaunchDecided, LaunchSkipped, LaunchDuplicate, LaunchWithoutEndpoint, LaunchEnters, EnterRun,
         RecordFailure, disk, StampKept
<1>5. CASE (\E n \in Names : DiesMidway(n)) \/ \E t \in Tasks : DiesConcluding(t)
  BY <1>5 DEF DiesMidway, DiesConcluding, StampKept
<1>6. QED
  BY <1>2, <1>3, <1>4, <1>5, RequestsKeepStamps, TasksKeepStamps DEF BackupNext

\* Only a launch that the de-dup let pass fires, and it stamps the minute.
LEMMA FiringStamps ==
  ASSUME BackupTypeOK, [BackupNext]_allVars, NEW m \in Names, Fires(m)
  PROVE  state[m].fired # minute /\ state'[m].fired = minute
<1>1. state \in [Names -> Entry]
  BY DEF BackupTypeOK
<1>2. m \in pending /\ m \notin pending' /\ state'[m] # state[m]
  BY DEF Fires
<1>3. ~ (TickSchedules \/ MinutePasses \/ Shutdown \/ Boot \/ UNCHANGED allVars)
  <2>1. ~ TickSchedules
    BY <1>2 DEF TickSchedules, Tick
  <2>2. ~ (MinutePasses \/ Shutdown \/ Boot \/ UNCHANGED allVars)
    BY <1>2 DEF MinutePasses, Shutdown, Stop, Boot, Start, allVars, engine, disk
  <2>3. QED
    BY <2>1, <2>2
<1>11. ~ (ProcessDies \/ (\E n \in Names : DiesMidway(n)) \/ \E t \in Tasks : DiesConcluding(t))
  BY <1>2 DEF ProcessDies, DiesMidway, DiesConcluding, disk
<1>4. ~ Request
  BY <1>2 DEF Request, RequestRun, RunNow, CancelDump, CancelStale, Toggle, Delete, SaveChecked, SaveRejected,
              SaveCommitted, ClearHistory, engine
<1>5. \A t \in Tasks : ~ TaskStarts(t) /\ ~ RunAdvances(t)
  <2>1. ASSUME NEW t \in Tasks, TaskStarts(t) PROVE pending' = pending
    BY <2>1 DEF TaskStarts, QueueForSlot, StartRun, StartWithoutEndpoint, ReservedQueues, ReservedRuns,
                ReservedReturns, WaiterRuns, WaiterReturns, FirstStep, HasSlot
  <2>2. ASSUME NEW t \in Tasks, RunAdvances(t) PROVE pending' = pending
    BY <2>2 DEF RunAdvances, Connected, ConnectFails, DumpFails, DumpKept, DumpPushed, PushFails, PushSucceeds,
                RunEnds, Finish, engine
  <2>3. QED
    BY <1>2, <2>1, <2>2
<1>6. PICK n \in Names : LaunchDecided(n)
  BY <1>3, <1>4, <1>5, <1>11 DEF BackupNext
<1>7. n = m
  BY <1>2, <1>6 DEF LaunchDecided, LaunchSkipped, LaunchDuplicate, LaunchWithoutEndpoint, LaunchEnters,
                    LaunchSkips, LaunchReturns, LaunchRuns
<1>8. ~ LaunchSkipped(m) /\ ~ LaunchDuplicate(m)
  BY <1>2 DEF LaunchSkipped, LaunchDuplicate, disk
<1>9. LaunchWithoutEndpoint(m) \/ \E t \in Tasks : LaunchEnters(m, t)
  BY <1>6, <1>7, <1>8 DEF LaunchDecided
<1>10. QED
  BY <1>1, <1>9, EntryStamps DEF LaunchWithoutEndpoint, LaunchEnters, EnterRun, RecordFailure, AlreadyFired

\* A schedule that the tick ran in this minute carries the minute's stamp.
FireIInv ==
  \A n \in Names : inMinute[n] \in {0, 1} /\ (inMinute[n] = 1 => state[n].fired = minute)

LEMMA FireInductive ==
  ASSUME BackupTypeOK, FireIInv, [FireNext]_fireVars
  PROVE  FireIInv'
<1>1. CASE UNCHANGED fireVars
  BY <1>1 DEF fireVars, allVars, disk, FireIInv
<1>2. ASSUME FireNext, NEW n \in Names
      PROVE  inMinute'[n] \in {0, 1} /\ (inMinute'[n] = 1 => state'[n].fired = minute')
  <2>1. inMinute'[n] = IF Deletes(n) \/ minute' # minute THEN 0
                       ELSE IF Fires(n) THEN inMinute[n] + 1 ELSE inMinute[n]
    BY <1>2 DEF FireNext
  <2>2. CASE Deletes(n) \/ minute' # minute
    BY <2>1, <2>2
  <2>3. CASE ~ (Deletes(n) \/ minute' # minute) /\ Fires(n)
    <3>1. state[n].fired # minute /\ state'[n].fired = minute
      BY <1>2, <2>3, FiringStamps DEF FireNext
    <3>2. inMinute[n] = 0
      BY <3>1 DEF FireIInv
    <3>3. QED
      BY <2>1, <2>3, <3>1, <3>2
  <2>4. CASE ~ (Deletes(n) \/ minute' # minute) /\ ~ Fires(n)
    <3>1. StampKept(n)
      BY <1>2, StepsKeepStamps DEF FireNext
    <3>2. QED
      BY <2>1, <2>4, <3>1 DEF StampKept, FireIInv
  <2>5. QED
    BY <2>2, <2>3, <2>4
<1>3. QED
  BY <1>1, <1>2 DEF FireIInv

\* The counters watch the backups and change nothing about them.
LEMMA FiringIsWatched == FireSpec => BackupSpec
<1>1. FireInit => BackupInit
  BY DEF FireInit
<1>2. [FireNext]_fireVars => [BackupNext]_allVars
  BY DEF FireNext, fireVars
<1>3. QED
  BY <1>1, <1>2, PTL DEF FireSpec, BackupSpec

\* The de-dup of _launch() works per clock minute: the tick starts a schedule at most once
\* while the clock shows one minute, through failures, run-nows, edits, crashes and boots.
THEOREM TickFiresOncePerMinute == FireSpec => []OncePerClockMinute
<1>1. FireInit => FireIInv
  BY DEF FireInit, FireIInv
<1>2. FireIInv => OncePerClockMinute
  BY DEF FireIInv, OncePerClockMinute
<1>3. QED
  BY <1>1, <1>2, FiringIsWatched, BackupTypes, FireInductive, PTL DEF FireSpec

-----------------------------------------------------------------------------
(* Cron expressions *)

\* No part is a value with the step 1 (finding 31 of README.md).
StepsCount(e) == \A i \in 1 .. 5 : \A p \in e[i] : ~(p.kind = "value" /\ p.slash /\ p.step = 1)

Accepted(e) == IsExpression(e) /\ Valid(e)

LEMMA Units == \A n \in Int : n % 1 = 0
BY SMT

LEMMA BoundsAre == 
  /\ Bounds[Minute][1] = 0 /\ Bounds[Minute][2] = 59
  /\ Bounds[Hour][1] = 0 /\ Bounds[Hour][2] = 23
  /\ Bounds[Dom][1] = 1 /\ Bounds[Dom][2] = 31
  /\ Bounds[Month][1] = 1 /\ Bounds[Month][2] = 12
  /\ Bounds[Dow][1] = 0 /\ Bounds[Dow][2] = 7
  /\ Minute = 1 /\ Hour = 2 /\ Dom = 3 /\ Month = 4 /\ Dow = 5
BY DEF Bounds, Minute, Hour, Dom, Month, Dow

\* A part matches the values it means.
LEMMA PartMatches ==
  ASSUME NEW p \in Parts, NEW b, b[1] \in Nat, b[2] \in Nat, PartValid(p, b),
         ~(p.kind = "value" /\ p.slash /\ p.step = 1), NEW v \in b[1] .. b[2]
  PROVE  v \in From(p, b) .. To(p, b) /\ (v - From(p, b)) % p.step = 0 <=> PartMeans(p, v, b)
<1> /\ p.kind \in {"all", "value", "range"} /\ p.from \in Nat /\ p.to \in Nat /\ p.slash \in BOOLEAN /\ p.step \in Nat
    /\ ~p.slash => p.step = 1
  BY DEF Parts
<1>1. CASE p.kind = "all"
  BY <1>1, Units DEF From, To, PartMeans, PartValid
<1>2. CASE p.kind = "range"
  BY <1>2, Units DEF From, To, PartMeans, PartValid
<1>3. CASE p.kind = "value" /\ p.slash
  BY <1>3, Units DEF From, To, PartMeans, PartValid
<1>4. CASE p.kind = "value" /\ ~p.slash
  BY <1>4, Units DEF From, To, PartMeans, PartValid
<1>5. QED
  BY <1>1, <1>2, <1>3, <1>4

\* A parsed field holds the values of its range that the field means.
LEMMA ValuesMean ==
  ASSUME NEW e, Accepted(e), StepsCount(e), NEW i \in 1 .. 5
  PROVE  /\ Values(e[i], Bounds[i]) \subseteq Bounds[i][1] .. Bounds[i][2]
         /\ \A v \in Bounds[i][1] .. Bounds[i][2] : v \in Values(e[i], Bounds[i]) <=> FieldMeans(e, i, v)
<1> DEFINE b == Bounds[i]
<1>1. b[1] \in Nat /\ b[2] \in Nat
  BY BoundsAre
<1>2. \A p \in e[i] : p \in Parts /\ PartValid(p, b) /\ ~(p.kind = "value" /\ p.slash /\ p.step = 1)
  BY DEF Accepted, IsExpression, Valid, StepsCount
<1>3. \A p \in e[i] : From(p, b) \in Int /\ To(p, b) \in Int /\ b[1] <= From(p, b) /\ To(p, b) <= b[2]
  BY <1>1, <1>2 DEF PartValid, From, To, Parts
<1>4. \A p \in e[i], v \in b[1] .. b[2] :
        v \in From(p, b) .. To(p, b) /\ (v - From(p, b)) % p.step = 0 <=> PartMeans(p, v, b)
  BY <1>1, <1>2, PartMatches
<1> HIDE DEF b
<1>5. \A v : v \in Values(e[i], b) <=> \E p \in e[i] : v \in From(p, b) .. To(p, b) /\ (v - From(p, b)) % p.step = 0
  BY DEF Values
<1>6. Values(e[i], b) \subseteq b[1] .. b[2]
  BY <1>1, <1>3, <1>5
<1>7. \A v \in b[1] .. b[2] : v \in Values(e[i], b) <=> \E p \in e[i] : PartMeans(p, v, b)
  BY <1>4, <1>5
<1>8. QED
  BY <1>6, <1>7 DEF b, FieldMeans

\* The fields as matches() gets them: Sunday has the one name 0.
LEMMA FieldsMean ==
  ASSUME NEW e, Accepted(e), StepsCount(e)
  PROVE  LET f == Parsed(e) IN
           /\ f[Minute] \subseteq 0 .. 59 /\ \A v \in 0 .. 59 : v \in f[Minute] <=> FieldMeans(e, Minute, v)
           /\ f[Hour] \subseteq 0 .. 23 /\ \A v \in 0 .. 23 : v \in f[Hour] <=> FieldMeans(e, Hour, v)
           /\ f[Dom] \subseteq 1 .. 31 /\ \A v \in 1 .. 31 : v \in f[Dom] <=> FieldMeans(e, Dom, v)
           /\ f[Month] \subseteq 1 .. 12 /\ \A v \in 1 .. 12 : v \in f[Month] <=> FieldMeans(e, Month, v)
           /\ f[Dow] \subseteq 0 .. 6 /\ \A v \in 0 .. 6 : v \in f[Dow] <=> DowMeans(e, v)
<1> DEFINE f == Parsed(e)
<1> DEFINE week == Values(e[Dow], Bounds[Dow])
<1>1. /\ f[Minute] = Values(e[Minute], Bounds[Minute]) /\ f[Hour] = Values(e[Hour], Bounds[Hour])
      /\ f[Dom] = Values(e[Dom], Bounds[Dom]) /\ f[Month] = Values(e[Month], Bounds[Month])
      /\ f[Dow] = {v % 7 : v \in week}
  BY BoundsAre DEF Parsed
<1>2. Minute \in 1 .. 5 /\ Hour \in 1 .. 5 /\ Dom \in 1 .. 5 /\ Month \in 1 .. 5 /\ Dow \in 1 .. 5
  BY BoundsAre
<1>3. /\ Values(e[Minute], Bounds[Minute]) \subseteq 0 .. 59
      /\ \A v \in 0 .. 59 : v \in Values(e[Minute], Bounds[Minute]) <=> FieldMeans(e, Minute, v)
  BY <1>2, ValuesMean, BoundsAre
<1>4. /\ Values(e[Hour], Bounds[Hour]) \subseteq 0 .. 23
      /\ \A v \in 0 .. 23 : v \in Values(e[Hour], Bounds[Hour]) <=> FieldMeans(e, Hour, v)
  BY <1>2, ValuesMean, BoundsAre
<1>5. /\ Values(e[Dom], Bounds[Dom]) \subseteq 1 .. 31
      /\ \A v \in 1 .. 31 : v \in Values(e[Dom], Bounds[Dom]) <=> FieldMeans(e, Dom, v)
  BY <1>2, ValuesMean, BoundsAre
<1>6. /\ Values(e[Month], Bounds[Month]) \subseteq 1 .. 12
      /\ \A v \in 1 .. 12 : v \in Values(e[Month], Bounds[Month]) <=> FieldMeans(e, Month, v)
  BY <1>2, ValuesMean, BoundsAre
<1>7. /\ week \subseteq 0 .. 7
      /\ \A v \in 0 .. 7 : v \in week <=> FieldMeans(e, Dow, v)
  BY <1>2, ValuesMean, BoundsAre
<1> HIDE DEF f, week
<1>8. \A v \in 0 .. 7 : v % 7 = IF v = 7 THEN 0 ELSE v
  BY SMT
<1>9. /\ f[Dow] \subseteq 0 .. 6
      /\ \A v \in 0 .. 6 : v \in f[Dow] <=> v \in week \/ (v = 0 /\ 7 \in week)
  <2>1. \A w : w \in f[Dow] <=> \E v \in week : w = v % 7
    BY <1>1
  <2>2. \A w : w \in f[Dow] <=> \E v \in week : w = IF v = 7 THEN 0 ELSE v
    BY <1>7, <1>8, <2>1
  <2>3. f[Dow] \subseteq 0 .. 6
    BY <1>7, <2>2
  <2>4. \A v \in 0 .. 6 : v \in f[Dow] <=> v \in week \/ (v = 0 /\ 7 \in week)
    BY <1>7, <2>2
  <2>5. QED
    BY <2>3, <2>4
<1>10. \A v \in 0 .. 6 : v \in f[Dow] <=> DowMeans(e, v)
  <2>1. 7 \in week <=> FieldMeans(e, Dow, 7)
    BY <1>7
  <2>2. \A v \in 0 .. 6 : v \in week <=> FieldMeans(e, Dow, v)
    BY <1>7
  <2>3. 0 \in f[Dow] <=> Sunday(e)
    BY <1>9, <2>1, <2>2 DEF Sunday
  <2>4. \A v \in 0 .. 6 : v # 0 => (v \in f[Dow] <=> FieldMeans(e, Dow, v))
    BY <1>9, <2>2
  <2>5. QED
    BY <2>3, <2>4 DEF DowMeans
<1>11. QED
  BY <1>1, <1>3, <1>4, <1>5, <1>6, <1>9, <1>10 DEF f

-----------------------------------------------------------------------------
(* The calendar *)

LEMMA Quotients ==
  ASSUME NEW n \in Nat
  PROVE  /\ n \div 1460 \in Nat /\ 1460 * (n \div 1460) <= n /\ n < 1460 * (n \div 1460) + 1460
         /\ n \div 36524 \in Nat /\ 36524 * (n \div 36524) <= n /\ n < 36524 * (n \div 36524) + 36524
         /\ n \div 146096 \in Nat /\ 146096 * (n \div 146096) <= n /\ n < 146096 * (n \div 146096) + 146096
         /\ n \div 365 \in Nat /\ 365 * (n \div 365) <= n /\ n < 365 * (n \div 365) + 365
         /\ n \div 4 \in Nat /\ 4 * (n \div 4) <= n /\ n < 4 * (n \div 4) + 4
         /\ n \div 100 \in Nat /\ 100 * (n \div 100) <= n /\ n < 100 * (n \div 100) + 100
BY SMT

\* The year of the era and the day of that year, in the arithmetic of Civil.
LEMMA DayOfYear ==
  ASSUME NEW doe \in Nat, doe <= 146096, NEW a \in Nat, NEW b \in Nat, NEW c \in Nat,
         NEW y \in Nat, NEW y4 \in Nat, NEW y100 \in Nat,
         1460 * a <= doe, doe < 1460 * a + 1460,
         36524 * b <= doe, doe < 36524 * b + 36524,
         146096 * c <= doe, doe < 146096 * c + 146096,
         365 * y <= doe - a + b - c, doe - a + b - c < 365 * y + 365,
         4 * y4 <= y, y < 4 * y4 + 4,
         100 * y100 <= y, y < 100 * y100 + 100
  PROVE  0 <= doe - (365 * y + y4 - y100) /\ doe - (365 * y + y4 - y100) <= 365
BY SMTT(60)

\* The date of a day by its number in a year that begins in March.
DateOf(doy) ==
  LET mp == (5 * doy + 2) \div 153
  IN [month |-> IF mp < 10 THEN mp + 3 ELSE mp - 9, day |-> doy - (153 * mp + 2) \div 5 + 1]

LEMMA CivilDate ==
  ASSUME NEW d \in Nat
  PROVE  \E doy \in 0 .. 365 : Civil(d) = DateOf(doy)
<1> DEFINE doe == d % YearDays
           n == doe - doe \div 1460 + doe \div 36524 - doe \div 146096
           yoe == n \div 365
           doy == doe - (365 * yoe + yoe \div 4 - yoe \div 100)
<1>1. doe \in Nat /\ doe <= 146096
  BY DEF YearDays
<1>2. Civil(d) = DateOf(doy)
  BY DEF Civil, DateOf
<1> HIDE DEF doe
<1>3. n \in Nat
  BY <1>1, Quotients
<1> HIDE DEF n
<1>4. yoe \in Nat /\ 365 * yoe <= n /\ n < 365 * yoe + 365
  BY <1>3, Quotients
<1> HIDE DEF yoe
<1>5. doy \in 0 .. 365
  <2>1. doe - doe \div 1460 + doe \div 36524 - doe \div 146096 = n
    BY DEF n
  <2>2. /\ doe \div 1460 \in Nat /\ 1460 * (doe \div 1460) <= doe /\ doe < 1460 * (doe \div 1460) + 1460
        /\ doe \div 36524 \in Nat /\ 36524 * (doe \div 36524) <= doe /\ doe < 36524 * (doe \div 36524) + 36524
        /\ doe \div 146096 \in Nat /\ 146096 * (doe \div 146096) <= doe /\ doe < 146096 * (doe \div 146096) + 146096
    BY <1>1, Quotients
  <2>3. /\ yoe \div 4 \in Nat /\ 4 * (yoe \div 4) <= yoe /\ yoe < 4 * (yoe \div 4) + 4
        /\ yoe \div 100 \in Nat /\ 100 * (yoe \div 100) <= yoe /\ yoe < 100 * (yoe \div 100) + 100
    BY <1>4, Quotients
  <2> DEFINE a == doe \div 1460
             b == doe \div 36524
             c == doe \div 146096
             y4 == yoe \div 4
             y100 == yoe \div 100
  <2>4. doe - a + b - c = n /\ doy = doe - (365 * yoe + y4 - y100)
    BY <2>1
  <2> HIDE DEF a, b, c, y4, y100, doy
  <2>5. /\ a \in Nat /\ 1460 * a <= doe /\ doe < 1460 * a + 1460
        /\ b \in Nat /\ 36524 * b <= doe /\ doe < 36524 * b + 36524
        /\ c \in Nat /\ 146096 * c <= doe /\ doe < 146096 * c + 146096
    BY <2>2 DEF a, b, c
  <2>6. /\ y4 \in Nat /\ 4 * y4 <= yoe /\ yoe < 4 * y4 + 4
        /\ y100 \in Nat /\ 100 * y100 <= yoe /\ yoe < 100 * y100 + 100
    BY <2>3 DEF y4, y100
  <2>7. 0 <= doe - (365 * yoe + y4 - y100) /\ doe - (365 * yoe + y4 - y100) <= 365
    BY <1>1, <1>4, <2>4, <2>5, <2>6, DayOfYear
  <2>8. QED
    BY <1>1, <1>4, <2>4, <2>6, <2>7
<1> HIDE DEF doy
<1>6. QED
  BY <1>2, <1>5

\* The dates of all days exist.
LEMMA CivilDates ==
  ASSUME NEW d \in Nat
  PROVE  Civil(d).month \in 1 .. 12 /\ Civil(d).day \in 1 .. 31 /\ Weekday(d) \in 0 .. 6
<1>1. PICK doy \in 0 .. 365 : Civil(d) = DateOf(doy)
  BY CivilDate
<1> DEFINE mp == (5 * doy + 2) \div 153
<1>2. mp \in 0 .. 11 /\ doy - (153 * mp + 2) \div 5 + 1 \in 1 .. 31
  OBVIOUS
<1>3. Civil(d).month = (IF mp < 10 THEN mp + 3 ELSE mp - 9) /\ Civil(d).day = doy - (153 * mp + 2) \div 5 + 1
  BY <1>1 DEF DateOf
<1> HIDE DEF mp
<1>4. QED
  BY <1>2, <1>3 DEF Weekday

-----------------------------------------------------------------------------
(* What matches *)

LEMMA HourOfDay == ASSUME NEW t \in Nat PROVE t % 1440 = 60 * ((t \div 60) % 24) + (t % 60)
<1> DEFINE h == t \div 60
           m == t % 60
           k == h \div 24
           r == h % 24
<1>1. h \in Nat /\ m \in 0 .. 59 /\ t = 60 * h + m
  BY SMT
<1>2. k \in Nat /\ r \in 0 .. 23 /\ h = 24 * k + r
  <2> HIDE DEF h
  <2>1. QED
    BY <1>1
<1> HIDE DEF h, m, k, r
<1>3. t = 1440 * k + (60 * r + m) /\ 60 * r + m \in 0 .. 1439
  BY <1>1, <1>2
<1>4. t % 1440 = 60 * r + m
  BY <1>2, <1>3
<1>5. 60 * r + m = 60 * ((t \div 60) % 24) + (t % 60)
  BY DEF r, h, m
<1>6. QED
  BY <1>4, <1>5

\* cron.py: an accepted expression without the step 1 on a value matches the minutes
\* that its text means, on every date.
THEOREM MatchesAsWritten ==
  ASSUME NEW e, Accepted(e), StepsCount(e), NEW t \in Nat
  PROVE  Matches(Parsed(e), t) <=> Meant(e, t)
<1> DEFINE f == Parsed(e)
           d == t \div 1440
           day == Civil(d).day
           weekday == Weekday(d)
<1>1. d \in Nat /\ t % 60 \in 0 .. 59 /\ (t \div 60) % 24 \in 0 .. 23
  BY SMT
<1>0. t % 1440 = 60 * ((t \div 60) % 24) + (t % 60)
  BY HourOfDay
<1>2. day \in 1 .. 31 /\ Civil(d).month \in 1 .. 12 /\ weekday \in 0 .. 6
  BY <1>1, CivilDates
<1>3. /\ f[Minute] \subseteq 0 .. 59 /\ \A v \in 0 .. 59 : v \in f[Minute] <=> FieldMeans(e, Minute, v)
      /\ f[Hour] \subseteq 0 .. 23 /\ \A v \in 0 .. 23 : v \in f[Hour] <=> FieldMeans(e, Hour, v)
      /\ f[Dom] \subseteq 1 .. 31 /\ \A v \in 1 .. 31 : v \in f[Dom] <=> FieldMeans(e, Dom, v)
      /\ f[Month] \subseteq 1 .. 12 /\ \A v \in 1 .. 12 : v \in f[Month] <=> FieldMeans(e, Month, v)
      /\ f[Dow] \subseteq 0 .. 6 /\ \A v \in 0 .. 6 : v \in f[Dow] <=> DowMeans(e, v)
  BY FieldsMean
<1> HIDE DEF f
<1>4. t % 1440 \in Times(f) <=> FieldMeans(e, Minute, t % 60) /\ FieldMeans(e, Hour, (t \div 60) % 24)
  <2> DEFINE h0 == (t \div 60) % 24
             m0 == t % 60
  <2>1. h0 \in 0 .. 23 /\ m0 \in 0 .. 59 /\ t % 1440 = 60 * h0 + m0
    BY <1>0, <1>1
  <2> HIDE DEF h0, m0
  <2>2. \A h \in 0 .. 23, m \in 0 .. 59 : 60 * h + m = 60 * h0 + m0 => h = h0 /\ m = m0
    BY <2>1
  <2>3. t % 1440 \in Times(f) <=> \E h \in f[Hour], m \in f[Minute] : 60 * h0 + m0 = 60 * h + m
    BY <2>1 DEF Times
  <2>4. t % 1440 \in Times(f) <=> h0 \in f[Hour] /\ m0 \in f[Minute]
    BY <1>3, <2>2, <2>3
  <2>5. h0 \in f[Hour] <=> FieldMeans(e, Hour, h0)
    BY <1>3, <2>1
  <2>6. m0 \in f[Minute] <=> FieldMeans(e, Minute, m0)
    BY <1>3, <2>1
  <2>7. QED
    BY <2>4, <2>5, <2>6 DEF h0, m0
<1>5. Restricted(f[Dom], Bounds[Dom]) <=> ~DomFree(e)
  <2>1. f[Dom] # 1 .. 31 <=> \E v \in 1 .. 31 : v \notin f[Dom]
    BY <1>3
  <2>2. QED
    BY <1>3, <2>1, BoundsAre DEF Restricted, DomFree
<1>6. Restricted(f[Dow], <<0, 6>>) <=> ~DowFree(e)
  <2>1. f[Dow] # 0 .. 6 <=> \E v \in 0 .. 6 : v \notin f[Dow]
    BY <1>3
  <2>2. QED
    BY <1>3, <2>1 DEF Restricted, DowFree
<1>7. day \in f[Dom] <=> FieldMeans(e, Dom, day)
  BY <1>2, <1>3
<1>8. weekday \in f[Dow] <=> DowMeans(e, weekday)
  BY <1>2, <1>3
<1>9. Civil(d).month \in f[Month] <=> FieldMeans(e, Month, Civil(d).month)
  BY <1>2, <1>3
<1>10. DomFree(e) => FieldMeans(e, Dom, day)
  BY <1>2 DEF DomFree
<1>11. DowFree(e) => DowMeans(e, weekday)
  BY <1>2 DEF DowFree
<1>12. Matches(f, t) <=>
         t % 1440 \in Times(f) /\ Civil(d).month \in f[Month] /\
         IF Restricted(f[Dom], Bounds[Dom]) /\ Restricted(f[Dow], <<0, 6>>)
         THEN day \in f[Dom] \/ weekday \in f[Dow] ELSE day \in f[Dom] /\ weekday \in f[Dow]
  BY DEF Matches, DayMatches
<1>13. Meant(e, t) <=>
         FieldMeans(e, Minute, t % 60) /\ FieldMeans(e, Hour, (t \div 60) % 24) /\ FieldMeans(e, Month, Civil(d).month)
         /\ (FieldMeans(e, Dom, day) \/ DowMeans(e, weekday))
         /\ (DomFree(e) => DowMeans(e, weekday)) /\ (DowFree(e) => FieldMeans(e, Dom, day))
  BY DEF Meant
<1> HIDE DEF d, day, weekday
<1>14. Matches(f, t) <=> Meant(e, t)
  BY <1>4, <1>5, <1>6, <1>7, <1>8, <1>9, <1>10, <1>11, <1>12, <1>13
<1>15. QED
  BY <1>14 DEF f

-----------------------------------------------------------------------------
(* The next run *)

\* A set of numbers has a least one.
LEMMA LeastExists ==
  ASSUME NEW S, S \subseteq Nat, S # {}
  PROVE  \E x \in S : \A y \in S : x <= y
<1> DEFINE R == OpToRel(<, Nat)
<1>1. IsWellFoundedOn(R, Nat)
  BY Zenon, NatLessThanWellFounded
<1>2. \A x, y \in Nat : y < x => <<y, x>> \in R
  BY Zenon DEF OpToRel
<1> HIDE DEF R
<1>3. PICK x \in S : \A y \in S : ~ (<<y, x>> \in R)
  BY <1>1, WFMin
<1>4. \A y \in S : ~ (y < x)
  BY <1>2, <1>3
<1>5. QED
  BY <1>4

LEMMA MinIsLeast == ASSUME NEW S, S \subseteq Nat, S # {} PROVE Min(S) \in S /\ \A y \in S : Min(S) <= y
BY LeastExists DEF Min

LEMMA FirstIsFirst ==
  ASSUME NEW f, NEW days, days \subseteq Nat, \E d \in days : DayMatches(f, d)
  PROVE  LET d == FirstDay(f, days) IN d \in days /\ DayMatches(f, d) /\ \A c \in days : c < d => ~DayMatches(f, c)
<1> DEFINE good == {d \in days : DayMatches(f, d)}
<1>1. PICK d \in good : \A c \in good : d <= c
  <2>1. good \subseteq Nat /\ good # {}
    OBVIOUS
  <2>2. QED
    BY <2>1, LeastExists
<1>2. d \in days /\ DayMatches(f, d) /\ \A c \in days : c < d => ~DayMatches(f, c)
  BY <1>1
<1>3. QED
  BY <1>2 DEF FirstDay

Instant(d, m) == d * 1440 + m

\* Instants are in the order of their days, and within a day of their times.
LEMMA InstantsInOrder ==
  ASSUME NEW c \in Nat, NEW d \in Nat, NEW k \in Nat, NEW m \in Nat, k <= 1439, m <= 1439, Instant(c, k) <= Instant(d, m)
  PROVE  c <= d /\ (c = d => k <= m)
<1>1. c * 1440 + k <= d * 1440 + m
  BY DEF Instant
<1>2. c <= d
  BY <1>1, SMTT(60)
<1>3. QED
  BY <1>1

LEMMA InstantNumber == ASSUME NEW d \in Nat, NEW m \in Nat PROVE Instant(d, m) \in Nat /\ Instant(d, m) >= d * 1440
BY DEF Instant

LEMMA InstantOf ==
  ASSUME NEW u \in Nat
  PROVE  u \div 1440 \in Nat /\ u % 1440 \in Nat /\ u % 1440 <= 1439 /\ u = Instant(u \div 1440, u % 1440)
BY SMT DEF Instant

LEMMA InstantParts ==
  ASSUME NEW d \in Nat, NEW m \in Nat, m <= 1439
  PROVE  Instant(d, m) \div 1440 = d /\ Instant(d, m) % 1440 = m
BY SMT DEF Instant

\* A parsed field has values, all within its bounds.
LEMMA ValuesWithin ==
  ASSUME NEW e, Accepted(e), NEW i \in 1 .. 5
  PROVE  Values(e[i], Bounds[i]) # {} /\ Values(e[i], Bounds[i]) \subseteq Bounds[i][1] .. Bounds[i][2]
<1> DEFINE b == Bounds[i]
           vs == Values(e[i], b)
<1>1. b[1] \in Nat /\ b[2] \in Nat
  BY BoundsAre
<1>2. \A p \in e[i] : p \in Parts /\ PartValid(p, b)
  BY DEF Accepted, IsExpression, Valid
<1>3. \A p \in e[i] : From(p, b) \in Int /\ To(p, b) \in Int /\ p.step \in Nat \ {0}
                      /\ b[1] <= From(p, b) /\ From(p, b) <= To(p, b) /\ To(p, b) <= b[2]
  BY <1>1, <1>2 DEF PartValid, From, To, Parts
<1> HIDE DEF b
<1>4. \A v : v \in vs <=> \E p \in e[i] : v \in From(p, b) .. To(p, b) /\ (v - From(p, b)) % p.step = 0
  BY DEF Values
<1> HIDE DEF vs
<1>5. vs \subseteq b[1] .. b[2]
  BY <1>1, <1>3, <1>4
<1>6. vs # {}
  <2>1. PICK p \in e[i] : TRUE
    BY DEF Accepted, IsExpression
  <2>2. From(p, b) - From(p, b) = 0 /\ 0 % p.step = 0
    BY <1>3
  <2>3. From(p, b) \in vs
    BY <1>3, <1>4, <2>2
  <2>4. QED
    BY <2>3
<1>7. QED
  BY <1>5, <1>6 DEF b, vs

\* A day has times that match.
LEMMA TimesOfDay ==
  ASSUME NEW e, Accepted(e)
  PROVE  /\ Times(Parsed(e)) # {} /\ Times(Parsed(e)) \subseteq Nat
         /\ \A m \in Times(Parsed(e)) : m <= 1439
<1> DEFINE f == Parsed(e)
<1>1. \A i \in {Minute, Hour} : f[i] # {} /\ f[i] \subseteq Bounds[i][1] .. Bounds[i][2]
  <2>1. \A i \in {Minute, Hour} : i \in 1 .. 5 /\ i # Dow
    BY BoundsAre
  <2>2. \A i \in {Minute, Hour} : f[i] = Values(e[i], Bounds[i])
    BY <2>1 DEF Parsed
  <2>3. QED
    BY <2>1, <2>2, ValuesWithin
<1>2. f[Hour] # {} /\ f[Hour] \subseteq 0 .. 23 /\ f[Minute] # {} /\ f[Minute] \subseteq 0 .. 59
  BY <1>1, BoundsAre
<1> HIDE DEF f
<1>3. \A h \in f[Hour], m \in f[Minute] : 60 * h + m \in Nat /\ 60 * h + m <= 1439
  BY <1>2
<1>4. Times(f) # {}
  <2>1. PICK h \in f[Hour], m \in f[Minute] : TRUE
    BY <1>2
  <2>2. 60 * h + m \in Times(f)
    BY DEF Times
  <2>3. QED
    BY <2>2
<1>5. Times(f) \subseteq Nat /\ \A m \in Times(f) : m <= 1439
  BY <1>3 DEF Times
<1>6. QED
  BY <1>4, <1>5 DEF f

\* next_run(): what is listed is the first minute after t that matches, and Never only if
\* none of the minutes up to the horizon does.
THEOREM NextRunIsNext ==
  ASSUME NEW e, Accepted(e), NEW t \in Nat
  PROVE  LET f == Parsed(e)
             n == NextRun(f, t)
         IN \/ n = Never /\ \A u \in t + 1 .. t + Horizon : ~Matches(f, u)
            \/ n \in t + 1 .. t + Horizon /\ Matches(f, n) /\ \A u \in t + 1 .. n - 1 : ~Matches(f, u)
<1> DEFINE f == Parsed(e)
           S == Times(f)
           least == Min(S)
           n == NextRun(f, t)
           day == t \div 1440
           time == t % 1440
           today == {m \in S : m > time}
           earliest == Min(today)
           end == (t + Horizon) \div 1440
           rest == (t + Horizon) % 1440
           days == day + 1 .. end
           first == FirstDay(f, days)
           then == Instant(first, least)
<1>1. \A m \in S : m <= 1439
  BY TimesOfDay
<1>2. S \subseteq Nat /\ S # {}
  BY TimesOfDay
<1>3. n = IF DayMatches(f, day) /\ today # {} THEN Instant(day, earliest)
          ELSE IF (\E d \in days : DayMatches(f, d)) /\ then <= t + Horizon THEN then
          ELSE Never
  BY DEF NextRun, Instant
<1>4. \A u \in Nat : Matches(f, u) <=> u % 1440 \in S /\ DayMatches(f, u \div 1440)
  BY DEF Matches
<1> HIDE DEF f, S, n
<1>5. least \in S /\ \A m \in S : least <= m
  BY <1>2, MinIsLeast
<1>6. today # {} => earliest \in today /\ \A m \in today : earliest <= m
  <2>1. today \subseteq Nat
    BY <1>2
  <2> HIDE DEF today
  <2>2. QED
    BY <2>1, MinIsLeast
<1>7. Horizon \in Nat /\ Horizon >= 1440
  BY SMT DEF Horizon
<1>8. day \in Nat /\ time \in Nat /\ time <= 1439 /\ t = Instant(day, time)
  BY InstantOf
<1>9. end \in Nat /\ rest \in Nat /\ rest <= 1439 /\ t + Horizon = Instant(end, rest)
  <2> DEFINE h == t + Horizon
  <2>1. h \in Nat
    BY <1>7
  <2> HIDE DEF h
  <2>2. h \div 1440 \in Nat /\ h % 1440 \in Nat /\ h % 1440 <= 1439 /\ h = Instant(h \div 1440, h % 1440)
    BY <2>1, InstantOf
  <2>3. QED
    BY <2>2 DEF h
<1> HIDE DEF day, time, end, rest, least
<1>10. days \subseteq Nat
  BY <1>8, <1>9
<1> HIDE DEF days
<1>11. (\E d \in days : DayMatches(f, d)) =>
         first \in days /\ DayMatches(f, first) /\ \A c \in days : c < first => ~DayMatches(f, c)
  BY <1>10, FirstIsFirst
<1> HIDE DEF first
<1>12. \A u \in t + 1 .. t + Horizon :
         LET d == u \div 1440
             m == u % 1440
         IN /\ u \in Nat /\ d \in Nat /\ m \in Nat /\ m <= 1439 /\ u = Instant(d, m)
            /\ d = day \/ d \in days
            /\ d = day => m > time
  <2> SUFFICES ASSUME NEW u \in t + 1 .. t + Horizon
               PROVE  LET d == u \div 1440
                          m == u % 1440
                      IN /\ u \in Nat /\ d \in Nat /\ m \in Nat /\ m <= 1439 /\ u = Instant(d, m)
                         /\ d = day \/ d \in days
                         /\ d = day => m > time
    OBVIOUS
  <2> DEFINE d == u \div 1440
             m == u % 1440
  <2>1. u \in Nat /\ t <= u /\ u # t /\ u <= t + Horizon
    BY <1>7
  <2>2. d \in Nat /\ m \in Nat /\ m <= 1439 /\ u = Instant(d, m)
    BY <2>1, InstantOf
  <2> HIDE DEF d, m
  <2>3. Instant(day, time) <= Instant(d, m) /\ Instant(day, time) # Instant(d, m) /\ Instant(d, m) <= Instant(end, rest)
    BY <1>8, <1>9, <2>1, <2>2
  <2>4. day <= d /\ (day = d => time <= m)
    BY <1>8, <2>2, <2>3, InstantsInOrder
  <2>5. d <= end
    BY <1>9, <2>2, <2>3, InstantsInOrder
  <2>6. d = day => m # time
    BY <2>3
  <2>7. d = day \/ d \in days
    BY <1>8, <1>9, <2>2, <2>4, <2>5 DEF days
  <2>8. d = day => m > time
    BY <1>8, <2>2, <2>4, <2>6
  <2>9. QED
    BY <2>1, <2>2, <2>7, <2>8 DEF d, m
<1>13. CASE DayMatches(f, day) /\ today # {}
  <2>1. earliest \in S /\ earliest > time /\ \A m \in S : m > time => earliest <= m
    BY <1>6, <1>13
  <2>2. n = Instant(day, earliest)
    BY <1>3, <1>13
  <2> HIDE DEF today, earliest
  <2>3. earliest \in Nat /\ earliest <= 1439
    BY <1>1, <1>2, <2>1
  <2>4. n \div 1440 = day /\ n % 1440 = earliest
    BY <1>8, <2>2, <2>3, InstantParts
  <2>5. n \in t + 1 .. t + Horizon
    <3>1. t = day * 1440 + time /\ n = day * 1440 + earliest
      BY <1>8, <2>2 DEF Instant
    <3>2. QED
      BY <1>7, <1>8, <2>1, <2>3, <3>1
  <2>6. Matches(f, n)
    BY <1>4, <1>12, <1>13, <2>1, <2>4, <2>5
  <2>7. ASSUME NEW u \in t + 1 .. n - 1, Matches(f, u)
        PROVE  FALSE
    <3> DEFINE d == u \div 1440
               m == u % 1440
    <3>1. u \in t + 1 .. t + Horizon /\ u < n
      BY <1>7, <2>5
    <3>2. u \in Nat /\ d \in Nat /\ m \in Nat /\ m <= 1439 /\ u = Instant(d, m) /\ (d = day \/ d \in days) /\ (d = day => m > time)
      BY <1>12, <3>1
    <3>3. m \in S
      BY <1>4, <2>7, <3>2
    <3> HIDE DEF d, m
    <3>4. Instant(d, m) <= Instant(day, earliest) /\ Instant(d, m) # Instant(day, earliest)
      BY <1>8, <2>2, <2>5, <3>1, <3>2
    <3>5. d <= day /\ (d = day => m <= earliest)
      BY <1>8, <2>3, <3>2, <3>4, InstantsInOrder
    <3>6. d = day
      BY <1>8, <1>9, <3>2, <3>5 DEF days
    <3>7. earliest <= m /\ m <= earliest
      BY <2>1, <3>2, <3>3, <3>5, <3>6
    <3>8. m = earliest
      BY <2>3, <3>2, <3>7
    <3>9. QED
      BY <3>4, <3>6, <3>8
  <2>8. QED
    BY <2>5, <2>6, <2>7 DEF n, f
<1>14. CASE ~(DayMatches(f, day) /\ today # {})
  <2>1. \A u \in t + 1 .. t + Horizon : Matches(f, u) => u \div 1440 \in days
    BY <1>4, <1>12, <1>14
  <2> HIDE DEF today
  <2>2. CASE (\E d \in days : DayMatches(f, d)) /\ then <= t + Horizon
    <3>1. n = Instant(first, least) /\ n <= t + Horizon
      BY <1>3, <1>14, <2>2
    <3>2. first \in Nat /\ day + 1 <= first /\ least \in Nat /\ least <= 1439
      BY <1>1, <1>2, <1>5, <1>8, <1>9, <1>11, <2>2 DEF days
    <3>3. n \div 1440 = first /\ n % 1440 = least
      BY <3>1, <3>2, InstantParts
    <3>4. n \in t + 1 .. t + Horizon
      <4>1. t = day * 1440 + time /\ n = first * 1440 + least
        BY <1>8, <3>1 DEF Instant
      <4>2. t < n /\ n \in Nat
        BY <1>8, <3>2, <4>1
      <4>3. QED
        BY <1>7, <3>1, <4>2
    <3>5. Matches(f, n)
      BY <1>4, <1>5, <1>11, <1>12, <2>2, <3>3, <3>4
    <3>6. ASSUME NEW u \in t + 1 .. n - 1, Matches(f, u)
          PROVE  FALSE
      <4> DEFINE d == u \div 1440
                 m == u % 1440
      <4>1. u \in t + 1 .. t + Horizon /\ u < n
        BY <1>7, <3>4
      <4>2. u \in Nat /\ d \in Nat /\ m \in Nat /\ m <= 1439 /\ u = Instant(d, m)
        BY <1>12, <4>1
      <4>3. m \in S /\ DayMatches(f, d) /\ d \in days
        BY <1>4, <2>1, <3>6, <4>1, <4>2
      <4> HIDE DEF d, m
      <4>4. Instant(d, m) <= Instant(first, least) /\ Instant(d, m) # Instant(first, least)
        BY <3>1, <3>4, <4>1, <4>2
      <4>5. d <= first /\ (d = first => m <= least)
        BY <3>2, <4>2, <4>4, InstantsInOrder
      <4>6. d = first
        BY <1>11, <2>2, <3>2, <4>2, <4>3, <4>5
      <4>7. m = least
        BY <1>5, <3>2, <4>2, <4>3, <4>5, <4>6
      <4>8. QED
        BY <4>4, <4>6, <4>7
    <3>7. QED
      BY <3>4, <3>5, <3>6 DEF n, f
  <2>3. CASE ~((\E d \in days : DayMatches(f, d)) /\ then <= t + Horizon)
    <3>1. n = Never
      BY <1>3, <1>14, <2>3
    <3>2. ASSUME NEW u \in t + 1 .. t + Horizon, Matches(f, u)
          PROVE  FALSE
      <4> DEFINE d == u \div 1440
                 m == u % 1440
      <4>1. u \in Nat /\ d \in Nat /\ m \in Nat /\ m <= 1439 /\ u = Instant(d, m)
        BY <1>12
      <4>2. m \in S /\ DayMatches(f, d) /\ d \in days
        BY <1>4, <2>1, <3>2, <4>1
      <4> HIDE DEF d, m
      <4>3. first \in Nat /\ first <= d /\ least \in Nat /\ least <= m
        <5>1. first \in Nat /\ ~(d < first)
          BY <1>10, <1>11, <4>2
        <5>2. least \in Nat /\ least <= m
          BY <1>2, <1>5, <4>2
        <5>3. QED
          BY <4>1, <5>1, <5>2
      <4>4. Instant(first, least) <= u
        BY <4>1, <4>3 DEF Instant
      <4>5. ~(then <= t + Horizon)
        BY <2>3, <4>2
      <4>6. u <= t + Horizon /\ then \in Nat
        BY <1>7, <4>3, InstantNumber
      <4>7. QED
        BY <1>7, <4>1, <4>4, <4>5, <4>6
    <3>3. QED
      BY <3>1, <3>2 DEF n, f
  <2>4. QED
    BY <2>2, <2>3
<1>15. QED
  BY <1>13, <1>14

-----------------------------------------------------------------------------
(* The smallest interval *)

\* A bounded set of numbers has a greatest one.
LEMMA MaxIsGreatest ==
  ASSUME NEW S, S \subseteq Nat, S # {}, NEW n \in Nat, \A x \in S : x <= n
  PROVE  Max(S) \in S /\ \A y \in S : Max(S) >= y
<1> DEFINE above == {k \in Nat : \A y \in S : y <= k}
<1>1. PICK k \in above : \A l \in above : k <= l
  <2>1. above \subseteq Nat /\ n \in above
    OBVIOUS
  <2> HIDE DEF above
  <2>2. QED
    BY <2>1, LeastExists
<1>2. k \in Nat /\ \A y \in S : y <= k
  BY <1>1
<1>3. k \in S
  <2> SUFFICES ASSUME k \notin S PROVE FALSE
    OBVIOUS
  <2>1. \A y \in S : y \in Nat /\ y <= k - 1
    BY <1>2
  <2>2. k - 1 \in Nat
    <3>1. PICK y \in S : TRUE
      OBVIOUS
    <3>2. QED
      BY <1>2, <2>1, <3>1
  <2>3. k - 1 \in above
    BY <2>1, <2>2
  <2>4. QED
    BY <1>1, <1>2, <2>3
<1>4. QED
  BY <1>2, <1>3 DEF Max

After(S, a) == {b \in S : b > a}

\* Who is not the greatest has a next one.
LEMMA NextExists ==
  ASSUME NEW S, S \subseteq Nat, NEW n \in Nat, \A x \in S : x <= n, NEW a \in S
  PROVE  /\ a # Max(S) <=> After(S, a) # {}
         /\ a # Max(S) => Min(After(S, a)) \in S /\ Min(After(S, a)) > a /\ \A b \in S : b > a => Min(After(S, a)) <= b
<1> DEFINE greatest == Max(S)
           next == Min(After(S, a))
<1>1. greatest \in S /\ \A y \in S : greatest >= y
  BY MaxIsGreatest
<1>2. After(S, a) # {} => next \in After(S, a) /\ \A b \in After(S, a) : next <= b
  <2>1. After(S, a) \subseteq Nat
    BY DEF After
  <2>2. QED
    BY <2>1, MinIsLeast
<1> HIDE DEF greatest, next
<1>3. greatest # a => greatest \in After(S, a)
  BY <1>1 DEF After
<1>4. greatest = a => After(S, a) = {}
  <2>1. greatest = a => \A y \in S : ~ (y > a)
    BY <1>1
  <2>2. QED
    BY <2>1 DEF After
<1>5. greatest # a => next \in S /\ next > a /\ \A b \in S : b > a => next <= b
  BY <1>2, <1>3 DEF After
<1>6. QED
  BY <1>3, <1>4, <1>5 DEF greatest, next

LEMMA GapsAre == ASSUME NEW S, NEW g PROVE g \in Gaps(S) <=> \E a \in S : a # Max(S) /\ g = Min(After(S, a)) - a
BY DEF Gaps, After

\* The gaps of a bounded set are positive, and no two of its members are closer than one.
LEMMA GapsSeparate ==
  ASSUME NEW S, S \subseteq Nat, NEW n \in Nat, \A x \in S : x <= n
  PROVE  /\ \A g \in Gaps(S) : g \in Nat /\ g >= 1
         /\ \A a, b \in S : a < b => \E g \in Gaps(S) : g <= b - a
<1>1. ASSUME NEW g \in Gaps(S)
      PROVE  g \in Nat /\ g >= 1
  <2>1. PICK a \in S : a # Max(S) /\ g = Min(After(S, a)) - a
    BY GapsAre
  <2> DEFINE next == Min(After(S, a))
  <2>2. next \in S /\ next > a /\ g = next - a
    BY <2>1, NextExists
  <2> HIDE DEF next
  <2>3. QED
    BY <2>2
<1>2. ASSUME NEW a \in S, NEW b \in S, a < b
      PROVE  \E g \in Gaps(S) : g <= b - a
  <2> DEFINE next == Min(After(S, a))
  <2>1. a # Max(S)
    <3> DEFINE greatest == Max(S)
    <3>1. \A y \in S : greatest >= y
      BY MaxIsGreatest
    <3> HIDE DEF greatest
    <3>2. a # greatest
      BY <1>2, <3>1
    <3>3. QED
      BY <3>2 DEF greatest
  <2>2. next \in S /\ next <= b
    BY <1>2, <2>1, NextExists
  <2>3. next - a \in Gaps(S)
    BY <2>1, GapsAre
  <2> HIDE DEF next
  <2>4. next - a <= b - a
    BY <2>2
  <2>5. QED
    BY <2>3, <2>4
<1>3. QED
  BY <1>1, <1>2

ProbedDays(f) == {d \in Probed : DayMatches(f, d)}

\* Two days in a row of 2020 match.
InARow(f) == \E p \in ProbedDays(f) : p + 1 \in ProbedDays(f)

\* The year 2020 tells: if any two days in a row match then two in a row of 2020 do.
\* Finding 30 of README.md is of those of which it does not.
Told(f) == \A d \in Nat : DayMatches(f, d) /\ DayMatches(f, d + 1) => InARow(f)

LEMMA ProbedAre == Probed = {7245 + i : i \in 0 .. 365}
BY SMT DEF Probed, DayOf

\* Where 2020 has the date of a day of a year that begins in March.
Place(doy) == IF doy <= 305 THEN 7305 + doy ELSE 6939 + doy

LEMMA DatesProbed ==
  ASSUME NEW doy \in 0 .. 365
  PROVE  Place(doy) \in Probed /\ Civil(Place(doy)) = DateOf(doy)
<1> DEFINE p == Place(doy)
<1>1. p \in 7245 .. 7610
  BY DEF Place
<1>2. p \in Probed
  <2>1. p - 7245 \in 0 .. 365 /\ p = 7245 + (p - 7245)
    BY <1>1
  <2>2. QED
    BY <2>1, ProbedAre
<1>3. p % YearDays = p
  BY <1>1 DEF YearDays
<1> DEFINE yoe == (p - p \div 1460 + p \div 36524 - p \div 146096) \div 365
<1>4. doy = p - (365 * yoe + yoe \div 4 - yoe \div 100)
  <2>1. CASE doy <= 305
    <3>1. p = 7305 + doy /\ p \div 1460 = 5 /\ p \div 36524 = 0 /\ p \div 146096 = 0
      BY <2>1 DEF Place
    <3>2. yoe = 20
      BY <2>1, <3>1
    <3>3. QED
      BY <3>1, <3>2
  <2>2. CASE doy > 305
    <3>1. p = 6939 + doy /\ p \div 36524 = 0 /\ p \div 146096 = 0
      BY <2>2 DEF Place
    <3>2. p - p \div 1460 \in 6935 .. 7299
      BY <2>2, <3>1
    <3>3. yoe = 19
      BY <3>1, <3>2
    <3>4. QED
      BY <3>1, <3>3
  <2>3. QED
    BY <2>1, <2>2
<1>5. Civil(p) = DateOf(p - (365 * yoe + yoe \div 4 - yoe \div 100))
  BY <1>3 DEF Civil, DateOf
<1> HIDE DEF p, yoe
<1>6. Civil(p) = DateOf(doy)
  BY <1>4, <1>5
<1>7. QED
  BY <1>2, <1>6 DEF p

LEMMA Residue == ASSUME NEW n \in Int, NEW x \in Int, NEW r \in 0 .. 6, n = 7 * x + r PROVE n % 7 = r
BY SMT

LEMMA Residues == \A n \in Int : n % 7 \in 0 .. 6 /\ \E x \in Int : n = 7 * x + (n % 7)
<1>1. ASSUME NEW n \in Int PROVE n % 7 \in 0 .. 6 /\ n = 7 * (n \div 7) + (n % 7) /\ n \div 7 \in Int
  BY SMT
<1>2. QED
  BY <1>1

\* 2020 has every day of the week in every month.
LEMMA WeekdaysProbed ==
  ASSUME NEW doy \in 0 .. 365, NEW d \in Nat
  PROVE  \E p \in Probed : Civil(p).month = DateOf(doy).month /\ Weekday(p) = Weekday(d)
<1> DEFINE mp(x) == (5 * x + 2) \div 153
           w == Place(doy)
           k == (Weekday(d) - Weekday(w)) % 7
           q == IF mp(doy + 7) = mp(doy) THEN doy + k ELSE doy + k - 7
<1>1. w \in Nat
  BY DEF Place
<1>2. k \in 0 .. 6
  BY <1>1 DEF Weekday
<1> HIDE DEF k
<1>3. q \in 0 .. 365 /\ mp(q) = mp(doy)
  <2>1. CASE mp(doy + 7) = mp(doy)
    <3>1. doy + 7 <= 366
      BY <2>1
    <3>2. mp(doy) <= mp(doy + k) /\ mp(doy + k) <= mp(doy + 7)
      BY <1>2
    <3>3. QED
      BY <1>2, <2>1, <3>1, <3>2
  <2>2. CASE mp(doy + 7) # mp(doy)
    <3>1. mp(doy - 7) = mp(doy) /\ doy >= 7
      BY <2>2
    <3>2. mp(doy - 7) <= mp(doy + k - 7) /\ mp(doy + k - 7) <= mp(doy)
      BY <1>2, <3>1
    <3>3. QED
      BY <1>2, <2>2, <3>1, <3>2
  <2>3. QED
    BY <2>1, <2>2
<1>4. Place(q) - w = q - doy
  <2>1. \A x \in 0 .. 365 : x <= 305 <=> mp(x) <= 9
    OBVIOUS
  <2>2. q <= 305 <=> doy <= 305
    BY <1>3, <2>1
  <2> HIDE DEF q
  <2>3. CASE doy <= 305
    BY <1>3, <2>2, <2>3 DEF Place
  <2>4. CASE doy > 305
    BY <1>3, <2>2, <2>4 DEF Place
  <2>5. QED
    BY <2>3, <2>4
<1>5. Weekday(w + k) = Weekday(d) /\ Weekday(w + k - 7) = Weekday(d)
  <2> DEFINE a == (d + 3) % 7
             b == (w + 3) % 7
  <2>1. PICK x \in Int : a \in 0 .. 6 /\ d + 3 = 7 * x + a
    BY Residues
  <2>2. PICK y \in Int : b \in 0 .. 6 /\ w + 3 = 7 * y + b
    BY <1>1, Residues
  <2>3. k = (a - b) % 7
    BY DEF k, Weekday
  <2> HIDE DEF a, b
  <2>4. PICK z \in Int : k \in 0 .. 6 /\ a - b = 7 * z + k
    BY <2>1, <2>2, <2>3, Residues
  <2>5. w + k + 3 = 7 * (y - z) + a /\ w + k - 7 + 3 = 7 * (y - z - 1) + a
    BY <1>1, <2>1, <2>2, <2>4
  <2> HIDE DEF w
  <2>6. (w + k + 3) % 7 = a /\ (w + k - 7 + 3) % 7 = a
    BY <1>1, <1>2, <2>1, <2>2, <2>4, <2>5, Residue
  <2>7. QED
    BY <2>6 DEF Weekday, a
<1>6. Weekday(Place(q)) = Weekday(d)
  <2>1. Place(q) = w + k \/ Place(q) = w + k - 7
    BY <1>1, <1>2, <1>3, <1>4 DEF Place
  <2>2. QED
    BY <1>5, <2>1
<1>7. DateOf(q).month = DateOf(doy).month
  BY <1>3 DEF DateOf
<1> HIDE DEF q
<1>8. QED
  BY <1>3, <1>6, <1>7, DatesProbed

\* An expression that ever matches a day matches one of 2020.
LEMMA MatchesAreProbed ==
  ASSUME NEW f, NEW d \in Nat, DayMatches(f, d)
  PROVE  ProbedDays(f) # {}
<1>1. PICK doy \in 0 .. 365 : Civil(d) = DateOf(doy)
  BY CivilDate
<1>2. CASE Restricted(f[Dow], <<0, 6>>) /\ Weekday(d) \in f[Dow]
  <2>1. PICK p \in Probed : Civil(p).month = DateOf(doy).month /\ Weekday(p) = Weekday(d)
    BY WeekdaysProbed
  <2>2. p \in Nat
    BY ProbedAre
  <2>3. ~Restricted(f[Dom], Bounds[Dom]) => Civil(p).day \in f[Dom]
    BY <2>2, BoundsAre, CivilDates DEF Restricted
  <2>4. DayMatches(f, p)
    BY <1>1, <1>2, <2>1, <2>3 DEF DayMatches
  <2>5. QED
    BY <2>1, <2>4 DEF ProbedDays
<1>3. CASE Restricted(f[Dow], <<0, 6>>) /\ Weekday(d) \notin f[Dow]
  <2>1. Place(doy) \in Probed /\ Civil(Place(doy)) = Civil(d)
    BY <1>1, DatesProbed
  <2>2. DayMatches(f, Place(doy))
    BY <1>3, <2>1 DEF DayMatches
  <2>3. QED
    BY <2>1, <2>2 DEF ProbedDays
<1>4. CASE ~Restricted(f[Dow], <<0, 6>>)
  <2>1. Place(doy) \in Probed /\ Civil(Place(doy)) = Civil(d) /\ Place(doy) \in Nat
    BY <1>1, DatesProbed DEF Place
  <2>2. Weekday(Place(doy)) \in f[Dow]
    BY <1>4, <2>1, CivilDates DEF Restricted
  <2>3. DayMatches(f, Place(doy))
    BY <1>4, <2>1, <2>2 DEF DayMatches
  <2>4. QED
    BY <2>1, <2>3 DEF ProbedDays
<1>5. QED
  BY <1>2, <1>3, <1>4

LEMMA ProbedGaps ==
  ASSUME NEW f
  PROVE  /\ \A g \in Gaps(ProbedDays(f)) : g \in Nat /\ g >= 1
         /\ \A a, b \in ProbedDays(f) : a < b => \E g \in Gaps(ProbedDays(f)) : g <= b - a
<1>1. ProbedDays(f) \subseteq Nat /\ \A d \in ProbedDays(f) : d <= 7610
  BY ProbedAre DEF ProbedDays
<1>2. QED
  BY <1>1, GapsSeparate

LEMMA NeighboursGap ==
  ASSUME NEW f, NEW p \in ProbedDays(f), p + 1 \in ProbedDays(f)
  PROVE  1 \in Gaps(ProbedDays(f))
<1>1. p \in Nat
  BY ProbedAre DEF ProbedDays
<1>2. PICK g \in Gaps(ProbedDays(f)) : g <= (p + 1) - p
  BY <1>1, ProbedGaps
<1>3. g \in Nat /\ g >= 1
  BY ProbedGaps
<1>4. g = 1
  BY <1>1, <1>2, <1>3
<1>5. QED
  BY <1>4

\* From the last minute of a day to the first one of the day g days later.
Between(g, lo, hi) == g * 1440 + lo - hi

LEMMA DaysApart ==
  ASSUME NEW c \in Nat, NEW d \in Nat, NEW g \in Nat, NEW k \in Nat, NEW m \in Nat, NEW lo \in Nat, NEW hi \in Nat,
         g <= d - c, k <= hi, lo <= m
  PROVE  Between(g, lo, hi) <= Instant(d, m) - Instant(c, k)
<1>1. g * 1440 <= (d - c) * 1440
  BY SMT
<1>2. QED
  BY <1>1 DEF Instant, Between

\* min_interval_minutes(): no two minutes that match are closer than what it returns, or
\* than a day, save on two days in a row of which 2020 has no like.
THEOREM MatchesAreApart ==
  ASSUME NEW e, Accepted(e), NEW t \in Nat, NEW u \in Nat, t < u,
         Matches(Parsed(e), t), Matches(Parsed(e), u),
         u \div 1440 = t \div 1440 + 1 => InARow(Parsed(e))
  PROVE  u - t >= 1440 \/ (MinIntervalMinutes(Parsed(e)) \in Nat /\ u - t >= MinIntervalMinutes(Parsed(e)))
<1> DEFINE f == Parsed(e)
           S == Times(f)
           lo == Min(S)
           hi == Max(S)
           c == t \div 1440
           d == u \div 1440
           k == t % 1440
           m == u % 1440
           between == {Between(g, lo, hi) : g \in Gaps(ProbedDays(f))}
           gaps == Gaps(S) \cup between
           final == 1439
<1>0. final \in Nat
  OBVIOUS
<1>1. S \subseteq Nat /\ S # {} /\ \A x \in S : x <= final
  BY TimesOfDay
<1>2. c \in Nat /\ k \in Nat /\ k <= 1439 /\ t = Instant(c, k) /\ d \in Nat /\ m \in Nat /\ m <= 1439 /\ u = Instant(d, m)
  BY InstantOf
<1>3. k \in S /\ m \in S /\ DayMatches(f, c) /\ DayMatches(f, d)
  BY DEF Matches
<1>4. gaps # {} => MinIntervalMinutes(f) = Min(gaps)
  <2>1. {x \in Probed : DayMatches(f, x)} # {}
    BY <1>2, <1>3, MatchesAreProbed DEF ProbedDays
  <2>2. QED
    BY <2>1 DEF MinIntervalMinutes, ProbedDays, Between
<1>5. \A g \in Gaps(ProbedDays(f)) : g \in Nat /\ g >= 1
  BY ProbedGaps
<1>6. d = c + 1 => 1 \in Gaps(ProbedDays(f))
  <2>1. d = c + 1 => \E p \in ProbedDays(f) : p + 1 \in ProbedDays(f)
    BY DEF InARow
  <2>2. QED
    BY <2>1, NeighboursGap
<1> HIDE DEF f, S, c, d, k, m, final
<1>7. lo \in S /\ (\A x \in S : lo <= x) /\ hi \in S /\ (\A x \in S : hi >= x)
  <2>1. hi \in S /\ \A x \in S : hi >= x
    BY <1>0, <1>1, MaxIsGreatest
  <2>2. QED
    BY <1>1, <2>1, MinIsLeast
<1>8. (\A g \in Gaps(S) : g \in Nat /\ g >= 1) /\ \A a, b \in S : a < b => \E g \in Gaps(S) : g <= b - a
  BY <1>0, <1>1, GapsSeparate
<1> HIDE DEF lo, hi
<1>9. lo \in Nat /\ hi \in Nat /\ hi <= 1439
  BY <1>1, <1>7 DEF final
<1>10. gaps \subseteq Nat
  <2>1. \A g \in Gaps(ProbedDays(f)) : Between(g, lo, hi) \in Nat
    BY <1>5, <1>9 DEF Between
  <2>2. QED
    BY <1>8, <2>1
<1>11. u - t >= 1440 \/ \E g \in gaps : g <= u - t
  <2>1. c <= d /\ (c = d => k <= m)
    BY <1>2, InstantsInOrder
  <2>2. CASE c = d
    <3>1. k # m
      BY <1>2, <2>2
    <3>2. k < m
      BY <1>2, <2>1, <2>2, <3>1
    <3>3. PICK g \in Gaps(S) : g <= m - k
      BY <1>3, <1>8, <3>2
    <3>4. u - t = m - k
      BY <1>2, <2>2 DEF Instant
    <3>5. QED
      BY <3>3, <3>4
  <2>3. CASE d = c + 1
    <3>1. 1 \in Gaps(ProbedDays(f)) /\ 1 <= d - c
      BY <1>2, <1>6, <2>3
    <3>2. k <= hi /\ lo <= m
      BY <1>3, <1>7
    <3>3. Between(1, lo, hi) <= Instant(d, m) - Instant(c, k)
      <4>1. 1 \in Nat /\ c \in Nat /\ d \in Nat /\ k \in Nat /\ m \in Nat /\ lo \in Nat /\ hi \in Nat
        BY <1>2, <1>9
      <4>2. QED
        BY <3>1, <3>2, <4>1, DaysApart
    <3>4. Between(1, lo, hi) \in gaps
      BY <3>1
    <3>5. QED
      BY <1>2, <3>3, <3>4
  <2>4. CASE d >= c + 2
    BY <1>2, <2>4 DEF Instant
  <2>5. QED
    BY <1>2, <2>1, <2>2, <2>3, <2>4
<1> HIDE DEF gaps, between
<1>12. ASSUME NEW g \in gaps, g <= u - t
       PROVE  MinIntervalMinutes(f) \in Nat /\ MinIntervalMinutes(f) <= u - t
  <2> DEFINE least == Min(gaps)
  <2>1. least \in gaps /\ \A h \in gaps : least <= h
    BY <1>10, <1>12, MinIsLeast
  <2>2. MinIntervalMinutes(f) = least
    BY <1>4, <1>12
  <2> HIDE DEF least
  <2>3. least \in Nat /\ g \in Nat /\ least <= g
    BY <1>10, <2>1
  <2>4. least \in Nat /\ least <= u - t
    BY <1>12, <2>3
  <2>5. QED
    BY <2>2, <2>4
<1>13. u - t >= 1440 \/ (MinIntervalMinutes(f) \in Nat /\ MinIntervalMinutes(f) <= u - t)
  BY <1>11, <1>12
<1>14. QED
  BY <1>13 DEF f

\* 2020 tells of every expression whose days are those of a week.
LEMMA WeeklyIsTold ==
  ASSUME NEW e, Accepted(e), NEW week, week \subseteq 0 .. 6,
         \A d \in Nat : DayMatches(Parsed(e), d) <=> Weekday(d) \in week
  PROVE  Told(Parsed(e))
<1> DEFINE f == Parsed(e)
<1>1. \A d \in Nat : DayMatches(f, d) <=> (d + 3) % 7 \in week
  BY DEF Weekday
<1> HIDE DEF f
<1>2. \A d : d \in ProbedDays(f) <=> d \in 7245 .. 7610 /\ (d + 3) % 7 \in week
  BY <1>1, ProbedAre DEF ProbedDays
<1>5. ASSUME NEW c \in Nat, (c + 3) % 7 \in week
      PROVE  \E a \in 7245 .. 7251 : (a + 3) % 7 = (c + 3) % 7
  <2>1. \E r \in 0 .. 6 : (c + 3) % 7 = r
    BY SMT
  <2>2. \A r \in 0 .. 6 : \E a \in 7245 .. 7251 : (a + 3) % 7 = r
    BY SMT
  <2>3. QED
    BY <2>1, <2>2
<1>7. ASSUME NEW d \in Nat, DayMatches(f, d), DayMatches(f, d + 1)
      PROVE  InARow(f)
  <2>1. (d + 3) % 7 \in week /\ (d + 1 + 3) % 7 \in week
    BY <1>1, <1>7
  <2>2. PICK p \in 7245 .. 7251 : (p + 3) % 7 = (d + 3) % 7
    BY <1>5, <2>1
  <2>3. (p + 1 + 3) % 7 = (d + 1 + 3) % 7
    BY <2>2, SMT
  <2>4. (p + 3) % 7 \in week /\ (p + 1 + 3) % 7 \in week /\ p \in 7245 .. 7610 /\ p + 1 \in 7245 .. 7610
    BY <2>1, <2>2, <2>3
  <2>5. p \in ProbedDays(f) /\ p + 1 \in ProbedDays(f)
    BY <1>2, <2>4
  <2>6. QED
    BY <2>5 DEF InARow
<1>8. QED
  BY <1>7 DEF Told, f

\* So it does of every expression that leaves the day of month and the month free.
LEMMA EveryWeekIsTold ==
  ASSUME NEW e, Accepted(e), Parsed(e)[Dom] = 1 .. 31, Parsed(e)[Month] = 1 .. 12
  PROVE  Told(Parsed(e))
<1> DEFINE f == Parsed(e)
           vs == Values(e[Dow], Bounds[Dow])
<1>1. f[Dow] = {v % 7 : v \in vs} /\ vs # {} /\ vs \subseteq 0 .. 7
  <2>1. Dow \in 1 .. 5 /\ Bounds[Dow][1] = 0 /\ Bounds[Dow][2] = 7
    BY BoundsAre
  <2>2. QED
    BY <2>1, ValuesWithin DEF Parsed
<1> HIDE DEF f, vs
<1>2. f[Dow] # {} /\ f[Dow] \subseteq 0 .. 6
  <2>1. f[Dow] # {}
    BY <1>1
  <2>2. \A v \in vs : v % 7 \in 0 .. 6
    BY <1>1
  <2>3. f[Dow] \subseteq 0 .. 6
    BY <1>1, <2>2
  <2>4. QED
    BY <2>1, <2>3
<1>3. ~Restricted(f[Dom], Bounds[Dom])
  BY BoundsAre DEF Restricted, f
<1>4. \A d \in Nat : DayMatches(f, d) <=> Weekday(d) \in f[Dow]
  BY <1>3, CivilDates DEF DayMatches, f
<1>5. QED
  BY <1>2, <1>4, WeeklyIsTold DEF f

-----------------------------------------------------------------------------
(* Cron: a schedule that is listed and ticked *)

\* The next run that was listed and has not come: no minute up to it matches.
ListedIsAhead ==
  shown \notin {Unset, Never} =>
    /\ cron # Unset
    /\ shown \in Nat /\ shown > now /\ Matches(Fields[cron], shown)
    /\ \A u \in now + 1 .. shown - 1 : ~Matches(Fields[cron], u)

CronIInv ==
  /\ now \in Clock
  /\ cron # Unset => cron \in Spaced
  /\ last # Unset => cron # Unset /\ last \in Nat /\ last <= now /\ Matches(Fields[cron], last)
  /\ ListedIsAhead

LEMMA FieldsAreParsed == \A e \in DOMAIN Fields : e \in Expressions /\ Accepted(e) /\ Fields[e] = Parsed(e)
BY CronConstants DEF Fields, Accepted

LEMMA SavedIsParsed == ASSUME CronIInv, cron # Unset PROVE cron \in DOMAIN Fields
BY DEF CronIInv, Spaced

LEMMA ListedAhead ==
  ASSUME CronIInv, List
  PROVE  ListedIsAhead'
<1> DEFINE next == NextRun(Parsed(cron), now)
<1>1. now \in Clock /\ now \in Nat /\ cron \in DOMAIN Fields /\ cron' = cron /\ now' = now
  BY CronConstants, SavedIsParsed DEF CronIInv, List
<1>2. Accepted(cron) /\ Fields[cron] = Parsed(cron)
  BY <1>1, FieldsAreParsed
<1>3. shown' = next
  BY <1>1, <1>2 DEF List, NextRuns
<1>4. \/ next = Never
      \/ /\ next \in now + 1 .. now + Horizon /\ Matches(Fields[cron], next)
         /\ \A u \in now + 1 .. next - 1 : ~Matches(Fields[cron], u)
  BY <1>1, <1>2, NextRunIsNext
<1>5. next = Never \/ (next \in Nat /\ next > now)
  BY <1>1, <1>4 DEF Horizon
<1> HIDE DEF next
<1>6. cron # Unset
  BY DEF List
<1>7. QED
  BY <1>1, <1>3, <1>4, <1>5, <1>6 DEF ListedIsAhead

LEMMA CronInductive ==
  ASSUME CronIInv, [CronNext]_cronVars
  PROVE  CronIInv'
<1> now \in Nat
  BY CronConstants DEF CronIInv
<1>1. CASE UNCHANGED cronVars
  BY <1>1 DEF cronVars, CronIInv, ListedIsAhead
<1>2. ASSUME NEW e \in Expressions, Save(e) PROVE CronIInv'
  BY <1>2, CronConstants DEF Save, CronIInv, ListedIsAhead
<1>3. CASE List
  <2>1. UNCHANGED <<cron, now, last>>
    BY <1>3 DEF List
  <2>2. ListedIsAhead'
    BY <1>3, ListedAhead
  <2>3. QED
    BY <2>1, <2>2 DEF CronIInv
<1>4. ASSUME NEW t \in Clock, TickAt(t) PROVE CronIInv'
  <2>1. t \in Nat /\ t > now /\ now' = t /\ cron' = cron
    BY <1>4, CronConstants DEF TickAt
  <2>2. last' # Unset => cron' # Unset /\ last' \in Nat /\ last' <= now' /\ Matches(Fields[cron'], last')
    BY <1>4, <2>1 DEF TickAt, CronIInv
  <2>3. ListedIsAhead'
    BY <1>4, <2>1 DEF TickAt, CronIInv, ListedIsAhead
  <2>4. QED
    BY <2>1, <2>2, <2>3 DEF CronIInv
<1>5. QED
  BY <1>1, <1>2, <1>3, <1>4 DEF CronNext

LEMMA CronInvariant == CronSpec => []CronIInv
<1>1. CronInit => CronIInv
  BY DEF CronInit, CronIInv, ListedIsAhead
<1>2. QED
  BY <1>1, CronInductive, PTL DEF CronSpec

\* The clock moves only with the tick, which starts the schedule if the minute matches.
LEMMA TickStarts ==
  ASSUME CronIInv, [CronNext]_cronVars, now' # now, cron # Unset
  PROVE  /\ now' \in Nat /\ now' > now /\ cron \in DOMAIN Fields
         /\ last' = now' <=> Matches(Fields[cron], now')
<1>1. PICK t \in Clock : TickAt(t)
  BY DEF CronNext, Save, List, cronVars
<1>2. t \in Nat /\ now \in Nat /\ t > now /\ now' = t
  BY <1>1, CronConstants DEF TickAt, CronIInv
<1>3. last # t
  BY <1>2, CronConstants DEF CronIInv
<1>4. cron \in DOMAIN Fields
  BY SavedIsParsed
<1>5. QED
  BY <1>1, <1>2, <1>3, <1>4 DEF TickAt

\* The tick starts a schedule in the minutes its expression means and in no others, on
\* every date: matches() and the docstring of cron.py.  StepsCount leaves out the step 1
\* on a value, which matches() ignores.
THEOREM SchedulesFireAsWritten ==
  ASSUME \A e \in Expressions : StepsCount(e)
  PROVE  CronSpec => FiresAsWritten
<1>1. ASSUME CronIInv, [CronNext]_cronVars, now' # now, cron # Unset
      PROVE  last' = now' <=> Meant(cron, now')
  BY <1>1, TickStarts, FieldsAreParsed, MatchesAsWritten
<1>2. CronIInv /\ [CronNext]_cronVars =>
        [now' # now /\ cron # Unset => (last' = now' <=> Meant(cron, now'))]_cronVars
  BY <1>1
<1>3. QED
  BY <1>2, CronInvariant, PTL DEF CronSpec, FiresAsWritten

\* The next run that is listed is the minute the schedule starts next: the tick starts it in
\* no minute before, and in that minute if it sees it.
THEOREM ListedRunsAreKept ==
  CronSpec =>
    [][now' # now /\ shown \notin {Unset, Never} =>
         (now' < shown => last' # now') /\ (now' = shown => last' = now')]_cronVars
<1>1. ASSUME CronIInv, [CronNext]_cronVars, now' # now, shown \notin {Unset, Never}
      PROVE  (now' < shown => last' # now') /\ (now' = shown => last' = now')
  <2>1. /\ cron # Unset /\ shown \in Nat /\ shown > now /\ Matches(Fields[cron], shown)
        /\ \A u \in now + 1 .. shown - 1 : ~Matches(Fields[cron], u)
    BY <1>1 DEF CronIInv, ListedIsAhead
  <2>2. now \in Nat /\ now' \in Nat /\ now' > now /\ (last' = now' <=> Matches(Fields[cron], now'))
    BY <1>1, <2>1, TickStarts, CronConstants DEF CronIInv
  <2>3. now' < shown => now' \in now + 1 .. shown - 1
    BY <2>1, <2>2
  <2>4. QED
    BY <2>1, <2>2, <2>3
<1>2. CronIInv /\ [CronNext]_cronVars =>
        [now' # now /\ shown \notin {Unset, Never} =>
           (now' < shown => last' # now') /\ (now' = shown => last' = now')]_cronVars
  BY <1>1
<1>3. QED
  BY <1>2, CronInvariant, PTL DEF CronSpec

LEMMA NeighboursAre == \A e \in DOMAIN Fields : e \in Neighbouring <=> InARow(Parsed(e))
BY FieldsAreParsed DEF Neighbouring, InARow, ProbedDays

\* Two starts of a schedule, the last one and the next.
LEMMA StartsApart ==
  ASSUME MinInterval <= 1440, CronIInv, [CronNext]_cronVars, last # Unset, last' # Unset, last' # last,
         last' \div 1440 = last \div 1440 + 1 => InARow(Parsed(cron))
  PROVE  last' - last >= MinInterval
<1>1. PICK t \in Clock : TickAt(t)
  BY DEF CronNext, Save, List, cronVars
<1>2. /\ cron \in Spaced /\ cron \in DOMAIN Fields
      /\ last \in Nat /\ last <= now /\ Matches(Fields[cron], last)
  BY SavedIsParsed DEF CronIInv
<1>3. t \in Nat /\ now \in Nat /\ now < t /\ last' = t /\ Matches(Fields[cron], t)
  BY <1>1, CronConstants DEF TickAt, CronIInv
<1>4. cron \in Expressions /\ Accepted(cron) /\ Fields[cron] = Parsed(cron)
  BY <1>2, FieldsAreParsed
<1>5. last < t
  BY <1>2, <1>3
<1> DEFINE interval == MinIntervalMinutes(Parsed(cron))
<1>6. t - last >= 1440 \/ (interval \in Nat /\ t - last >= interval)
  BY <1>2, <1>3, <1>4, <1>5, MatchesAreApart
<1>7. interval >= MinInterval
  BY <1>2, <1>4 DEF Spaced
<1> HIDE DEF interval
<1>8. QED
  BY <1>2, <1>3, <1>6, <1>7, CronConstants

\* An accepted schedule never starts twice within _MIN_INTERVAL_MINUTES, whatever its
\* expression, except over a midnight of which 2020, the year that
\* min_interval_minutes() probes, has no like.  (The code's minimum is 15; one longer than a
\* day would need to know of more days than neighbours.)
THEOREM SchedulesAreFarApart ==
  ASSUME MinInterval <= 1440
  PROVE  CronSpec => FarEnough
<1>1. ASSUME CronIInv, [CronNext]_cronVars, last # Unset, last' # Unset, last' # last
      PROVE  \/ last' - last >= MinInterval
             \/ cron \notin Neighbouring /\ last' \div 1440 = last \div 1440 + 1
  <2>1. cron \in DOMAIN Fields
    BY <1>1, SavedIsParsed DEF CronIInv
  <2>2. QED
    BY <1>1, <2>1, StartsApart, NeighboursAre
<1>2. CronIInv /\ [CronNext]_cronVars =>
        [last # Unset /\ last' # Unset /\ last' # last =>
           \/ last' - last >= MinInterval
           \/ cron \notin Neighbouring /\ last' \div 1440 = last \div 1440 + 1]_cronVars
  BY <1>1
<1>3. QED
  BY <1>2, CronInvariant, PTL DEF CronSpec, FarEnough

\* README.md's minimum itself holds of the schedules that leave the day of month and the
\* month free.
THEOREM WeeklySchedulesKeepTheMinimum ==
  ASSUME MinInterval <= 1440, \A e \in Spaced : Parsed(e)[Dom] = 1 .. 31 /\ Parsed(e)[Month] = 1 .. 12
  PROVE  CronSpec => MinimumKept
<1>1. ASSUME CronIInv, [CronNext]_cronVars, last # Unset, last' # Unset, last' # last
      PROVE  last' - last >= MinInterval
  <2>1. /\ cron \in Spaced /\ cron \in DOMAIN Fields
        /\ last \in Nat /\ Matches(Fields[cron], last)
    BY <1>1, SavedIsParsed DEF CronIInv
  <2>2. Accepted(cron) /\ Fields[cron] = Parsed(cron)
    BY <2>1, FieldsAreParsed
  <2>3. Told(Parsed(cron))
    BY <2>1, <2>2, EveryWeekIsTold
  <2>4. last' \in Nat /\ Matches(Parsed(cron), last')
    BY <1>1, <2>2, CronInductive DEF CronIInv, CronNext, Save, List, TickAt, cronVars
  <2>5. last' \div 1440 = last \div 1440 + 1 => InARow(Parsed(cron))
    <3>1. last \div 1440 \in Nat
      BY <2>1
    <3>2. QED
      BY <2>2, <2>1, <2>3, <2>4, <3>1 DEF Told, Matches
  <2>6. QED
    BY <1>1, <2>5, StartsApart
<1>2. CronIInv /\ [CronNext]_cronVars =>
        [last # Unset /\ last' # Unset /\ last' # last => last' - last >= MinInterval]_cronVars
  BY <1>1
<1>3. QED
  BY <1>2, CronInvariant, PTL DEF CronSpec, MinimumKept

-----------------------------------------------------------------------------
(* The tick and the expressions *)

\* Only the tick adds to the pending launches, and it adds what is due.
LEMMA OnlyDueArePending ==
  ASSUME [BackupNext]_allVars, NEW n \in pending' \ pending
  PROVE  Due(n)
<1>1. ~ (MinutePasses \/ Shutdown \/ Dies \/ Boot \/ UNCHANGED allVars)
  BY DEF MinutePasses, Shutdown, Stop, Dies, Crash, Boot, Start, allVars, engine
<1>2. ~ Request
  BY DEF Request, RequestRun, RunNow, CancelDump, CancelStale, Toggle, Delete, SaveChecked, SaveRejected,
         SaveCommitted, ClearHistory, engine
<1>3. \A t \in Tasks : ~ TaskStarts(t) /\ ~ RunAdvances(t)
  <2>1. ASSUME NEW t \in Tasks, TaskStarts(t) PROVE FALSE
    BY <2>1 DEF TaskStarts, QueueForSlot, StartRun, StartWithoutEndpoint, ReservedQueues, ReservedRuns,
                ReservedReturns, WaiterRuns, WaiterReturns, FirstStep, HasSlot
  <2>2. ASSUME NEW t \in Tasks, RunAdvances(t) PROVE FALSE
    BY <2>2 DEF RunAdvances, Connected, ConnectFails, DumpFails, DumpKept, DumpPushed, PushFails, PushSucceeds,
                RunEnds, Finish, engine
  <2>3. QED
    BY <2>1, <2>2
<1>4. ASSUME NEW m \in Names, LaunchDecided(m) PROVE FALSE
  BY <1>4 DEF LaunchDecided, LaunchSkipped, LaunchDuplicate, LaunchWithoutEndpoint, LaunchEnters,
              LaunchSkips, LaunchReturns, LaunchRuns
<1>5. TickSchedules
  BY <1>1, <1>2, <1>3, <1>4 DEF BackupNext, ProcessDies, DiesMidway, DiesConcluding
<1>6. QED
  BY <1>5 DEF TickSchedules, Tick

\* What the tick launches is a schedule that is enabled and whose cron expression, read as
\* the docstring of cron.py reads it, means the minute of the tick: written holds the
\* expression of each settings, and the tick asks matches() of what parse() made of it.
THEOREM TicksFireAsWritten ==
  ASSUME NEW written, \A s \in Settings : Accepted(written[s]) /\ StepsCount(written[s]),
         \A s \in Settings : CronMinutes[s] = {m \in Minutes : Matches(Parsed(written[s]), m)}
  PROVE  BackupSpec =>
           [][\A n \in pending' \ pending :
                config[n].enabled /\ Meant(written[config[n].settings], minute)]_allVars
<1>1. ASSUME BackupTypeOK, [BackupNext]_allVars, NEW n \in pending' \ pending, pending' \subseteq Names
      PROVE  config[n].enabled /\ Meant(written[config[n].settings], minute)
  <2>1. config[n].enabled /\ minute \in CronMinutes[config[n].settings]
    BY <1>1, OnlyDueArePending DEF Due
  <2>2. config[n] \in Definition
    BY <1>1, <2>1 DEF BackupTypeOK, Undefined
  <2>3. config[n].settings \in Settings
    BY <2>2 DEF Definition
  <2>4. minute \in Minutes /\ Matches(Parsed(written[config[n].settings]), minute)
    BY <2>1, <2>3
  <2>5. minute \in Nat
    BY <2>4, BackupConstants
  <2>6. QED
    BY <2>1, <2>3, <2>4, <2>5, MatchesAsWritten
<1>2. BackupTypeOK' => pending' \subseteq Names
  BY DEF BackupTypeOK, TypeOK
<1>3. BackupTypeOK /\ BackupTypeOK' /\ [BackupNext]_allVars =>
        [\A n \in pending' \ pending :
           config[n].enabled /\ Meant(written[config[n].settings], minute)]_allVars
  BY <1>1, <1>2
<1>4. QED
  BY <1>3, BackupTypes, PTL DEF BackupSpec
===============================================================================
