--------------------------- MODULE AsyncSemaphore ---------------------------
(***************************************************************************)
(* asyncio.Semaphore (CPython 3.11), the lock scheduler.py takes with      *)
(* "async with self._sem".  The code is the interpreter's: what is         *)
(* modelled is the behaviour the scheduler relies on, as pure operators on *)
(* a semaphore value s:                                                    *)
(*   s.value   - slots nobody owns                                         *)
(*   s.waiters - the deque of suspended acquirers, oldest first            *)
(*   s.woken   - how many of them, from the front, were handed a slot and  *)
(*               have not run yet: an acquirer leaves the deque only when  *)
(*               its task resumes                                          *)
(***************************************************************************)
EXTENDS Naturals, Sequences

Fresh(slots) == [value |-> slots, waiters |-> <<>>, woken |-> 0]

\* locked(): an acquirer would have to suspend.  A waiter that was woken and
\* has not run yet still counts.
Locked(s) == s.value = 0 \/ s.waiters # <<>>

\* acquire() on a semaphore that is not locked takes a slot without suspending.
Acquire(s) == [s EXCEPT !.value = @ - 1]

\* acquire() on a locked semaphore suspends the task at the end of the deque.
Enqueue(s, t) == [s EXCEPT !.waiters = Append(@, t)]

\* _wake_up_next(): hand a slot to the first waiter that has none.
WakeNext(s) ==
  IF s.woken < Len(s.waiters)
    THEN [value |-> s.value - 1, waiters |-> s.waiters, woken |-> s.woken + 1]
    ELSE s

\* release(): give the slot back, to the next waiter when there is one.
Release(s) == WakeNext([s EXCEPT !.value = @ + 1])

\* The rest of acquire() in the oldest woken waiter: leave the deque and, if
\* slots are free, wake the one behind.
Resume(s) ==
  LET left == [value |-> s.value, waiters |-> Tail(s.waiters), woken |-> s.woken - 1]
  IN IF left.value > 0 THEN WakeNext(left) ELSE left
=============================================================================
