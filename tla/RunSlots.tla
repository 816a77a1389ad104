------------------------------ MODULE RunSlots ------------------------------
(***************************************************************************)
(* What scheduler.py promises of scheduled runs, whatever queues and locks *)
(* it uses: a schedule is free, queued for a slot, or running; it is never *)
(* in flight twice, and at most MaxConcurrent schedules run at once.       *)
(***************************************************************************)
EXTENDS Naturals, FiniteSets

CONSTANTS Names, MaxConcurrent

VARIABLE slot  \* slot[n]: "free", "queued" or "running"

Running == {n \in Names : slot[n] = "running"}

Init == slot = [n \in Names |-> "free"]

\* A run is accepted and waits for its turn.
Accept(n) ==
  /\ slot[n] = "free"
  /\ slot' = [slot EXCEPT ![n] = "queued"]

\* A run takes a slot, from the queue or at once.
Begin(n) ==
  /\ slot[n] \in {"free", "queued"}
  /\ Cardinality(Running) < MaxConcurrent
  /\ slot' = [slot EXCEPT ![n] = "running"]

\* A run ends; one that had nothing to do ends as it starts.
End(n) ==
  /\ slot[n] \in {"queued", "running"}
  /\ slot' = [slot EXCEPT ![n] = "free"]

\* The process dies: nothing is in flight.
Reset == slot' = [n \in Names |-> "free"]

Next == Reset \/ \E n \in Names : Accept(n) \/ Begin(n) \/ End(n)

Spec == Init /\ [][Next]_slot
=============================================================================
