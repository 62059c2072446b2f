-------------------------- MODULE RFSCPriorityQueue --------------------------
(***************************************************************************)
(* run_rfsc_parallel with the PriorityQueueScheduler.  Every access to     *)
(* work_queue and halting is made under the scheduler's mutex, and cv.wait *)
(* releases it atomically, so each critical section is one step.           *)
(***************************************************************************)
EXTENDS RFSCDriver

VARIABLES
  work_queue,   \* the priority queue (its elements are distinct pointers)
  waiting,      \* workers blocked in cv.wait
  halting       \* set by halt()

schedVars == <<work_queue, waiting, halting>>
vars == <<driverVars, schedVars>>

Init ==
  /\ DriverInit
  /\ work_queue = {Root}
  /\ waiting = {}
  /\ halting = FALSE

-----------------------------------------------------------------------------
\* cv.notify_one
NotifyOne ==
  IF waiting = {} THEN UNCHANGED waiting
  ELSE \E v \in waiting : waiting' = waiting \ {v}

\* Faulty variant of NotifyAll: halt() wakes nobody.
NotifyNobody == UNCHANGED waiting

\* cv.notify_all
NotifyAll == waiting' = {}

\* PriorityQueueScheduler::enqueue after the counter.
Push(w) ==
  /\ Pushed(w)
  /\ work_queue' = work_queue \cup {sibling[w]}
  /\ NotifyOne
  /\ UNCHANGED halting

\* DecisionCompare: a deepest node is at the top.
Top(n) == \A m \in work_queue : Depth(m) <= Depth(n)

\* Faulty variant of Pop: top() without pop().
TopOnly(n) == work_queue

\* What is left of the queue when n is taken from it.
Pop(n) == work_queue \ {n}

\* PriorityQueueScheduler::dequeue, from its beginning or woken from cv.wait.
InDequeue(w) == pc[w] = "dequeue" /\ w \notin waiting

\* Faulty variant of Dequeue: halting is tested only while the queue is empty.
DequeueAnyway(w) ==
  /\ InDequeue(w)
  /\ \E n \in work_queue :
       /\ Top(n)
       /\ GotWork(w, n)
       /\ work_queue' = Pop(n)
  /\ UNCHANGED <<waiting, halting>>

Dequeue(w) ==
  /\ InDequeue(w)
  /\ ~ halting
  /\ \E n \in work_queue :
       /\ Top(n)
       /\ GotWork(w, n)
       /\ work_queue' = Pop(n)
  /\ UNCHANGED <<waiting, halting>>

DequeueHalted(w) ==
  /\ InDequeue(w)
  /\ halting
  /\ GotNull(w)
  /\ UNCHANGED schedVars

Wait(w) ==
  /\ InDequeue(w)
  /\ ~ halting
  /\ work_queue = {}
  /\ waiting' = waiting \cup {w}
  /\ UNCHANGED <<driverVars, work_queue, halting>>

\* A condition variable may wake a waiter without being notified.
SpuriousWakeup(w) ==
  /\ ~ Crashed
  /\ w \in waiting
  /\ waiting' = waiting \ {w}
  /\ UNCHANGED <<driverVars, work_queue, halting>>

\* PriorityQueueScheduler::halt
Halt(w) ==
  /\ Halted(w)
  /\ halting' = TRUE
  /\ NotifyAll
  /\ UNCHANGED work_queue

\* Everything a worker does of its own accord.
Step(w) ==
  /\ ~ Crashed
  /\ \/ DriverStep(w) /\ UNCHANGED schedVars
     \/ Push(w)
     \/ Dequeue(w)
     \/ DequeueHalted(w)
     \/ Wait(w)
     \/ Halt(w)

\* All threads have been joined and the result is returned.
Joined == Terminated /\ UNCHANGED vars

Next ==
  \/ \E w \in Worker : Step(w) \/ SpuriousWakeup(w)
  \/ Joined

\* The operating system runs every thread that can run.  Mutexes need not be
\* fair: the work is finite, so state.mutex is free for good in the end.
Fairness == \A w \in Worker : WF_vars(Step(w))

Spec == Init /\ [][Next]_vars
FairSpec == Spec /\ Fairness

-----------------------------------------------------------------------------
(* Properties.                                                             *)

\* Types; outstanding_jobs, an unsigned counter, never wraps below zero.
TypeOK ==
  /\ DriverTypeOK(DriverPC)
  /\ outstanding_jobs >= 0
  /\ work_queue \subseteq Node
  /\ waiting \subseteq Worker
  /\ halting \in BOOLEAN

Jobs == JobsOf(work_queue)

\* outstanding_jobs is exact although it is changed outside every lock: it is
\* the number of items queued, held or being pushed, and of those that reset
\* threw away without accounting for them.
JobsExact == outstanding_jobs = Cardinality(Jobs)

\* The last worker to finish is the one that halts the scheduler: halt() is
\* called on an error that stops the exploration or once nothing is queued or
\* held by any worker and every trace called for is explored.
HaltComplete ==
  halting =>
    \/ res.error_trace /\ ~ KeepGoing
    \/ Jobs = {} /\ Complete

\* After halt() no worker is given another item.
NoDispatchAfterHalt ==
  [][halting => \A w \in Worker : Starting(w)' => Starting(w)]_vars

\* Every worker leaves its loop, whatever is found: run_rfsc_parallel joins
\* them all.
Termination == <>Terminated

-----------------------------------------------------------------------------
\* A sibling is pending from the time try_sat has found a prefix for it.
Exp == INSTANCE Exploration WITH
  First <- Root,
  New <- [n \in Node |-> NewNodes(n)],
  known <- children_unf_set,
  pending <- work_queue \cup Siblings,
  running <- Running,
  done <- Done,
  stopped <- halting,
  crashed <- Crashed

\* The workers and the queue do together what Exploration promises: every step
\* of theirs is a step of the exploration or none.
ImplementsExploration == Exp!Spec
=============================================================================
