-------------------------- MODULE RFSCWorkStealing --------------------------
(***************************************************************************)
(* run_rfsc_parallel with the WorkstealingPQScheduler: one queue per       *)
(* worker, each under its own mutex and held for one step, and a big mutex *)
(* (the scheduler's) that a worker holds from the time its own queue was   *)
(* found empty until it has work, sleeps or ends.  enqueue never takes the *)
(* big mutex, and halting is a relaxed atomic.                             *)
(***************************************************************************)
EXTENDS RFSCDriver, SequencesExt

VARIABLES
  work_queue,   \* work_queue[w]: ThreadWorkQueue, a deque of nodes per depth
  mutex,        \* holder of the big mutex
  others,       \* others[w]: victims that w has still to look at
  waiting,      \* workers blocked in cv.wait
  halting       \* set by halt()

schedVars == <<work_queue, mutex, others, waiting, halting>>
vars == <<driverVars, schedVars>>

DepthOf == {Depth(n) : n \in Node}
EmptyQueue == [d \in DepthOf |-> << >>]

NodesOf(q) == UNION {ToSet(q[d]) : d \in DepthOf}

\* ThreadWorkQueue::empty: a depth whose deque is empty is erased from the map.
Empty(q) == \A d \in DepthOf : q[d] = << >>
Filled(q) == {d \in DepthOf : q[d] # << >>}
Deepest(q) == Max(Filled(q))
Shallowest(q) == Min(Filled(q))

\* The constructor of RFSCDecisionTree runs on the thread that will be worker 0;
\* every thread_id is 0 until register_thread.
Init ==
  /\ DriverInit
  /\ \E main \in Worker :
       work_queue = [w \in Worker |->
                       IF w = main THEN [EmptyQueue EXCEPT ![-1] = <<Root>>] ELSE EmptyQueue]
  /\ mutex = NoWorker
  /\ others = [w \in Worker |-> {}]
  /\ waiting = {}
  /\ halting = FALSE

-----------------------------------------------------------------------------
(* ThreadWorkQueue.                                                        *)

PushBack(q, n) == [q EXCEPT ![Depth(n)] = Append(@, n)]

\* pop: the front of the deepest deque.
FrontOf(q) == Head(q[Deepest(q)])
\* Faulty variant of PopFront: the front is returned and stays.
PeekFront(q) == q

PopFront(q) == [q EXCEPT ![Deepest(q)] = Tail(@)]

\* steal: half of the shallowest deque, rounded up, from its back.
Stolen(q) ==
  LET d == q[Shallowest(q)]
      count == (Len(d) + 1) \div 2
  IN SubSeq(d, Len(d) - count + 1, Len(d))
\* Faulty variant of Robbed: the stolen nodes are copied.
Copied(q) == q

Robbed(q) ==
  LET d == q[Shallowest(q)]
  IN [q EXCEPT ![Shallowest(q)] = SubSeq(d, 1, Len(d) - Len(Stolen(q)))]
Loot(q) == [EmptyQueue EXCEPT ![Shallowest(q)] = Stolen(q)]

-----------------------------------------------------------------------------
\* WorkstealingPQScheduler::enqueue after the counter.  notify_one is called
\* without the big mutex, so a worker on its way to cv.wait misses it.
Push(w) ==
  /\ Pushed(w)
  /\ work_queue' = [work_queue EXCEPT ![w] = PushBack(@, sibling[w])]
  /\ IF waiting = {}
     THEN UNCHANGED waiting
     ELSE \E v \in waiting : waiting' = waiting \ {v}
  /\ UNCHANGED <<mutex, others, halting>>

\* dequeue, under the worker's own mutex: halting.load may still be FALSE when
\* halt() has stored TRUE, for the load is relaxed and the mutex another one.
FastNull(w) ==
  /\ pc[w] = "dequeue"
  /\ halting
  /\ GotNull(w)
  /\ UNCHANGED schedVars

FastPop(w) ==
  /\ pc[w] = "dequeue"
  /\ ~ Empty(work_queue[w])
  /\ GotWork(w, FrontOf(work_queue[w]))
  /\ work_queue' = [work_queue EXCEPT ![w] = PopFront(@)]
  /\ UNCHANGED <<mutex, others, waiting, halting>>

\* Faulty variant of FastMiss: the fast path does not look at its queue.
MissAnyway(w) ==
  /\ pc[w] = "dequeue"
  /\ Goto(w, "lock_sched")
  /\ UNCHANGED <<work_item, todo, sibling, treeVars, resultVars, historyVars, schedVars>>

FastMiss(w) ==
  /\ pc[w] = "dequeue"
  /\ Empty(work_queue[w])
  /\ Goto(w, "lock_sched")
  /\ UNCHANGED <<work_item, todo, sibling, treeVars, resultVars, historyVars, schedVars>>

\* Faulty variant of LockSched: the slow path takes no lock.
EnterUnlocked(w) ==
  /\ pc[w] = "lock_sched"
  /\ w \notin waiting
  /\ mutex' = w
  /\ Goto(w, "retest")
  /\ UNCHANGED <<work_item, todo, sibling, treeVars, resultVars, historyVars,
                 work_queue, others, waiting, halting>>

\* The big mutex is taken, after the fast path and again after a wakeup.
LockSched(w) ==
  /\ pc[w] = "lock_sched"
  /\ w \notin waiting
  /\ mutex = NoWorker
  /\ mutex' = w
  /\ Goto(w, "retest")
  /\ UNCHANGED <<work_item, todo, sibling, treeVars, resultVars, historyVars,
                 work_queue, others, waiting, halting>>

\* The top of the slow path's loop.  halt() stores under the big mutex, so this
\* load is up to date.
SlowNull(w) ==
  /\ pc[w] = "retest"
  /\ halting
  /\ GotNull(w)
  /\ mutex' = NoWorker
  /\ UNCHANGED <<work_queue, others, waiting, halting>>

\* The other threads in random order: any of those not looked at yet is next.
StartScan(w) ==
  /\ pc[w] = "retest"
  /\ ~ halting
  /\ Empty(work_queue[w])
  /\ others' = [others EXCEPT ![w] = Worker \ {w}]
  /\ Goto(w, "scan")
  /\ UNCHANGED <<work_item, todo, sibling, treeVars, resultVars, historyVars,
                 work_queue, mutex, waiting, halting>>

\* Under the victim's mutex: half of its shallowest nodes, one of them to run.
Steal(w, v) ==
  /\ pc[w] = "scan"
  /\ v \in others[w]
  /\ ~ Empty(work_queue[v])
  /\ LET loot == Loot(work_queue[v]) IN
     /\ GotWork(w, FrontOf(loot))
     /\ work_queue' = [work_queue EXCEPT ![v] = Robbed(@), ![w] = PopFront(loot)]
  /\ others' = [others EXCEPT ![w] = {}]
  /\ mutex' = NoWorker
  /\ UNCHANGED <<waiting, halting>>

NothingToSteal(w, v) ==
  /\ pc[w] = "scan"
  /\ v \in others[w]
  /\ Empty(work_queue[v])
  /\ others' = [others EXCEPT ![w] = @ \ {v}]
  /\ UNCHANGED <<driverVars, work_queue, mutex, waiting, halting>>

\* cv.wait releases the big mutex.
Wait(w) ==
  /\ pc[w] = "scan"
  /\ others[w] = {}
  /\ waiting' = waiting \cup {w}
  /\ mutex' = NoWorker
  /\ Goto(w, "lock_sched")
  /\ UNCHANGED <<work_item, todo, sibling, treeVars, resultVars, historyVars,
                 work_queue, others, halting>>

SpuriousWakeup(w) ==
  /\ ~ Crashed
  /\ w \in waiting
  /\ waiting' = waiting \ {w}
  /\ UNCHANGED <<driverVars, work_queue, mutex, others, halting>>

\* Faulty variants of Halt: nobody is woken, and the big mutex is not taken.
HaltQuietly(w) ==
  /\ Halted(w)
  /\ mutex = NoWorker
  /\ halting' = TRUE
  /\ UNCHANGED <<work_queue, mutex, others, waiting>>

HaltUnlocked(w) ==
  /\ Halted(w)
  /\ halting' = TRUE
  /\ waiting' = {}
  /\ UNCHANGED <<work_queue, mutex, others>>

\* WorkstealingPQScheduler::halt
Halt(w) ==
  /\ Halted(w)
  /\ mutex = NoWorker
  /\ halting' = TRUE
  /\ waiting' = {}
  /\ UNCHANGED <<work_queue, mutex, others>>

Step(w) ==
  /\ ~ Crashed
  /\ \/ DriverStep(w) /\ UNCHANGED schedVars
     \/ Push(w)
     \/ FastNull(w)
     \/ FastPop(w)
     \/ FastMiss(w)
     \/ LockSched(w)
     \/ SlowNull(w)
     \/ StartScan(w)
     \/ \E v \in others[w] : Steal(w, v) \/ NothingToSteal(w, v)
     \/ Wait(w)
     \/ Halt(w)

Joined == Terminated /\ UNCHANGED vars

Next ==
  \/ \E w \in Worker : Step(w) \/ SpuriousWakeup(w)
  \/ Joined

\* Every thread runs while it can, and halt() gets the big mutex when it is
\* released again and again (sleepers may wake up spuriously for ever).
Fairness == \A w \in Worker : WF_vars(Step(w)) /\ SF_vars(Halt(w))

Spec == Init /\ [][Next]_vars
FairSpec == Spec /\ Fairness

-----------------------------------------------------------------------------
(* Properties.                                                             *)

StealingPC == DriverPC \cup {"lock_sched", "retest", "scan"}

Queued(w) == NodesOf(work_queue[w])
AllQueued == UNION {Queued(w) : w \in Worker}

\* Types; a node is queued at its own depth; outstanding_jobs never wraps.
TypeOK ==
  /\ DriverTypeOK(StealingPC)
  /\ outstanding_jobs >= 0
  /\ \A w \in Worker : \A d \in DepthOf :
       /\ work_queue[w][d] \in Seq(Node)
       /\ \A n \in ToSet(work_queue[w][d]) : Depth(n) = d
  /\ mutex \in Worker \cup {NoWorker}
  /\ others \in [Worker -> SUBSET Worker]
  /\ waiting \subseteq Worker
  /\ halting \in BOOLEAN

Jobs == JobsOf(AllQueued)

\* No node is in two queues or twice in one.
QueuedOnce ==
  /\ \A v, w \in Worker : v # w => Queued(v) \cap Queued(w) = {}
  /\ \A w \in Worker : \A d \in DepthOf : IsInjective(work_queue[w][d])

\* outstanding_jobs is exact, though nodes move between queues while others are
\* pushed.
JobsExact == outstanding_jobs = Cardinality(Jobs) /\ QueuedOnce

\* As for the priority queue: halt() means that an error ends the exploration
\* or that everything called for is explored.
HaltComplete ==
  halting =>
    \/ res.error_trace /\ ~ KeepGoing
    \/ Jobs = {} /\ Complete

\* Notifications get lost, but never strand work: a worker that sleeps, or is
\* past its fast path, has nothing in its own queue, so whoever has queued
\* something is awake and will run it.
OwnerAwake ==
  \A w \in Worker :
    pc[w] \in {"lock_sched", "retest", "scan", "exit"} /\ ~ halting => Empty(work_queue[w])

\* The slow path reads and writes its own queue without its own mutex, which is
\* safe because "as long as we hold the big lock, nobody else will access our
\* queue": two workers never touch the same queue unprotected.
BigLockProtects ==
  \A v, w \in Worker :
    pc[v] \in {"retest", "scan"} /\ pc[w] \in {"retest", "scan"} => v = w

\* A halted worker runs at most what is in its own queue: it never steals.
NoStealAfterHalt ==
  [][halting => \A w \in Worker : pc[w] = "scan" => ~ Starting(w)']_vars

\* Every worker leaves its loop, although wakeups may be lost.
Termination == <>Terminated

-----------------------------------------------------------------------------
Exp == INSTANCE Exploration WITH
  First <- Root,
  New <- [n \in Node |-> NewNodes(n)],
  known <- children_unf_set,
  pending <- AllQueued \cup Siblings,
  running <- Running,
  done <- Done,
  stopped <- halting,
  crashed <- Crashed

\* Work stealing promises what Exploration promises, like the priority queue.
ImplementsExploration == Exp!Spec
=============================================================================
