---------------------- MODULE RFSCPriorityQueue_proofs ----------------------
(***************************************************************************)
(* The parallel exploration with the priority queue, for every number of   *)
(* workers, every tree of decisions and every outcome of its runs.         *)
(***************************************************************************)
EXTENDS RFSCPriorityQueue, RFSCScheduler_proofs

IInv ==
  /\ SchedulerInv(DriverPC, work_queue, halting)
  /\ waiting \subseteq Worker
  /\ halting \in BOOLEAN

-----------------------------------------------------------------------------
LEMMA QueuedNodes ==
  ASSUME NEW PC, NEW Q, WorkersInv(PC, Q)
  PROVE  Q \subseteq Node
  BY DEF WorkersInv, DriverInv, Claimed, Pending

LEMMA InitInv == Init => IInv
<1>. SUFFICES ASSUME Init PROVE IInv
  OBVIOUS
<1>1. SchedulerInv(DriverPC, {Root}, FALSE)
  BY InitKeeps DEF Init
<1>. QED
  BY <1>1 DEF IInv, Init

\* The queue and halting keep their values over a step.
LEMMA QueueAloneInv ==
  ASSUME IInv, NEW w \in Worker, UNCHANGED <<work_queue, halting>>, waiting' \subseteq Worker,
         \/ DriverStep(w)
         \/ ~ Busy(w) /\ \E l \in DriverPC : Moves(w, l)
         \/ UNCHANGED driverVars
  PROVE  IInv'
<1>1. PICK Q : Q = work_queue
  OBVIOUS
<1>2. PICK stop : stop = halting
  OBVIOUS
<1>3. SchedulerInv(DriverPC, Q, stop)
  BY <1>1, <1>2 DEF IInv
<1>4. SchedulerInv(DriverPC, Q, stop)'
  BY <1>3, DriverStepKeeps, MovesKeeps, IdleKeeps
<1>. QED
  BY <1>1, <1>2, <1>4 DEF IInv

LEMMA PushInv == ASSUME IInv, NEW w \in Worker, Push(w) PROVE IInv'
<1>1. PICK Q : Q = work_queue
  OBVIOUS
<1>2. PICK stop : stop = halting
  OBVIOUS
<1>3. PICK R : R = Q \cup {sibling[w]}
  OBVIOUS
<1>4. SchedulerInv(DriverPC, Q, stop)
  BY <1>1, <1>2 DEF IInv
<1>5. SchedulerInv(DriverPC, R, stop)'
  BY <1>3, <1>4, PushedKeeps DEF Push
<1>6. work_queue' = R /\ halting' = stop /\ waiting' \subseteq Worker
  BY <1>1, <1>2, <1>3 DEF Push, NotifyOne, IInv
<1>. QED
  BY <1>2, <1>5, <1>6 DEF IInv

LEMMA DequeueInv == ASSUME IInv, NEW w \in Worker, Dequeue(w) PROVE IInv'
<1>1. PICK n \in work_queue : GotWork(w, n) /\ work_queue' = Pop(n)
  BY DEF Dequeue
<1>2. PICK Q : Q = work_queue
  OBVIOUS
<1>3. PICK stop : stop = halting
  OBVIOUS
<1>4. PICK R : R = Q \ {n}
  OBVIOUS
<1>5. SchedulerInv(DriverPC, Q, stop)
  BY <1>2, <1>3 DEF IInv
<1>6. ~ Busy(w) /\ n \in Q
  BY <1>2 DEF Dequeue, InDequeue, Busy, Starting, Unfolded
<1>7. SchedulerInv(DriverPC, R, stop)'
  BY <1>1, <1>4, <1>5, <1>6, GotWorkKeeps
<1>8. work_queue' = R /\ halting' = stop /\ waiting' = waiting
  BY <1>1, <1>2, <1>3, <1>4 DEF Dequeue, Pop
<1>. QED
  BY <1>3, <1>7, <1>8 DEF IInv

LEMMA HaltInv == ASSUME IInv, NEW w \in Worker, Halt(w) PROVE IInv'
<1>1. PICK Q : Q = work_queue
  OBVIOUS
<1>2. PICK stop : stop = halting
  OBVIOUS
<1>3. SchedulerInv(DriverPC, Q, stop)
  BY <1>1, <1>2 DEF IInv
<1>4. SchedulerInv(DriverPC, Q, TRUE)'
  BY <1>3, HaltedKeeps DEF Halt
<1>5. work_queue' = Q /\ halting' = TRUE /\ waiting' = {}
  BY <1>1 DEF Halt, NotifyAll
<1>. QED
  BY <1>4, <1>5 DEF IInv

\* dequeue() that returns nullptr.
LEMMA LeavingMoves ==
  ASSUME NEW w \in Worker, DequeueHalted(w)
  PROVE  ~ Busy(w) /\ "exit" \in DriverPC /\ Moves(w, "exit")
  BY DEF DequeueHalted, InDequeue, GotNull, Moves, Busy, Starting, Unfolded, DriverPC

LEMMA NextInv == IInv /\ [Next]_vars => IInv'
<1>. SUFFICES ASSUME IInv, [Next]_vars PROVE IInv'
  OBVIOUS
<1>1. CASE UNCHANGED vars
  BY <1>1, WorkerAssumption, QueueAloneInv DEF vars, schedVars, IInv
<1>2. ASSUME NEW w \in Worker, Step(w)
      PROVE  IInv'
  <2>1. CASE DriverStep(w) /\ UNCHANGED schedVars
    BY <2>1, QueueAloneInv DEF schedVars, IInv
  <2>2. CASE DequeueHalted(w)
    BY <2>2, LeavingMoves, QueueAloneInv DEF DequeueHalted, schedVars, IInv
  <2>3. CASE Wait(w)
    BY <2>3, QueueAloneInv DEF Wait, IInv
  <2>. QED
    BY <1>2, <2>1, <2>2, <2>3, PushInv, DequeueInv, HaltInv DEF Step
<1>3. ASSUME NEW w \in Worker, SpuriousWakeup(w)
      PROVE  IInv'
  BY <1>3, QueueAloneInv DEF SpuriousWakeup, IInv
<1>. QED
  BY <1>1, <1>2, <1>3 DEF Next, Joined

(* The strengthened invariant, of which all below are consequences. *)
THEOREM Invariant == Spec => []IInv
  BY InitInv, NextInv, PTL DEF Spec

\* dequeue, enqueue, handle_trace and reset keep every variable in its type,
\* and the unsigned outstanding_jobs is never taken below zero.
THEOREM TypesHold == Spec => []TypeOK
<1>1. IInv => TypeOK
  BY QueuedNodes, FS_CardinalityType DEF IInv, SchedulerInv, WorkersInv, TypeOK, JobsCounted
<1>. QED
  BY <1>1, Invariant, PTL

\* The assertion of alloc_unf holds: the node that compute_unfolding allocates
\* for a load past the replay was allocated by no worker before.
THEOREM AllocationsAreFresh == Spec => []AllocFresh
<1>1. IInv => AllocFresh
  BY NewNodesAreFresh DEF IInv, SchedulerInv, WorkersInv, AllocFresh, Starting
<1>. QED
  BY <1>1, Invariant, PTL

\* No two workers run the same work item, and none runs an item that was run:
\* try_alloc_unf lets one worker through and the queue gives an item out once.
THEOREM NothingExploredTwice == Spec => []ExploredOnce
<1>1. IInv => ExploredOnce
  BY DEF IInv, SchedulerInv, WorkersInv, DriverInv, OwnedOnce, ExploredOnce
<1>. QED
  BY <1>1, Invariant, PTL

\* outstanding_jobs, incremented by enqueue and decremented after each run, both
\* outside the scheduler's mutex, counts the jobs and those reset() dropped.
THEOREM CounterIsExact == Spec => []JobsExact
<1>1. IInv => JobsExact
  BY DEF IInv, SchedulerInv, JobsCounted, JobsExact, Jobs
<1>. QED
  BY <1>1, Invariant, PTL

\* Once halt() has set halting, dequeue gives no worker another item: it tests
\* halting and takes the item in one critical section.
THEOREM NothingDispatchedAfterHalt == Spec => NoDispatchAfterHalt
<1>. DEFINE Quiescent == halting => \A w \in Worker : Starting(w)' => Starting(w)
<1>1. ASSUME IInv, [Next]_vars
      PROVE  Quiescent
  <2>. SUFFICES ASSUME halting, NEW v \in Worker, Starting(v)'
                PROVE  Starting(v)
    OBVIOUS
  <2>1. ASSUME NEW w \in Worker, DriverStep(w)
        PROVE  Starting(v)
    BY <1>1, <2>1 DEF IInv, SchedulerInv, WorkersInv, DriverTypeOK, DriverStep, Explore, SkipPruned, StartReplay, RunOnce, Crash,
       ComputeUnfolding, TryAlternative, CountJob, LockState, Account, UnlockState, Goto, Starting
  <2>2. ASSUME NEW w \in Worker, Push(w) \/ DequeueHalted(w) \/ Halt(w)
        PROVE  Starting(v)
    BY <1>1, <2>2 DEF IInv, SchedulerInv, WorkersInv, DriverTypeOK, Push, Pushed, DequeueHalted, GotNull, Halt, Halted, Goto,
       Starting
  <2>3. CASE UNCHANGED pc
    BY <2>3 DEF Starting
  <2>. QED
    BY <1>1, <2>1, <2>2, <2>3
    DEF Next, Step, Joined, Dequeue, Wait, SpuriousWakeup, vars, driverVars
<1>. QED
  BY <1>1, Invariant, PTL DEF Spec, NoDispatchAfterHalt

-----------------------------------------------------------------------------
(* The workers and the queue implement the exploration.                     *)

LEMMA InitMaps == Init => Exp!Init
<1>. SUFFICES ASSUME Init PROVE Exp!Init
  OBVIOUS
<1>1. Siblings = {} /\ Running = {} /\ Done = {} /\ ~ Crashed
  BY InitKeeps DEF Init
<1>. QED
  BY <1>1 DEF Exp!Init, Init, DriverInit

\* A step that leaves the queue alone.
LEMMA ExploresMaps ==
  ASSUME Explores(work_queue), work_queue' = work_queue, halting' = halting, ~ Crashed
  PROVE  [Exp!Next]_(Exp!vars)
<1>1. CASE Unseen(work_queue)
  BY <1>1 DEF Unseen, Exp!vars
<1>2. CASE Dies(work_queue)
  BY <1>2 DEF Dies, FailingIn, Exp!Next, Exp!Crash, Exp!Failing
<1>3. ASSUME NEW n \in Node \cap Running, Drops(n, work_queue)
      PROVE  Exp!Next
  BY <1>3 DEF Drops, FailingIn, Exp!Next, Exp!Drop, Exp!Failing
<1>4. ASSUME NEW n \in Node \cap Running, Unfolds(n, work_queue)
      PROVE  Exp!Next
  BY <1>4 DEF Unfolds, Exp!Next, Exp!Unfold
<1>5. ASSUME NEW n \in Node \cap Running, NEW a \in Alt[n], Discovers(n, a, work_queue)
      PROVE  Exp!Next
  BY <1>5 DEF Discovers, Exp!Next, Exp!Discover, Exp!Discovered
<1>6. ASSUME NEW n \in Node \cap Running, Completes(n, work_queue)
      PROVE  Exp!Next
  BY <1>6 DEF Completes, Exp!Next, Exp!Finish
<1>. QED
  BY <1>1, <1>2, <1>3, <1>4, <1>5, <1>6 DEF Explores

\* The workers' invariant is all that its steps need, as RFSCSequential has them
\* too, where outstanding_jobs counts nothing.
LEMMA QueueAloneMaps ==
  ASSUME WorkersInv(DriverPC, work_queue), NEW w \in Worker, ~ Crashed,
         UNCHANGED <<work_queue, halting>>,
         \/ DriverStep(w)
         \/ ~ Busy(w) /\ \E l : Moves(w, l)
         \/ \E l : Finishes(w, l)
  PROVE  [Exp!Next]_(Exp!vars)
<1>1. PICK Q : Q = work_queue
  OBVIOUS
<1>2. Explores(Q)
  BY <1>1, DriverStepExplores, QuietExplores, FinishesExplores DEF Quiet
<1>. QED
  BY <1>1, <1>2, ExploresMaps

LEMMA PushMaps ==
  ASSUME WorkersInv(DriverPC, work_queue), NEW w \in Worker, Push(w), ~ Crashed
  PROVE  UNCHANGED Exp!vars
<1>1. PICK Q : Q = work_queue
  OBVIOUS
<1>2. PICK R : R = Q \cup {sibling[w]}
  OBVIOUS
<1>3. /\ R \cup Siblings' = Q \cup Siblings
      /\ Running' = Running /\ Done' = Done /\ Crashed' = Crashed
      /\ UNCHANGED <<children_unf_set, dropped>>
  BY <1>1, <1>2, PushedExplores DEF Push
<1>. QED
  BY <1>1, <1>2, <1>3 DEF Exp!vars, Push

LEMMA DequeueMaps ==
  ASSUME WorkersInv(DriverPC, work_queue), NEW w \in Worker, Dequeue(w), ~ Crashed
  PROVE  [Exp!Next]_(Exp!vars)
<1>1. PICK n \in work_queue : GotWork(w, n) /\ work_queue' = Pop(n)
  BY DEF Dequeue
<1>2. n \in Node /\ n \notin Siblings /\ ~ Busy(w)
  BY QueuedNodes DEF WorkersInv, NotYetQueued, Siblings, Dequeue, InDequeue, Busy, Starting, Unfolded
<1>3. /\ Siblings' = Siblings /\ Done' = Done /\ dropped' = dropped
      /\ Running' = Running \cup {n} /\ Crashed' = Crashed
  BY <1>1, <1>2, GotWorkSets, CrashedStays DEF WorkersInv
<1>4. children_unf_set' = children_unf_set /\ halting' = halting
  BY DEF Dequeue, GotWork, treeVars
<1>5. Exp!Start(n)
  BY <1>1, <1>2, <1>3, <1>4 DEF Exp!Start, Pop
<1>. QED
  BY <1>2, <1>5 DEF Exp!Next

\* halt() is called for a reason that the exploration accepts: no job at all is
\* left, or the finished run of an error.
LEMMA HaltMaps ==
  ASSUME IInv, NEW w \in Worker, Halt(w), ~ Crashed
  PROVE  [Exp!Next]_(Exp!vars)
<1>1. /\ work_queue' = work_queue /\ Siblings' = Siblings /\ Running' = Running /\ Done' = Done
      /\ Crashed' = Crashed /\ UNCHANGED <<children_unf_set, dropped>> /\ halting' = TRUE
  BY QuietSets, CrashedStays
  DEF Halt, Halted, Quiet, IInv, SchedulerInv, WorkersInv, treeVars, historyVars
<1>2. Exp!MayStop
  <2>1. CASE res.error_trace /\ ~ KeepGoing
    BY <2>1 DEF Exp!MayStop, Exp!Failing, Done, IInv, SchedulerInv, WorkersInv, DriverInv,
                ErrorsBlamed
  <2>2. CASE JobsOf(work_queue) = {}
    <3>1. \A v \in Worker : ~ Busy(v)
      BY <2>2 DEF JobsOf, Running
    <3>2. Siblings = {} /\ Running = {} /\ dropped = {} /\ work_queue = {}
      BY <2>2, <3>1 DEF Siblings, Running, Enqueuing, Busy, Unfolded, JobsOf
    <3>. QED
      BY <3>2 DEF Exp!MayStop
  <2>. QED
    BY <2>1, <2>2 DEF IInv, SchedulerInv, HaltReason, Halt, Halted
<1>3. Exp!Stop
  BY <1>1, <1>2 DEF Exp!Stop
<1>. QED
  BY <1>3 DEF Exp!Next

LEMMA IdleMaps ==
  ASSUME UNCHANGED <<driverVars, work_queue, halting>>
  PROVE  UNCHANGED Exp!vars
  BY IdleSets DEF Exp!vars

LEMMA NextMaps == IInv /\ [Next]_vars => [Exp!Next]_(Exp!vars)
<1>. SUFFICES ASSUME IInv, [Next]_vars PROVE [Exp!Next]_(Exp!vars)
  OBVIOUS
<1>1. WorkersInv(DriverPC, work_queue)
  BY DEF IInv, SchedulerInv
<1>2. ASSUME NEW w \in Worker, Step(w)
      PROVE  [Exp!Next]_(Exp!vars)
  <2>1. CASE DriverStep(w) /\ UNCHANGED schedVars
    BY <1>1, <1>2, <2>1, QueueAloneMaps DEF Step, schedVars
  <2>2. CASE DequeueHalted(w)
    BY <1>1, <1>2, <2>2, LeavingMoves, QueueAloneMaps DEF Step, DequeueHalted, schedVars
  <2>3. CASE Wait(w)
    BY <2>3, IdleMaps DEF Wait
  <2>. QED
    BY <1>1, <1>2, <2>1, <2>2, <2>3, PushMaps, DequeueMaps, HaltMaps DEF Step
<1>3. ASSUME NEW w \in Worker, SpuriousWakeup(w)
      PROVE  [Exp!Next]_(Exp!vars)
  BY <1>3, IdleMaps DEF SpuriousWakeup
<1>4. CASE UNCHANGED vars
  BY <1>4, IdleMaps DEF vars, schedVars
<1>. QED
  BY <1>2, <1>3, <1>4 DEF Next, Joined

\* Every step of the workers and of the PriorityQueueScheduler is a step of the
\* abstract exploration or none, for any number of workers.
THEOREM Implements == Spec => ImplementsExploration
  BY InitMaps, NextMaps, Invariant, PTL DEF Spec, ImplementsExploration, Exp!Spec

-----------------------------------------------------------------------------
\* What was proved of the exploration holds of what implements it.
ExpP == INSTANCE Exploration_proofs WITH
  First <- Root,
  New <- [n \in Node |-> NewNodes(n)],
  known <- children_unf_set,
  pending <- work_queue \cup Siblings,
  running <- Running,
  done <- Done,
  stopped <- halting,
  crashed <- Crashed

LEMMA ExpAssumption == ExpP!ExplorationAssumption
  BY TreeAssumption, NewNodesInTree DEF ExpP!ExplorationAssumption

\* When halt() is called without an error to end the exploration, no job is
\* left, and for every finished run each alternative that try_sat can realise
\* was run or is on the path of a finished run.
THEOREM HaltsWhenComplete == Spec => []HaltComplete
<1>1. Exp!Spec => []ExpP!StopsComplete
  <2>1. Exp!Init => ExpP!Init
    BY DEF Exp!Init, ExpP!Init
  <2>2. [Exp!Next]_(Exp!vars) => [ExpP!Next]_(ExpP!vars)
    BY DEF Exp!Next, Exp!Start, Exp!Drop, Exp!Failing, Exp!Unfold, Exp!Discovered, Exp!Discover,
       Exp!Finish, Exp!MayStop, Exp!Stop, Exp!Crash, Exp!vars,
       ExpP!Next, ExpP!Start, ExpP!Drop, ExpP!Failing, ExpP!Unfold, ExpP!Discovered,
       ExpP!Discover, ExpP!Finish, ExpP!MayStop, ExpP!Stop, ExpP!Crash, ExpP!vars
  <2>. QED
    BY <2>1, <2>2, ExpP!StoppingMeansComplete, ExpAssumption, PTL DEF Exp!Spec, ExpP!Spec
<1>2. IInv /\ ExpP!StopsComplete => HaltComplete
  <2>1. \A n \in Node : NewNodes(n) \subseteq Ancestors(Path(n))
    BY DEF NewNodes
  <2>. QED
    BY <2>1 DEF IInv, SchedulerInv, WorkersInv, HaltReason, ExpP!StopsComplete, ExpP!Failing,
       HaltComplete, Complete, OnPath, Done, DriverInv, ErrorsBlamed, Jobs
<1>. QED
  BY <1>1, <1>2, Implements, Invariant, PTL DEF ImplementsExploration
=============================================================================
