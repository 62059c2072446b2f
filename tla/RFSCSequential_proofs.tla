------------------------ MODULE RFSCSequential_proofs ------------------------
(***************************************************************************)
(* The sequential loop counts its tasks and ends when it should, for every *)
(* tree of decisions and every outcome of its runs.  outstanding_jobs      *)
(* means nothing here, so only the workers' part of the scheduler's        *)
(* invariant is used.                                                      *)
(***************************************************************************)
EXTENDS RFSCSequential, RFSCPriorityQueue_proofs

\* What is left to do, the items that reset threw away included: the loop never
\* learns of those, for StartReplay clears the tasks_created they came off.
Left == work_queue \cup Running \cup dropped

\* tasks_created is the number of items pushed by the current run.
Created(w) == IF Busy(w) /\ pc[w] # "check_pruned" THEN tasks_created ELSE 0

TasksCounted ==
  /\ tasks_left \in Int /\ tasks_created \in Int
  /\ IsFiniteSet(Left)
  /\ \A w \in Worker : tasks_left + Created(w) = Cardinality(Left)

\* The loop is left for an error or because no task is left.
ExitReason ==
  \A w \in Worker : pc[w] = "exit" =>
    \/ res.error_trace /\ ~ KeepGoing
    \/ Left = {}

SeqInv ==
  /\ WorkersInv(DriverPC, work_queue)
  /\ waiting \subseteq Worker
  /\ halting = FALSE
  /\ TasksCounted
  /\ ExitReason

-----------------------------------------------------------------------------
LEMMA OneWorker ==
  ASSUME NEW v \in Worker, NEW w \in Worker
  PROVE  v = w
  BY OneThread

LEMMA SeqInitInv == SeqInit => SeqInv
<1>. SUFFICES ASSUME SeqInit PROVE SeqInv
  OBVIOUS
<1>1. /\ SchedulerInv(DriverPC, {Root}, FALSE)
      /\ Running = {} /\ work_queue = {Root} /\ dropped = {}
  BY InitKeeps DEF SeqInit, Init, DriverInit
<1>2. WorkersInv(DriverPC, work_queue)
  BY <1>1 DEF SchedulerInv
<1>3. \A w \in Worker : pc[w] = "dequeue" /\ ~ Busy(w)
  BY DEF SeqInit, Init, DriverInit, Busy, Starting, Unfolded
<1>4. Left = {Root}
  BY <1>1 DEF Left
<1>5. IsFiniteSet({Root}) /\ Cardinality({Root}) = 1
  BY FS_Singleton
<1>6. TasksCounted
  BY <1>3, <1>4, <1>5 DEF TasksCounted, Created, SeqInit
<1>7. ExitReason /\ waiting \subseteq Worker /\ halting = FALSE
  BY <1>3 DEF ExitReason, SeqInit, Init
<1>. QED
  BY <1>2, <1>6, <1>7 DEF SeqInv

\* Steps that change neither the tasks nor what is left.
LEMMA SameTasks ==
  ASSUME SeqInv, NEW w \in Worker, Left' = Left, tasks_left' = tasks_left,
         tasks_created' \in Int, Created(w)' = Created(w),
         pc'[w] = "exit" => pc[w] = "exit" /\ res' = res,
         UNCHANGED halting, waiting' \subseteq Worker, WorkersInv(DriverPC, work_queue)'
  PROVE  SeqInv'
<1>1. \A v \in Worker : v = w
  BY OneWorker
<1>2. TasksCounted'
  BY <1>1 DEF SeqInv, TasksCounted
<1>3. ExitReason'
  BY <1>1 DEF SeqInv, ExitReason
<1>. QED
  BY <1>2, <1>3 DEF SeqInv

LEMMA SeqSkipPrunedInv == ASSUME SeqInv, NEW w \in Worker, SeqSkipPruned(w) PROVE SeqInv'
<1>1. PICK Q : Q = work_queue
  OBVIOUS
<1>2. WorkersInv(DriverPC, Q)'
  BY <1>1, SkipPrunedWorkers DEF SeqInv, SeqSkipPruned
<1>3. work_queue' = Q /\ waiting' = waiting /\ halting' = halting
  BY <1>1 DEF SeqSkipPruned, schedVars
<1>4. Left' = Left
  BY <1>1, <1>3, SkipPrunedSets DEF SeqInv, WorkersInv, DriverInv, SeqSkipPruned, Left
<1>5. /\ pc[w] = "check_pruned" /\ pc'[w] = "dequeue" /\ tasks_left' = tasks_left
      /\ tasks_created' \in Int
  BY DEF SeqInv, WorkersInv, DriverTypeOK, TasksCounted, SeqSkipPruned, SkipPruned, Goto
<1>. QED
  BY <1>2, <1>3, <1>4, <1>5, SameTasks DEF SeqInv, Created, Busy, Starting, Unfolded

LEMMA SeqStartReplayInv == ASSUME SeqInv, NEW w \in Worker, SeqStartReplay(w) PROVE SeqInv'
<1>1. PICK Q : Q = work_queue
  OBVIOUS
<1>2. Quiet(w) /\ DriverTypeOK(DriverPC)'
  BY DriverTypes DEF SeqInv, WorkersInv, SeqStartReplay, Quiet
<1>3. WorkersInv(DriverPC, Q)'
  BY <1>1, <1>2, QuietWorkers DEF SeqInv
<1>4. work_queue' = Q /\ waiting' = waiting /\ halting' = halting
  BY <1>1 DEF SeqStartReplay, schedVars
<1>5. Left' = Left
  BY <1>1, <1>2, <1>4, QuietSets DEF SeqInv, WorkersInv, Left
<1>6. /\ pc[w] = "check_pruned" /\ pc'[w] = "run" /\ tasks_left' = tasks_left
      /\ tasks_created' = 0
  BY DEF SeqInv, WorkersInv, DriverTypeOK, SeqStartReplay, StartReplay, Goto
<1>7. Created(w) = 0 /\ Created(w)' = 0
  BY <1>6 DEF Created
<1>8. WorkersInv(DriverPC, work_queue)'
  BY <1>3, <1>4
<1>9. UNCHANGED halting /\ waiting' \subseteq Worker
  BY <1>4 DEF SeqInv
<1>. QED
  BY <1>5, <1>6, <1>7, <1>8, <1>9, SameTasks

LEMMA SeqExploreInv == ASSUME SeqInv, NEW w \in Worker, SeqExplore(w) PROVE SeqInv'
<1>1. PICK Q : Q = work_queue
  OBVIOUS
<1>2. /\ work_queue' = Q /\ waiting' = waiting /\ halting' = halting
      /\ tasks_left' = tasks_left /\ tasks_created' = tasks_created
  BY <1>1 DEF SeqExplore, schedVars, taskVars
<1>3. WorkersInv(DriverPC, Q)' /\ Running' = Running /\ dropped' = dropped
  <2>1. CASE RunOnce(w) \/ Crash(w) \/ ComputeUnfolding(w)
    <3>1. Quiet(w) /\ DriverTypeOK(DriverPC)'
      BY <2>1, DriverTypes DEF SeqInv, WorkersInv, Quiet
    <3>. QED
      BY <1>1, <3>1, QuietWorkers, QuietSets DEF SeqInv, WorkersInv
  <2>2. ASSUME NEW a, TryAlternative(w, a)
        PROVE  WorkersInv(DriverPC, Q)' /\ Running' = Running /\ dropped' = dropped
    BY <1>1, <2>2, TryAlternativeWorkers, TryAlternativeSets DEF SeqInv, WorkersInv
  <2>3. CASE CountJob(w)
    BY <1>1, <2>3, CountJobWorkers, CountJobSets DEF SeqInv, WorkersInv
  <2>. QED
    BY <2>1, <2>2, <2>3 DEF SeqExplore, Explore
<1>4. Left' = Left
  BY <1>1, <1>2, <1>3 DEF Left
<1>5. /\ pc[w] \in {"run", "unfold", "neighbours", "enqueue"}
      /\ pc'[w] \in {"unfold", "crashed", "neighbours", "enqueue", "push"}
  BY DEF SeqInv, WorkersInv, DriverTypeOK, SeqExplore, Explore, RunOnce, Crash, ComputeUnfolding,
         TryAlternative, CountJob, Goto
<1>6. Created(w)' = Created(w)
  BY <1>2, <1>5 DEF Created, Busy, Starting, Unfolded
<1>. QED
  BY <1>2, <1>3, <1>4, <1>5, <1>6, SameTasks DEF SeqInv, TasksCounted

\* One item more is left, and tasks_created says so.
LEMMA SeqPushInv == ASSUME SeqInv, NEW w \in Worker, SeqPush(w) PROVE SeqInv'
<1>. DEFINE n == sibling[w]
<1>1. PICK Q : Q = work_queue
  OBVIOUS
<1>2. PICK R : R = Q \cup {n}
  OBVIOUS
<1>3. Pushed(w) /\ work_queue' = R /\ waiting' \subseteq Worker /\ halting' = halting
  BY <1>1, <1>2 DEF SeqInv, SeqPush, Push, NotifyOne
<1>4. WorkersInv(DriverPC, R)'
  BY <1>1, <1>2, <1>3, PushedWorkers DEF SeqInv
<1>5. Left' = Left \cup {n}
  BY <1>1, <1>2, <1>3, PushedSets DEF SeqInv, WorkersInv, Left
<1>6. n \notin Left
  <2>1. n \in Pending(Q) /\ n \notin Q
    BY <1>1, <1>3, PendingWorkers DEF SeqInv, WorkersInv, NotYetQueued, Pushed, Enqueuing
  <2>. QED
    BY <1>1, <2>1 DEF Left, Running, SeqInv, WorkersInv, DriverInv, OwnedOnce
<1>7. /\ pc[w] = "push" /\ pc'[w] = "neighbours" /\ tasks_left' = tasks_left
      /\ tasks_created' = tasks_created + 1
  BY DEF SeqInv, WorkersInv, DriverTypeOK, SeqPush, Push, Pushed, Goto
<1>8. IsFiniteSet(Left') /\ Cardinality(Left') = Cardinality(Left) + 1
  BY <1>5, <1>6, FS_AddElement DEF SeqInv, TasksCounted
<1>9. TasksCounted'
  <2>1. Created(w) = tasks_created /\ Created(w)' = tasks_created + 1
    BY <1>7 DEF Created, Busy, Starting, Unfolded
  <2>2. tasks_left' + Created(w)' = Cardinality(Left')
    BY <1>7, <1>8, <2>1 DEF SeqInv, TasksCounted
  <2>3. \A v \in Worker : v = w
    BY OneWorker
  <2>. QED
    BY <1>7, <1>8, <2>2, <2>3 DEF SeqInv, TasksCounted
<1>10. ExitReason'
  BY <1>7, OneWorker DEF ExitReason
<1>. QED
  BY <1>3, <1>4, <1>9, <1>10 DEF SeqInv

LEMMA SeqIdleInv ==
  ASSUME SeqInv, UNCHANGED <<driverVars, work_queue, halting, taskVars>>,
         waiting' \subseteq Worker
  PROVE  SeqInv'
<1>1. PICK Q : Q = work_queue
  OBVIOUS
<1>2. WorkersInv(DriverPC, Q)'
  BY <1>1, IdleWorkers DEF SeqInv
<1>3. Left' = Left
  BY IdleSets DEF Left
<1>4. pc' = pc /\ res' = res
  BY DEF driverVars, resultVars
<1>5. PICK w \in Worker : TRUE
  BY WorkerAssumption
<1>6. Created(w)' = Created(w)
  BY <1>4 DEF Created, Busy, Starting, Unfolded, taskVars
<1>. QED
  BY <1>1, <1>2, <1>3, <1>4, <1>6, SameTasks DEF SeqInv, TasksCounted, taskVars

LEMMA SeqDequeueInv == ASSUME SeqInv, NEW w \in Worker, SeqDequeue(w) PROVE SeqInv'
<1>1. CASE Wait(w)
  BY <1>1, SeqIdleInv DEF SeqDequeue, Wait, SeqInv
<1>2. CASE Dequeue(w)
  <2>1. PICK n \in work_queue : GotWork(w, n) /\ work_queue' = Pop(n)
    BY <1>2 DEF Dequeue
  <2>2. PICK Q : Q = work_queue
    OBVIOUS
  <2>3. PICK R : R = Q \ {n}
    OBVIOUS
  <2>4. ~ Busy(w) /\ n \in Q /\ pc[w] = "dequeue"
    BY <1>2, <2>2 DEF Dequeue, InDequeue, Busy, Starting, Unfolded
  <2>5. WorkersInv(DriverPC, R)'
    BY <2>1, <2>2, <2>3, <2>4, GotWorkWorkers DEF SeqInv
  <2>6. /\ work_queue' = R /\ halting' = halting /\ waiting' = waiting
        /\ UNCHANGED <<tasks_left, tasks_created>>
    BY <1>2, <2>1, <2>2, <2>3 DEF SeqDequeue, Dequeue, Pop, taskVars
  <2>7. Left' = Left
    BY <2>1, <2>2, <2>3, <2>4, <2>6, GotWorkSets DEF SeqInv, WorkersInv, Left
  <2>8. pc'[w] = "check_pruned"
    BY <2>1 DEF GotWork, Goto, SeqInv, WorkersInv, DriverTypeOK
  <2>9. Created(w)' = Created(w)
    BY <2>4, <2>8 DEF Created
  <2>. QED
    BY <2>5, <2>6, <2>7, <2>8, <2>9, SameTasks DEF SeqInv, TasksCounted
<1>. QED
  BY <1>1, <1>2 DEF SeqDequeue

\* The finished task is off the count, those it created are on it.
LEMMA SeqAccountInv == ASSUME SeqInv, NEW w \in Worker, SeqAccount(w) PROVE SeqInv'
<1>. DEFINE n == work_item[w]
            l == IF MustHalt(Outcome[n], TasksAfter) THEN "exit" ELSE "dequeue"
<1>1. PICK Q : Q = work_queue
  OBVIOUS
<1>2. Finishes(w, l)
  BY DEF SeqAccount, Finishes
<1>3. DriverTypeOK(DriverPC)'
  <2>1. HandleTrace(Outcome[n]) \in
          [trace_count : Nat, assume_blocked_trace_count : Nat, error_trace : BOOLEAN]
    BY DEF SeqInv, WorkersInv, DriverTypeOK, HandleTrace
  <2>2. l \in DriverPC /\ Root \in Node
    BY TreeAssumption DEF DriverPC
  <2>. HIDE DEF l
  <2>. QED
    BY <1>2, <2>1, <2>2 DEF SeqInv, WorkersInv, DriverTypeOK, SeqAccount, Finishes, Goto, treeVars
<1>4. work_queue' = Q /\ waiting' = waiting /\ halting' = halting
  BY <1>1 DEF SeqAccount, schedVars
<1>5. WorkersInv(DriverPC, Q)'
  BY <1>1, <1>2, <1>3, FinishesWorkers DEF SeqInv
<1>6. n \in Left /\ Left' = Left \ {n}
  <2>1. n \in Running /\ Running' = Running \ {n} /\ dropped' = dropped /\ n \notin Q \cup dropped
    BY <1>1, <1>2, FinishesSets
    DEF SeqInv, WorkersInv, DriverInv, OwnedOnce, Pending, Finishes, Busy, Unfolded
  <2>. QED
    BY <1>1, <1>4, <2>1 DEF Left
<1>7. pc[w] = "neighbours" /\ pc'[w] = l /\ tasks_left' = TasksAfter /\ tasks_created' = tasks_created
  BY DEF SeqInv, WorkersInv, DriverTypeOK, SeqAccount, Goto
<1>8. IsFiniteSet(Left') /\ Cardinality(Left') = Cardinality(Left) - 1
  BY <1>6, FS_RemoveElement DEF SeqInv, TasksCounted
<1>9. TasksCounted'
  <2>1. Created(w) = tasks_created /\ Created(w)' = 0
    BY <1>7 DEF Created, Busy, Starting, Unfolded
  <2>2. tasks_left' = Cardinality(Left') /\ tasks_left' \in Int /\ tasks_created' \in Int
    BY <1>7, <1>8, <2>1 DEF SeqInv, TasksCounted, TasksAfter
  <2>3. \A v \in Worker : v = w
    BY OneWorker
  <2>. QED
    BY <1>8, <2>1, <2>2, <2>3 DEF TasksCounted
<1>10. ExitReason'
  <2>1. ASSUME MustHalt(Outcome[n], TasksAfter)
        PROVE  (res'.error_trace /\ ~ KeepGoing) \/ Left' = {}
    <3>1. CASE Outcome[n] = "error" /\ ~ KeepGoing
      BY <3>1 DEF SeqAccount, HandleTrace
    <3>2. CASE TasksAfter = 0
      <4>1. Created(w)' = 0
        BY <1>7 DEF Created, Busy, Starting, Unfolded
      <4>2. Cardinality(Left') = 0
        BY <1>7, <1>9, <3>2, <4>1 DEF TasksCounted
      <4>. QED
        BY <1>8, <4>2, FS_EmptySet
    <3>. QED
      BY <2>1, <3>1, <3>2 DEF MustHalt
  <2>2. \A v \in Worker : v = w
    BY OneWorker
  <2>. QED
    BY <1>7, <2>1, <2>2 DEF ExitReason
<1>. QED
  BY <1>4, <1>5, <1>9, <1>10 DEF SeqInv

LEMMA SeqNextInv == SeqInv /\ [SeqNext]_seqVars => SeqInv'
<1>. SUFFICES ASSUME SeqInv, [SeqNext]_seqVars PROVE SeqInv'
  OBVIOUS
<1>1. CASE UNCHANGED seqVars
  BY <1>1, SeqIdleInv DEF seqVars, vars, schedVars, SeqInv
<1>2. ASSUME NEW w \in Worker, SeqSpuriousWakeup(w)
      PROVE  SeqInv'
  BY <1>2, SeqIdleInv DEF SeqSpuriousWakeup, SpuriousWakeup, SeqInv
<1>. QED
  BY <1>1, <1>2, SeqSkipPrunedInv, SeqStartReplayInv, SeqExploreInv, SeqPushInv, SeqDequeueInv,
     SeqAccountInv DEF SeqNext, SeqStep

(* The strengthened invariant, of which all below are consequences. *)
THEOREM SeqInvariant == SeqSpec => []SeqInv
  BY SeqInitInv, SeqNextInv, PTL DEF SeqSpec

\* tasks_left and tasks_created, local to the loop and to the builder, add up
\* to the number of items queued and being run as long as reset drops none.
THEOREM TasksAreExact == SeqSpec => []TasksExact
<1>1. SeqInv => TasksExact
  <2>. SUFFICES ASSUME SeqInv, dropped = {}, NEW w \in Worker
                PROVE  IF pc[w] = "dequeue" \/ pc[w] = "exit"
                       THEN tasks_left = Cardinality(work_queue)
                       ELSE Busy(w) /\ pc[w] \notin {"check_pruned", "crashed"}
                              => tasks_left + tasks_created = Cardinality(work_queue) + 1
    BY DEF TasksExact
  <2>1. Left = work_queue \cup Running /\ IsFiniteSet(Left) /\ \A v \in Worker : v = w
    BY OneWorker DEF Left, SeqInv, TasksCounted
  <2>2. ASSUME ~ Busy(w)
        PROVE  tasks_left = Cardinality(work_queue)
    <3>1. Left = work_queue
      BY <2>1, <2>2 DEF Running
    <3>. QED
      BY <2>2, <3>1 DEF SeqInv, TasksCounted, Created
  <2>3. ASSUME Busy(w), pc[w] # "check_pruned"
        PROVE  tasks_left + tasks_created = Cardinality(work_queue) + 1
    <3>1. Left = work_queue \cup {work_item[w]} /\ work_item[w] \notin work_queue
      BY <2>1, <2>3 DEF Running, SeqInv, WorkersInv, DriverInv, OwnedOnce, Pending
    <3>2. IsFiniteSet(work_queue)
      BY <2>1, FS_Subset
    <3>3. Cardinality(Left) = Cardinality(work_queue) + 1
      BY <3>1, <3>2, FS_AddElement
    <3>. QED
      BY <2>3, <3>3 DEF SeqInv, TasksCounted, Created
  <2>. QED
    BY <2>2, <2>3 DEF Busy, Starting, Unfolded
<1>. QED
  BY <1>1, SeqInvariant, PTL

-----------------------------------------------------------------------------
(* The loop implements the exploration, which nobody halts.                 *)

LEMMA SeqNextMaps == SeqInv /\ [SeqNext]_seqVars => [Exp!Next]_(Exp!vars)
<1>. SUFFICES ASSUME SeqInv, [SeqNext]_seqVars PROVE [Exp!Next]_(Exp!vars)
  OBVIOUS
<1>1. WorkersInv(DriverPC, work_queue)
  BY DEF SeqInv
<1>2. ASSUME NEW w \in Worker, SeqStep(w)
      PROVE  [Exp!Next]_(Exp!vars)
  <2>1. CASE SeqSkipPruned(w) \/ SeqStartReplay(w) \/ SeqExplore(w)
    BY <1>1, <1>2, <2>1, QueueAloneMaps
    DEF SeqStep, SeqSkipPruned, SeqStartReplay, SeqExplore, DriverStep, schedVars
  <2>2. CASE SeqAccount(w)
    <3>1. \E l : Finishes(w, l)
      BY <2>2 DEF SeqAccount, Finishes
    <3>. QED
      BY <1>1, <1>2, <2>2, <3>1, QueueAloneMaps DEF SeqStep, SeqAccount, schedVars
  <2>3. CASE SeqPush(w)
    BY <1>1, <1>2, <2>3, PushMaps DEF SeqStep, SeqPush
  <2>4. CASE SeqDequeue(w)
    BY <1>1, <1>2, <2>4, DequeueMaps, IdleMaps DEF SeqStep, SeqDequeue, Wait
  <2>. QED
    BY <1>2, <2>1, <2>2, <2>3, <2>4 DEF SeqStep
<1>3. ASSUME NEW w \in Worker, SeqSpuriousWakeup(w)
      PROVE  [Exp!Next]_(Exp!vars)
  BY <1>3, IdleMaps DEF SeqSpuriousWakeup, SpuriousWakeup
<1>4. CASE UNCHANGED seqVars
  BY <1>4, IdleMaps DEF seqVars, vars, schedVars
<1>. QED
  BY <1>2, <1>3, <1>4 DEF SeqNext

\* Every step of run_rfsc_sequential is a step of the abstract exploration or
\* none.
THEOREM SeqImplements == SeqSpec => ImplementsExploration
<1>1. SeqInit => Exp!Init
  BY InitMaps DEF SeqInit
<1>. QED
  BY <1>1, SeqNextMaps, SeqInvariant, PTL DEF SeqSpec, ImplementsExploration, Exp!Spec

-----------------------------------------------------------------------------
\* What was proved of the exploration holds of the loop.
LEMMA ExploringIsComplete == Exp!Spec => []ExpP!IdleComplete
<1>1. Exp!Init => ExpP!Init
  BY DEF Exp!Init, ExpP!Init
<1>2. [Exp!Next]_(Exp!vars) => [ExpP!Next]_(ExpP!vars)
  BY DEF Exp!Next, Exp!Start, Exp!Drop, Exp!Failing, Exp!Unfold, Exp!Discovered, Exp!Discover,
     Exp!Finish, Exp!MayStop, Exp!Stop, Exp!Crash, Exp!vars,
     ExpP!Next, ExpP!Start, ExpP!Drop, ExpP!Failing, ExpP!Unfold, ExpP!Discovered,
     ExpP!Discover, ExpP!Finish, ExpP!MayStop, ExpP!Stop, ExpP!Crash, ExpP!vars
<1>. QED
  BY <1>1, <1>2, ExpP!IdleMeansComplete, ExpAssumption, PTL DEF Exp!Spec, ExpP!Spec

\* When tasks_left sends the loop to its end the queue is empty, and for every
\* finished run each alternative that try_sat can realise was run or is on the
\* path of a finished run.
THEOREM LoopEndsComplete == SeqSpec => []SeqComplete
<1>1. SeqInv /\ ExpP!IdleComplete => SeqComplete
  <2>. SUFFICES ASSUME SeqInv, ExpP!IdleComplete, NEW w \in Worker, pc[w] = "exit", Left = {}
                PROVE  work_queue = {} /\ Complete
    BY DEF SeqInv, ExitReason, SeqComplete
  <2>1. \A v \in Worker : ~ Enqueuing(v)
    BY OneWorker DEF Enqueuing
  <2>2. work_queue \cup Siblings = {} /\ Running = {} /\ dropped = {}
    BY <2>1 DEF Siblings, Left
  <2>3. \A n \in Node : NewNodes(n) \subseteq Ancestors(Path(n))
    BY DEF NewNodes
  <2>. QED
    BY <2>2, <2>3 DEF ExpP!IdleComplete, ExpP!Idle, Complete, OnPath, Done
<1>. QED
  BY <1>1, ExploringIsComplete, SeqImplements, SeqInvariant, PTL DEF ImplementsExploration
=============================================================================
