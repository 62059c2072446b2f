------------------------ MODULE RFSCScheduler_proofs ------------------------
(***************************************************************************)
(* What every RFSCScheduler relies on, for a set Q of queued nodes: the    *)
(* workers' invariant, the count of jobs and the reason for halt(), and    *)
(* that each step of a worker preserves them.  RFSCPriorityQueue_proofs,   *)
(* RFSCWorkStealing_proofs and RFSCSequential_proofs say what their own    *)
(* steps do to Q and take the rest from here.                              *)
(***************************************************************************)
EXTENDS RFSCDriver_proofs, FiniteSetTheorems

Pending(Q) == Q \cup Siblings

\* A sibling on its way into the queue is not in it.
NotYetQueued(Q) == \A w \in Worker : Enqueuing(w) => sibling[w] \notin Q

JobsCounted(Q) ==
  /\ IsFiniteSet(JobsOf(Q))
  /\ outstanding_jobs = Cardinality(JobsOf(Q))

\* halt() is called for a reason that lasts: an error, or no job is left.
HaltReason(Q, stop) ==
  stop \/ (\E w \in Worker : pc[w] = "halt") =>
    \/ res.error_trace /\ ~ KeepGoing
    \/ JobsOf(Q) = {}

\* What holds of the workers, whether or not the jobs are counted.
WorkersInv(PC, Q) ==
  /\ DriverTypeOK(PC)
  /\ DriverInv(Pending(Q))
  /\ NotYetQueued(Q)

SchedulerInv(PC, Q, stop) ==
  /\ WorkersInv(PC, Q)
  /\ JobsCounted(Q)
  /\ HaltReason(Q, stop)

-----------------------------------------------------------------------------
(* What the steps do to the sets of nodes.                                  *)

\* The steps that change no set of nodes but children_unf_set.
Quiet(w) ==
  \/ StartReplay(w)
  \/ RunOnce(w)
  \/ Crash(w)
  \/ ComputeUnfolding(w)
  \/ LockState(w)
  \/ UnlockState(w)
  \/ Halted(w)
  \/ ~ Busy(w) /\ \E l : Moves(w, l)

LEMMA QuietSets ==
  ASSUME NEW PC, DriverTypeOK(PC), NEW w \in Worker, Quiet(w)
  PROVE  /\ Siblings' = Siblings /\ Running' = Running /\ Pushing' = Pushing
         /\ Done' = Done /\ dropped' = dropped /\ sibling' = sibling
         /\ outstanding_jobs' = outstanding_jobs /\ res' = res
         /\ \A v \in Worker : pc'[v] = "halt" => pc[v] = "halt"
         /\ \A v \in Worker : (Enqueuing(v)' <=> Enqueuing(v))
<1>1. /\ sibling' = sibling /\ work_item' = work_item /\ res' = res
      /\ dropped' = dropped /\ runs' = runs /\ outstanding_jobs' = outstanding_jobs
  BY DEF Quiet, StartReplay, RunOnce, Crash, ComputeUnfolding, LockState, UnlockState, Halted,
         Moves, treeVars, resultVars, historyVars
<1>2. \A v \in Worker :
        /\ Busy(v)' <=> Busy(v)
        /\ Enqueuing(v)' <=> Enqueuing(v)
        /\ pc'[v] = "push" <=> pc[v] = "push"
        /\ pc'[v] = "halt" => pc[v] = "halt"
  BY DEF DriverTypeOK, Quiet, StartReplay, RunOnce, Crash, ComputeUnfolding, LockState,
         UnlockState, Halted, Moves, Goto, Busy, Starting, Unfolded, Enqueuing
<1>. QED
  BY <1>1, <1>2 DEF Siblings, Running, Pushing, Done

LEMMA SkipPrunedSets ==
  ASSUME NEW PC, DriverTypeOK(PC), NEW P, OwnedOnce(P), NEW w \in Worker, SkipPruned(w)
  PROVE  /\ Siblings' = Siblings /\ Pushing' = Pushing /\ Done' = Done
         /\ work_item[w] \in Running /\ Running' = Running \ {work_item[w]}
         /\ dropped' = dropped \cup {work_item[w]}
         /\ \A v \in Worker : (Enqueuing(v)' <=> Enqueuing(v))
<1>1. \A v \in Worker :
        /\ Busy(v)' <=> Busy(v) /\ v # w
        /\ Enqueuing(v)' <=> Enqueuing(v)
        /\ pc'[v] = "push" <=> pc[v] = "push"
        /\ v # w => work_item'[v] = work_item[v]
  BY DEF DriverTypeOK, SkipPruned, Goto, Busy, Starting, Unfolded, Enqueuing
<1>2. Busy(w) /\ dropped' = dropped \cup {work_item[w]} /\ sibling' = sibling /\ runs' = runs
  BY DEF SkipPruned, Busy, Starting
<1>3. Siblings' = Siblings /\ Pushing' = Pushing /\ Done' = Done
  BY <1>1, <1>2 DEF Siblings, Pushing, Done
<1>4. work_item[w] \in Running /\ Running' = Running \ {work_item[w]}
  BY <1>1, <1>2 DEF Running, OwnedOnce
<1>. QED
  BY <1>1, <1>2, <1>3, <1>4

LEMMA TryAlternativeSets ==
  ASSUME NEW PC, DriverTypeOK(PC), NEW w \in Worker, NEW a, TryAlternative(w, a)
  PROVE  /\ Siblings' = Siblings \cup NewSibling(a)
         /\ Running' = Running /\ Pushing' = Pushing /\ Done' = Done /\ dropped' = dropped
         /\ outstanding_jobs' = outstanding_jobs /\ res' = res
         /\ \A v \in Worker : Enqueuing(v)' =>
              \/ Enqueuing(v) /\ sibling'[v] = sibling[v]
              \/ sibling'[v] = a /\ a \notin children_unf_set
         /\ \A v \in Worker : pc'[v] = "halt" <=> pc[v] = "halt"
<1>. DEFINE S == NewSibling(a)
<1>1. /\ S \subseteq {a} /\ (S # {} => a \notin children_unf_set)
      /\ IF S # {} THEN pc' = [pc EXCEPT ![w] = "enqueue"] /\ sibling' = [sibling EXCEPT ![w] = a]
                    ELSE pc' = pc /\ sibling' = sibling
      /\ work_item' = work_item /\ dropped' = dropped /\ runs' = runs
      /\ outstanding_jobs' = outstanding_jobs /\ res' = res
  BY DEF TryAlternative, NewSibling, IsNew, Goto, resultVars, historyVars
<1>2. /\ \A v \in Worker : Busy(v)' <=> Busy(v)
      /\ \A v \in Worker : Enqueuing(v)' <=> Enqueuing(v) \/ (v = w /\ S # {})
      /\ \A v \in Worker : (pc'[v] = "push" <=> pc[v] = "push")
      /\ \A v \in Worker : (pc'[v] = "halt" <=> pc[v] = "halt")
      /\ ~ Enqueuing(w) /\ pc[w] # "push"
  BY <1>1 DEF DriverTypeOK, TryAlternative, Busy, Starting, Unfolded, Enqueuing
<1>3. \A v \in Worker \ {w} : sibling'[v] = sibling[v]
  BY <1>1 DEF DriverTypeOK
<1>4. S # {} => sibling'[w] = a /\ S = {a}
  BY <1>1 DEF DriverTypeOK
<1>5. Siblings' = Siblings \cup S
  BY <1>2, <1>3, <1>4 DEF Siblings
<1>6. Running' = Running /\ Pushing' = Pushing /\ Done' = Done
  BY <1>1, <1>2, <1>3 DEF Running, Pushing, Done
<1>. QED
  BY <1>1, <1>2, <1>3, <1>4, <1>5, <1>6

LEMMA FinishesSets ==
  ASSUME NEW PC, DriverTypeOK(PC), NEW P, OwnedOnce(P), NEW w \in Worker,
         NEW l, Finishes(w, l)
  PROVE  /\ Siblings' = Siblings /\ Pushing' = Pushing /\ dropped' = dropped
         /\ work_item[w] \in Running /\ Running' = Running \ {work_item[w]}
         /\ Done' = Done \cup {work_item[w]} /\ sibling' = sibling
         /\ \A v \in Worker : (Enqueuing(v)' <=> Enqueuing(v))
         /\ \A v \in Worker : v # w => (pc'[v] = "halt" <=> pc[v] = "halt")
<1>1. \A v \in Worker :
        /\ Busy(v)' <=> Busy(v) /\ v # w
        /\ Enqueuing(v)' <=> Enqueuing(v)
        /\ pc'[v] = "push" <=> pc[v] = "push"
        /\ v # w => work_item'[v] = work_item[v] /\ (pc'[v] = "halt" <=> pc[v] = "halt")
  BY DEF DriverTypeOK, Finishes, Goto, Busy, Starting, Unfolded, Enqueuing
<1>2. Busy(w) /\ dropped' = dropped /\ sibling' = sibling
  BY DEF Finishes, Busy, Unfolded
<1>3. Siblings' = Siblings /\ Pushing' = Pushing
  BY <1>1, <1>2 DEF Siblings, Pushing
<1>4. work_item[w] \in Running /\ Running' = Running \ {work_item[w]}
  BY <1>1, <1>2 DEF Running, OwnedOnce
<1>5. Done' = Done \cup {work_item[w]}
  BY DEF Done, Finishes, DriverTypeOK
<1>. QED
  BY <1>1, <1>2, <1>3, <1>4, <1>5

LEMMA CountJobSets ==
  ASSUME NEW PC, DriverTypeOK(PC), NEW w \in Worker, CountJob(w)
  PROVE  /\ Siblings' = Siblings /\ Running' = Running /\ Done' = Done /\ dropped' = dropped
         /\ Pushing' = Pushing \cup {sibling[w]} /\ sibling' = sibling
         /\ outstanding_jobs' = outstanding_jobs + 1 /\ res' = res
         /\ \A v \in Worker : (Enqueuing(v)' <=> Enqueuing(v))
         /\ \A v \in Worker : pc'[v] = "halt" <=> pc[v] = "halt"
<1>1. \A v \in Worker :
        /\ Busy(v)' <=> Busy(v)
        /\ Enqueuing(v)' <=> Enqueuing(v)
        /\ pc'[v] = "push" <=> pc[v] = "push" \/ v = w
        /\ pc'[v] = "halt" <=> pc[v] = "halt"
  BY DEF DriverTypeOK, CountJob, Goto, Busy, Starting, Unfolded, Enqueuing
<1>2. /\ dropped' = dropped /\ sibling' = sibling /\ work_item' = work_item /\ runs' = runs
      /\ outstanding_jobs' = outstanding_jobs + 1 /\ res' = res
  BY DEF CountJob, historyVars
<1>. QED
  BY <1>1, <1>2 DEF Siblings, Running, Pushing, Done

LEMMA PushedSets ==
  ASSUME NEW PC, DriverTypeOK(PC), NEW w \in Worker, Pushed(w)
  PROVE  /\ Siblings = Siblings' \cup {sibling[w]} /\ Pushing = Pushing' \cup {sibling[w]}
         /\ Running' = Running /\ Done' = Done /\ dropped' = dropped
         /\ outstanding_jobs' = outstanding_jobs /\ res' = res
         /\ \A v \in Worker : Enqueuing(v)' => Enqueuing(v) /\ v # w /\ sibling'[v] = sibling[v]
         /\ \A v \in Worker : pc'[v] = "halt" <=> pc[v] = "halt"
<1>1. \A v \in Worker :
        /\ Busy(v)' <=> Busy(v)
        /\ Enqueuing(v)' <=> Enqueuing(v) /\ v # w
        /\ pc'[v] = "push" <=> pc[v] = "push" /\ v # w
        /\ pc'[v] = "halt" <=> pc[v] = "halt"
        /\ v # w => sibling'[v] = sibling[v]
  BY DEF DriverTypeOK, Pushed, Goto, Busy, Starting, Unfolded, Enqueuing
<1>2. /\ Enqueuing(w) /\ pc[w] = "push" /\ dropped' = dropped /\ work_item' = work_item
      /\ runs' = runs /\ outstanding_jobs' = outstanding_jobs /\ res' = res
  BY DEF Pushed, Enqueuing, resultVars, historyVars
<1>. QED
  BY <1>1, <1>2 DEF Siblings, Running, Pushing, Done

LEMMA GotWorkSets ==
  ASSUME NEW PC, DriverTypeOK(PC), NEW w \in Worker, ~ Busy(w), NEW n, GotWork(w, n)
  PROVE  /\ Siblings' = Siblings /\ Pushing' = Pushing /\ Done' = Done /\ dropped' = dropped
         /\ Running' = Running \cup {n} /\ sibling' = sibling
         /\ outstanding_jobs' = outstanding_jobs /\ res' = res
         /\ \A v \in Worker : (Enqueuing(v)' <=> Enqueuing(v))
         /\ \A v \in Worker : pc'[v] = "halt" => pc[v] = "halt"
<1>1. \A v \in Worker :
        /\ Busy(v)' <=> Busy(v) \/ v = w
        /\ Enqueuing(v)' <=> Enqueuing(v)
        /\ pc'[v] = "push" <=> pc[v] = "push"
        /\ pc'[v] = "halt" => pc[v] = "halt"
        /\ v # w => work_item'[v] = work_item[v]
  BY DEF DriverTypeOK, GotWork, Goto, Busy, Starting, Unfolded, Enqueuing
<1>2. /\ work_item'[w] = n /\ dropped' = dropped /\ sibling' = sibling /\ runs' = runs
      /\ outstanding_jobs' = outstanding_jobs /\ res' = res
  BY DEF DriverTypeOK, GotWork, resultVars, historyVars
<1>. QED
  BY <1>1, <1>2 DEF Siblings, Running, Pushing, Done

-----------------------------------------------------------------------------
(* The invariant is preserved.                                              *)

LEMMA PendingWorkers ==
  ASSUME NEW Q
  PROVE  \A w \in Worker : Enqueuing(w) => sibling[w] \in Siblings /\ sibling[w] \in Pending(Q)
  BY DEF Siblings, Pending

\* A worker that holds an item, and one that is pushing, have a job.
LEMMA HasJob ==
  ASSUME NEW Q
  PROVE  /\ \A w \in Worker : Busy(w) => work_item[w] \in JobsOf(Q)
         /\ \A w \in Worker : pc[w] = "push" => sibling[w] \in JobsOf(Q)
         /\ Q \subseteq JobsOf(Q)
  BY DEF JobsOf, Running, Pushing

LEMMA QuietWorkers ==
  ASSUME NEW PC, NEW Q, WorkersInv(PC, Q), NEW w \in Worker, Quiet(w), DriverTypeOK(PC)'
  PROVE  WorkersInv(PC, Q)' /\ JobsOf(Q)' = JobsOf(Q)
<1>1. /\ Pending(Q)' = Pending(Q) /\ JobsOf(Q)' = JobsOf(Q) /\ sibling' = sibling
      /\ \A v \in Worker : (Enqueuing(v)' <=> Enqueuing(v))
  BY QuietSets DEF WorkersInv, Pending, JobsOf
<1>2. DriverInv(Pending(Q))'
  <2>1. ASSUME NEW P, DriverInv(P)
        PROVE  DriverInv(P)'
    <3>1. ASSUME ~ Busy(w), NEW l, Moves(w, l)
          PROVE  DriverInv(P)'
      BY <2>1, <3>1, MovesInv DEF WorkersInv
    <3>. QED
      BY <2>1, <3>1, StartReplayInv, RunOnceInv, CrashInv, ComputeUnfoldingInv, LockStateInv,
         UnlockStateInv, HaltedInv DEF WorkersInv, Quiet
  <2>. QED
    BY <1>1, <2>1 DEF WorkersInv
<1>3. NotYetQueued(Q)'
  BY <1>1 DEF WorkersInv, NotYetQueued
<1>. QED
  BY <1>1, <1>2, <1>3 DEF WorkersInv

LEMMA QuietKeeps ==
  ASSUME NEW PC, NEW Q, NEW stop, SchedulerInv(PC, Q, stop),
         NEW w \in Worker, Quiet(w), DriverTypeOK(PC)'
  PROVE  SchedulerInv(PC, Q, stop)'
<1>1. WorkersInv(PC, Q)' /\ JobsOf(Q)' = JobsOf(Q)
  BY QuietWorkers DEF SchedulerInv
<1>2. /\ outstanding_jobs' = outstanding_jobs /\ res' = res
      /\ \A v \in Worker : pc'[v] = "halt" => pc[v] = "halt"
  BY QuietSets DEF SchedulerInv, WorkersInv
<1>3. JobsCounted(Q)' /\ HaltReason(Q, stop)'
  BY <1>1, <1>2 DEF SchedulerInv, JobsCounted, HaltReason
<1>. QED
  BY <1>1, <1>3 DEF SchedulerInv

LEMMA HaltedKeeps ==
  ASSUME NEW PC, DriverPC \subseteq PC, NEW Q, NEW stop, SchedulerInv(PC, Q, stop),
         NEW w \in Worker, Halted(w)
  PROVE  SchedulerInv(PC, Q, TRUE)'
<1>1. DriverTypeOK(PC)'
  BY DriverTypes DEF SchedulerInv, WorkersInv
<1>2. SchedulerInv(PC, Q, stop)'
  BY <1>1, QuietKeeps DEF Quiet
<1>3. HaltReason(Q, TRUE)'
  <2>1. JobsOf(Q)' = JobsOf(Q) /\ res' = res
    BY QuietSets DEF SchedulerInv, WorkersInv, Quiet, JobsOf
  <2>. QED
    BY <2>1 DEF SchedulerInv, HaltReason, Halted
<1>. QED
  BY <1>2, <1>3 DEF SchedulerInv

LEMMA SkipPrunedWorkers ==
  ASSUME NEW PC, DriverPC \subseteq PC, NEW Q, WorkersInv(PC, Q),
         NEW w \in Worker, SkipPruned(w)
  PROVE  WorkersInv(PC, Q)' /\ JobsOf(Q)' = JobsOf(Q)
<1>1. DriverTypeOK(PC)'
  BY DriverTypes DEF WorkersInv
<1>2. /\ Pending(Q)' = Pending(Q) /\ JobsOf(Q)' = JobsOf(Q)
      /\ \A v \in Worker : (Enqueuing(v)' <=> Enqueuing(v))
  BY SkipPrunedSets DEF WorkersInv, DriverInv, Pending, JobsOf
<1>3. DriverInv(Pending(Q))'
  BY <1>2, SkipPrunedInv DEF WorkersInv
<1>4. NotYetQueued(Q)'
  BY <1>2 DEF WorkersInv, NotYetQueued, SkipPruned
<1>. QED
  BY <1>1, <1>2, <1>3, <1>4 DEF WorkersInv

LEMMA SkipPrunedKeeps ==
  ASSUME NEW PC, DriverPC \subseteq PC, NEW Q, NEW stop, SchedulerInv(PC, Q, stop),
         NEW w \in Worker, SkipPruned(w)
  PROVE  SchedulerInv(PC, Q, stop)'
<1>1. WorkersInv(PC, Q)' /\ JobsOf(Q)' = JobsOf(Q)
  BY SkipPrunedWorkers DEF SchedulerInv
<1>2. JobsCounted(Q)' /\ HaltReason(Q, stop)'
  BY <1>1 DEF SchedulerInv, WorkersInv, JobsCounted, HaltReason, SkipPruned, resultVars, Goto,
     DriverTypeOK
<1>. QED
  BY <1>1, <1>2 DEF SchedulerInv

\* A node that nobody has allocated is not pending.
LEMMA FreshNotPending ==
  ASSUME NEW PC, DriverTypeOK(PC), NEW P, DriverInv(P), NEW w \in Worker,
         NEW a, TryAlternative(w, a), a \notin children_unf_set
  PROVE  a \notin P
<1>1. a # Root
  BY TreeAssumption DEF TryAlternative, DriverInv, AlternativesTried, Unfolded, DriverTypeOK
<1>. QED
  BY <1>1 DEF DriverInv, Claimed

LEMMA TryAlternativeWorkers ==
  ASSUME NEW PC, DriverPC \subseteq PC, NEW Q, WorkersInv(PC, Q),
         NEW w \in Worker, NEW a, TryAlternative(w, a)
  PROVE  WorkersInv(PC, Q)' /\ JobsOf(Q)' = JobsOf(Q)
<1>1. DriverTypeOK(PC)'
  BY DriverTypes DEF WorkersInv
<1>2. Pending(Q)' = Pending(Q) \cup NewSibling(a) /\ JobsOf(Q)' = JobsOf(Q)
  BY TryAlternativeSets DEF WorkersInv, Pending, JobsOf
<1>3. DriverInv(Pending(Q))'
  BY <1>2, TryAlternativeInv DEF WorkersInv
<1>4. NotYetQueued(Q)'
  BY TryAlternativeSets, FreshNotPending DEF WorkersInv, NotYetQueued, Pending
<1>. QED
  BY <1>1, <1>2, <1>3, <1>4 DEF WorkersInv

LEMMA TryAlternativeKeeps ==
  ASSUME NEW PC, DriverPC \subseteq PC, NEW Q, NEW stop, SchedulerInv(PC, Q, stop),
         NEW w \in Worker, NEW a, TryAlternative(w, a)
  PROVE  SchedulerInv(PC, Q, stop)'
<1>1. WorkersInv(PC, Q)' /\ JobsOf(Q)' = JobsOf(Q)
  BY TryAlternativeWorkers DEF SchedulerInv
<1>2. JobsCounted(Q)' /\ HaltReason(Q, stop)'
  BY <1>1, TryAlternativeSets DEF SchedulerInv, WorkersInv, JobsCounted, HaltReason
<1>. QED
  BY <1>1, <1>2 DEF SchedulerInv

\* The sibling that is counted was no job before.
LEMMA SiblingIsNoJob ==
  ASSUME NEW PC, NEW Q, WorkersInv(PC, Q), NEW w \in Worker, pc[w] = "enqueue"
  PROVE  sibling[w] \notin JobsOf(Q)
<1>1. sibling[w] \in Pending(Q) /\ sibling[w] \notin Q
  BY PendingWorkers DEF Enqueuing, WorkersInv, NotYetQueued
<1>2. sibling[w] \notin Running \cup dropped
  BY <1>1 DEF Running, WorkersInv, DriverInv, OwnedOnce
<1>3. \A v \in Worker : pc[v] = "push" => sibling[v] # sibling[w]
  BY DEF Enqueuing, WorkersInv, DriverInv, SiblingsOnce
<1>. QED
  BY <1>1, <1>2, <1>3 DEF JobsOf, Pushing

LEMMA CountJobWorkers ==
  ASSUME NEW PC, DriverPC \subseteq PC, NEW Q, WorkersInv(PC, Q),
         NEW w \in Worker, CountJob(w)
  PROVE  WorkersInv(PC, Q)' /\ JobsOf(Q)' = JobsOf(Q) \cup {sibling[w]}
<1>1. DriverTypeOK(PC)'
  BY DriverTypes DEF WorkersInv
<1>2. Pending(Q)' = Pending(Q) /\ JobsOf(Q)' = JobsOf(Q) \cup {sibling[w]}
  BY CountJobSets DEF WorkersInv, Pending, JobsOf
<1>3. DriverInv(Pending(Q))'
  BY <1>2, CountJobInv DEF WorkersInv
<1>4. NotYetQueued(Q)'
  BY CountJobSets DEF WorkersInv, NotYetQueued
<1>. QED
  BY <1>1, <1>2, <1>3, <1>4 DEF WorkersInv

LEMMA CountJobKeeps ==
  ASSUME NEW PC, DriverPC \subseteq PC, NEW Q, NEW stop, SchedulerInv(PC, Q, stop),
         NEW w \in Worker, CountJob(w)
  PROVE  SchedulerInv(PC, Q, stop)'
<1>1. WorkersInv(PC, Q)' /\ JobsOf(Q)' = JobsOf(Q) \cup {sibling[w]}
  BY CountJobWorkers DEF SchedulerInv
<1>2. JobsCounted(Q)'
  <2>1. IsFiniteSet(JobsOf(Q)) /\ outstanding_jobs = Cardinality(JobsOf(Q))
    BY DEF SchedulerInv, JobsCounted
  <2>2. /\ IsFiniteSet(JobsOf(Q) \cup {sibling[w]})
        /\ Cardinality(JobsOf(Q) \cup {sibling[w]}) = Cardinality(JobsOf(Q)) + 1
    BY <2>1, SiblingIsNoJob, FS_AddElement DEF CountJob, SchedulerInv
  <2>. QED
    BY <1>1, <2>1, <2>2 DEF JobsCounted, CountJob
<1>3. HaltReason(Q, stop)'
  <2>1. JobsOf(Q) # {}
    BY HasJob DEF CountJob, Busy, Unfolded
  <2>. QED
    BY <2>1, CountJobSets DEF SchedulerInv, WorkersInv, HaltReason
<1>. QED
  BY <1>1, <1>2, <1>3 DEF SchedulerInv

LEMMA PushedWorkers ==
  ASSUME NEW PC, DriverPC \subseteq PC, NEW Q, WorkersInv(PC, Q),
         NEW w \in Worker, Pushed(w), NEW R, R = Q \cup {sibling[w]}
  PROVE  WorkersInv(PC, R)' /\ JobsOf(R)' = JobsOf(Q)
<1>1. DriverTypeOK(PC)'
  BY DriverTypes DEF WorkersInv
<1>2. Pending(R)' = Pending(Q) /\ JobsOf(R)' = JobsOf(Q)
  BY PushedSets DEF WorkersInv, Pending, JobsOf
<1>3. DriverInv(Pending(R))'
  BY <1>2, PushedInv DEF WorkersInv
<1>4. NotYetQueued(R)'
  <2>1. Enqueuing(w) /\ \A v \in Worker : v # w /\ Enqueuing(v) => sibling[v] # sibling[w]
    BY DEF WorkersInv, DriverInv, SiblingsOnce, Pushed, Enqueuing
  <2>. QED
    BY <2>1, PushedSets DEF WorkersInv, NotYetQueued
<1>. QED
  BY <1>1, <1>2, <1>3, <1>4 DEF WorkersInv

LEMMA PushedKeeps ==
  ASSUME NEW PC, DriverPC \subseteq PC, NEW Q, NEW stop, SchedulerInv(PC, Q, stop),
         NEW w \in Worker, Pushed(w), NEW R, R = Q \cup {sibling[w]}
  PROVE  SchedulerInv(PC, R, stop)'
<1>1. WorkersInv(PC, R)' /\ JobsOf(R)' = JobsOf(Q)
  BY PushedWorkers DEF SchedulerInv
<1>2. JobsCounted(R)' /\ HaltReason(R, stop)'
  BY <1>1, PushedSets DEF SchedulerInv, WorkersInv, JobsCounted, HaltReason
<1>. QED
  BY <1>1, <1>2 DEF SchedulerInv

LEMMA GotWorkWorkers ==
  ASSUME NEW PC, DriverPC \subseteq PC, NEW Q, WorkersInv(PC, Q),
         NEW w \in Worker, ~ Busy(w), NEW n \in Q, GotWork(w, n), NEW R, R = Q \ {n}
  PROVE  WorkersInv(PC, R)' /\ JobsOf(R)' = JobsOf(Q)
<1>1. n \in Node /\ n \in Pending(Q) /\ n \notin Siblings
  BY DEF WorkersInv, DriverInv, Claimed, Pending, NotYetQueued, Siblings
<1>2. DriverTypeOK(PC)'
  BY <1>1, DriverTypes DEF WorkersInv
<1>3. Pending(R)' = Pending(Q) \ {n} /\ JobsOf(R)' = JobsOf(Q)
  BY <1>1, GotWorkSets DEF WorkersInv, Pending, JobsOf
<1>4. DriverInv(Pending(R))'
  BY <1>1, <1>3, GotWorkInv DEF WorkersInv, Siblings
<1>5. NotYetQueued(R)'
  BY GotWorkSets DEF WorkersInv, NotYetQueued
<1>. QED
  BY <1>2, <1>3, <1>4, <1>5 DEF WorkersInv

LEMMA GotWorkKeeps ==
  ASSUME NEW PC, DriverPC \subseteq PC, NEW Q, NEW stop, SchedulerInv(PC, Q, stop),
         NEW w \in Worker, ~ Busy(w), NEW n \in Q, GotWork(w, n), NEW R, R = Q \ {n}
  PROVE  SchedulerInv(PC, R, stop)'
<1>1. WorkersInv(PC, R)' /\ JobsOf(R)' = JobsOf(Q)
  BY GotWorkWorkers DEF SchedulerInv
<1>2. JobsCounted(R)' /\ HaltReason(R, stop)'
  BY <1>1, GotWorkSets DEF SchedulerInv, WorkersInv, JobsCounted, HaltReason
<1>. QED
  BY <1>1, <1>2 DEF SchedulerInv

\* A job ends when its run is accounted for.
LEMMA FinishesWorkers ==
  ASSUME NEW PC, NEW Q, WorkersInv(PC, Q), NEW w \in Worker, NEW l, Finishes(w, l),
         DriverTypeOK(PC)'
  PROVE  /\ WorkersInv(PC, Q)' 
         /\ work_item[w] \in JobsOf(Q) /\ JobsOf(Q)' = JobsOf(Q) \ {work_item[w]}
<1>. DEFINE n == work_item[w]
<1>1. n \in JobsOf(Q) /\ Pending(Q)' = Pending(Q) /\ JobsOf(Q)' = JobsOf(Q) \ {n}
  <2>1. Busy(w)
    BY DEF Finishes, Busy, Unfolded
  <2>2. n \notin Pending(Q) \cup dropped
    BY <2>1 DEF WorkersInv, DriverInv, OwnedOnce
  <2>3. n \notin Pushing
    BY <2>2, PendingWorkers DEF Pushing, Enqueuing
  <2>. QED
    BY <2>1, <2>2, <2>3, HasJob, FinishesSets DEF WorkersInv, DriverInv, Pending, JobsOf
<1>2. DriverInv(Pending(Q))'
  BY <1>1, FinishesInv DEF WorkersInv
<1>3. NotYetQueued(Q)'
  BY FinishesSets DEF WorkersInv, DriverInv, NotYetQueued
<1>. QED
  BY <1>1, <1>2, <1>3 DEF WorkersInv

LEMMA AccountKeeps ==
  ASSUME NEW PC, DriverPC \subseteq PC, NEW Q, NEW stop, SchedulerInv(PC, Q, stop),
         NEW w \in Worker, Account(w)
  PROVE  SchedulerInv(PC, Q, stop)'
<1>. DEFINE n == work_item[w]
            l == IF MustHalt(Outcome[n], outstanding_jobs - 1) THEN "halt" ELSE "unlock"
<1>1. Finishes(w, l)
  BY AccountFinishes DEF SchedulerInv, WorkersInv
<1>2. DriverTypeOK(PC)'
  BY DriverTypes DEF SchedulerInv, WorkersInv
<1>3. WorkersInv(PC, Q)' /\ n \in JobsOf(Q) /\ JobsOf(Q)' = JobsOf(Q) \ {n}
  BY <1>1, <1>2, FinishesWorkers DEF SchedulerInv
<1>4. JobsCounted(Q)'
  BY <1>3, FS_RemoveElement DEF SchedulerInv, JobsCounted, Account
<1>5. HaltReason(Q, stop)'
  <2>1. ASSUME pc'[w] = "halt"
        PROVE  (res'.error_trace /\ ~ KeepGoing) \/ JobsOf(Q)' = {}
    <3>1. MustHalt(Outcome[n], outstanding_jobs - 1)
      BY <2>1 DEF Account, Goto, SchedulerInv, WorkersInv, DriverTypeOK
    <3>2. CASE Outcome[n] = "error" /\ ~ KeepGoing
      BY <3>2 DEF Account, HandleTrace
    <3>3. CASE outstanding_jobs - 1 = 0
      BY <1>4, <3>3, FS_EmptySet DEF JobsCounted, Account
    <3>. QED
      BY <3>1, <3>2, <3>3 DEF MustHalt
  <2>2. res.error_trace => res'.error_trace
    BY DEF Account, HandleTrace
  <2>3. \A v \in Worker : v # w => (pc'[v] = "halt" <=> pc[v] = "halt")
    BY <1>1, FinishesSets DEF SchedulerInv, WorkersInv, DriverInv
  <2>. QED
    BY <1>3, <2>1, <2>2, <2>3 DEF SchedulerInv, HaltReason
<1>. QED
  BY <1>3, <1>4, <1>5 DEF SchedulerInv

\* The steps of a worker that leave the queue alone.
LEMMA DriverStepKeeps ==
  ASSUME NEW PC, DriverPC \subseteq PC, NEW Q, NEW stop, SchedulerInv(PC, Q, stop),
         NEW w \in Worker, DriverStep(w)
  PROVE  SchedulerInv(PC, Q, stop)'
<1>1. CASE StartReplay(w) \/ RunOnce(w) \/ Crash(w) \/ ComputeUnfolding(w) \/ LockState(w)
           \/ UnlockState(w)
  <2>1. DriverTypeOK(PC)'
    BY <1>1, DriverTypes DEF SchedulerInv, WorkersInv
  <2>. QED
    BY <1>1, <2>1, QuietKeeps DEF Quiet
<1>. QED
  BY <1>1, SkipPrunedKeeps, TryAlternativeKeeps, CountJobKeeps, AccountKeeps
  DEF DriverStep, Explore

\* A worker on its way through the scheduler's own code.
LEMMA MovesKeeps ==
  ASSUME NEW PC, NEW Q, NEW stop, SchedulerInv(PC, Q, stop),
         NEW w \in Worker, ~ Busy(w), NEW l \in PC, Moves(w, l)
  PROVE  SchedulerInv(PC, Q, stop)'
<1>1. DriverTypeOK(PC)'
  BY DEF SchedulerInv, WorkersInv, DriverTypeOK, Moves, Goto, treeVars, resultVars, historyVars
<1>. QED
  BY <1>1, QuietKeeps DEF Quiet

\* Only the scheduler's variables change.
LEMMA IdleSets ==
  ASSUME UNCHANGED driverVars
  PROVE  /\ Siblings' = Siblings /\ Running' = Running /\ Done' = Done /\ Crashed' = Crashed
         /\ Pushing' = Pushing /\ dropped' = dropped /\ children_unf_set' = children_unf_set
  BY DEF Siblings, Running, Done, Crashed, Pushing, Busy, Starting, Unfolded, Enqueuing,
         driverVars, treeVars, historyVars

LEMMA IdleWorkers ==
  ASSUME NEW PC, NEW Q, WorkersInv(PC, Q), UNCHANGED driverVars
  PROVE  WorkersInv(PC, Q)' /\ JobsOf(Q)' = JobsOf(Q)
<1>. UNCHANGED <<pc, work_item, todo, sibling, children_unf_set, pruned_subtree,
                 outstanding_jobs, state_mutex, res, runs, cancelled, dropped>>
  BY DEF driverVars, treeVars, resultVars, historyVars
<1>1. DriverTypeOK(PC)'
  BY DEF WorkersInv, DriverTypeOK
<1>2. DriverInv(Pending(Q))'
  BY IdleSets DEF WorkersInv, Pending, DriverInv, OwnedOnce, SiblingsOnce, Claimed, Untouched,
     NothingBelow, PathsTaken, AlternativesTried, ErrorsBlamed, PastRun, Busy, Starting, Unfolded,
     Enqueuing
<1>3. NotYetQueued(Q)' /\ JobsOf(Q)' = JobsOf(Q)
  BY IdleSets DEF WorkersInv, NotYetQueued, Enqueuing, JobsOf
<1>. QED
  BY <1>1, <1>2, <1>3 DEF WorkersInv

LEMMA IdleKeeps ==
  ASSUME NEW PC, NEW Q, NEW stop, SchedulerInv(PC, Q, stop), UNCHANGED driverVars
  PROVE  SchedulerInv(PC, Q, stop)'
<1>1. WorkersInv(PC, Q)' /\ JobsOf(Q)' = JobsOf(Q)
  BY IdleWorkers DEF SchedulerInv
<1>2. JobsCounted(Q)' /\ HaltReason(Q, stop)'
  BY <1>1 DEF SchedulerInv, JobsCounted, HaltReason, driverVars, resultVars
<1>. QED
  BY <1>1, <1>2 DEF SchedulerInv

LEMMA InitKeeps ==
  ASSUME DriverInit, NEW PC, DriverPC \subseteq PC
  PROVE  /\ SchedulerInv(PC, {Root}, FALSE)
         /\ Siblings = {} /\ Running = {} /\ Done = {} /\ ~ Crashed /\ JobsOf({Root}) = {Root}
<1>. USE DEF DriverInit
<1>1. \A w \in Worker : ~ Busy(w) /\ ~ Enqueuing(w) /\ pc[w] # "push" /\ pc[w] # "halt"
                        /\ pc[w] # "crashed"
  BY DEF Busy, Starting, Unfolded, Enqueuing
<1>2. /\ Siblings = {} /\ Running = {} /\ Done = {} /\ Pushing = {} /\ ~ Crashed
      /\ Pending({Root}) = {Root} /\ JobsOf({Root}) = {Root}
  BY <1>1 DEF Siblings, Running, Done, Pushing, Crashed, Pending, JobsOf
<1>3. DriverTypeOK(PC)
  BY TreeAssumption DEF DriverTypeOK, DriverPC
<1>4. DriverInv({Root})
  BY <1>1, TreeAssumption
  DEF DriverInv, OwnedOnce, SiblingsOnce, Claimed, Untouched, NothingBelow, PathsTaken,
      AlternativesTried, ErrorsBlamed, Busy, Starting, Unfolded, Enqueuing
<1>5. JobsCounted({Root})
  BY <1>2, FS_Singleton DEF JobsCounted
<1>6. NotYetQueued({Root}) /\ HaltReason({Root}, FALSE)
  BY <1>1 DEF NotYetQueued, HaltReason
<1>. QED
  BY <1>2, <1>3, <1>4, <1>5, <1>6 DEF SchedulerInv, WorkersInv

-----------------------------------------------------------------------------
(* What the workers' steps look like to the exploration of Exploration.tla  *)
(* when the queue stays as it is.                                           *)

FailingIn(S) == \E n \in S : Outcome[n] = "error"

Unseen(Q) ==
  /\ Q \cup Siblings' = Q \cup Siblings
  /\ Running' = Running /\ Done' = Done /\ Crashed' = Crashed
  /\ UNCHANGED <<children_unf_set, dropped>>

Drops(n, Q) ==
  /\ NewNodes(n) \cap children_unf_set = {}
  /\ FailingIn(Running \cup Done)
  /\ Q \cup Siblings' = Q \cup Siblings /\ Running' = Running \ {n} /\ dropped' = dropped \cup {n}
  /\ Done' = Done /\ Crashed' = Crashed /\ children_unf_set' = children_unf_set

Unfolds(n, Q) ==
  /\ NewNodes(n) \cap children_unf_set = {}
  /\ children_unf_set' = children_unf_set \cup NewNodes(n)
  /\ Q \cup Siblings' = Q \cup Siblings /\ Running' = Running /\ Done' = Done /\ Crashed' = Crashed
  /\ dropped' = dropped

Discovers(n, a, Q) ==
  /\ NewNodes(n) \subseteq children_unf_set
  /\ a \in Alt[n] \ children_unf_set
  /\ children_unf_set' = children_unf_set \cup {a}
  /\ Q \cup Siblings' = Q \cup Siblings \cup (IF a \in Sat THEN {a} ELSE {})
  /\ Running' = Running /\ Done' = Done /\ Crashed' = Crashed /\ dropped' = dropped

Completes(n, Q) ==
  /\ NewNodes(n) \subseteq children_unf_set /\ Alt[n] \subseteq children_unf_set
  /\ Q \cup Siblings' = Q \cup Siblings /\ Running' = Running \ {n} /\ Done' = Done \cup {n}
  /\ Crashed' = Crashed /\ UNCHANGED <<children_unf_set, dropped>>

Dies(Q) ==
  /\ FailingIn(Running)
  /\ Crashed' = TRUE
  /\ Q \cup Siblings' = Q \cup Siblings /\ Running' = Running /\ Done' = Done /\ UNCHANGED <<children_unf_set, dropped>>

Explores(Q) ==
  \/ Unseen(Q)
  \/ Dies(Q)
  \/ \E n \in Node \cap Running :
       \/ Drops(n, Q)
       \/ Unfolds(n, Q)
       \/ \E a \in Alt[n] : Discovers(n, a, Q)
       \/ Completes(n, Q)

\* No worker has crashed before a step, and only Crash changes that.
LEMMA CrashedStays ==
  ASSUME NEW PC, DriverTypeOK(PC), NEW w \in Worker, ~ Crashed,
         \/ (\E n : GotWork(w, n)) \/ SkipPruned(w) \/ StartReplay(w) \/ RunOnce(w)
         \/ ComputeUnfolding(w) \/ (\E a : TryAlternative(w, a)) \/ CountJob(w) \/ Pushed(w)
         \/ LockState(w) \/ (\E l : Finishes(w, l)) \/ Halted(w) \/ UnlockState(w)
         \/ (\E l : Moves(w, l))
  PROVE  Crashed' = Crashed
  BY DEF Crashed, DriverTypeOK, GotWork, SkipPruned, StartReplay, RunOnce,
     ComputeUnfolding, TryAlternative, CountJob, Pushed, LockState, Finishes, Halted,
     UnlockState, Moves, Goto

\* The run of an error shows in what is done or being run.
LEMMA PrunedMeansFailing ==
  ASSUME NEW PC, DriverTypeOK(PC), NEW P, DriverInv(P), NEW n \in Node, IsPruned(n)
  PROVE  FailingIn(Running \cup Done)
<1>1. PICK m \in cancelled : TRUE
  BY DEF IsPruned, DriverInv, ErrorsBlamed
<1>2. m \in Node /\ Outcome[m] = "error"
  BY DEF DriverTypeOK, DriverInv, ErrorsBlamed
<1>3. m \in Running \cup Done
  <2>1. CASE runs[m] > 0
    BY <2>1, <1>2 DEF Done
  <2>2. ASSUME NEW w \in Worker, PastRun(w), work_item[w] = m
        PROVE  m \in Running
    BY <2>2 DEF Running, PastRun, Busy, Starting
  <2>. QED
    BY <2>1, <2>2 DEF DriverInv, ErrorsBlamed
<1>. QED
  BY <1>2, <1>3 DEF FailingIn

LEMMA SkipPrunedExplores ==
  ASSUME NEW PC, NEW Q, WorkersInv(PC, Q), NEW w \in Worker, ~ Crashed,
         SkipPruned(w)
  PROVE  Explores(Q)
<1>. DEFINE n == work_item[w]
<1>1. n \in Node /\ n \in Running
  BY DEF SkipPruned, Running, Busy, Starting, WorkersInv, DriverTypeOK
<1>2. NewNodes(n) \cap children_unf_set = {}
  BY NewNodesAreFresh DEF SkipPruned, Starting, WorkersInv
<1>3. FailingIn(Running \cup Done)
  BY <1>1, PrunedMeansFailing DEF SkipPruned, WorkersInv
<1>4. Crashed' = Crashed /\ children_unf_set' = children_unf_set
  BY CrashedStays DEF WorkersInv, SkipPruned, treeVars
<1>5. Drops(n, Q)
  BY <1>2, <1>3, <1>4, SkipPrunedSets DEF Drops, Pending, WorkersInv, DriverInv
<1>. QED
  BY <1>1, <1>5 DEF Explores

LEMMA QuietExplores ==
  ASSUME NEW PC, NEW Q, WorkersInv(PC, Q), NEW w \in Worker, ~ Crashed,
         Quiet(w)
  PROVE  Explores(Q)
<1>1. /\ Q \cup Siblings' = Q \cup Siblings /\ Running' = Running /\ Done' = Done
      /\ dropped' = dropped
  BY QuietSets DEF WorkersInv, Pending
<1>2. CASE Crash(w)
  <2>1. Crashed' = TRUE /\ children_unf_set' = children_unf_set
    BY <1>2 DEF Crash, Crashed, Goto, WorkersInv, DriverTypeOK, treeVars
  <2>2. work_item[w] \in Running /\ Outcome[work_item[w]] = "error"
    BY <1>2 DEF Crash, NullDereference, Running, Busy, Starting
  <2>. QED
    BY <1>1, <2>1, <2>2 DEF Explores, Dies, FailingIn
<1>3. CASE ComputeUnfolding(w)
  <2>. DEFINE n == work_item[w]
  <2>1. n \in Running /\ n \in Node /\ children_unf_set' = children_unf_set \cup NewNodes(n)
    BY <1>3 DEF ComputeUnfolding, Running, Busy, Starting, WorkersInv, DriverTypeOK
  <2>2. NewNodes(n) \cap children_unf_set = {}
    BY <1>3, NewNodesAreFresh DEF ComputeUnfolding, Starting, WorkersInv
  <2>3. Crashed' = Crashed
    BY <1>3, CrashedStays DEF WorkersInv
  <2>. QED
    BY <1>1, <2>1, <2>2, <2>3 DEF Explores, Unfolds
<1>4. CASE ~ Crash(w) /\ ~ ComputeUnfolding(w)
  <2>1. children_unf_set' = children_unf_set
    BY <1>4 DEF Quiet, StartReplay, RunOnce, LockState, UnlockState, Halted, Moves, treeVars
  <2>2. Crashed' = Crashed
    BY <1>4, CrashedStays DEF Quiet, WorkersInv
  <2>. QED
    BY <1>1, <2>1, <2>2 DEF Explores, Unseen
<1>. QED
  BY <1>2, <1>3, <1>4

\* An alternative that was allocated before changes nothing.
LEMMA TryAlternativeExplores ==
  ASSUME NEW PC, NEW Q, WorkersInv(PC, Q), NEW w \in Worker, ~ Crashed,
         NEW a, TryAlternative(w, a)
  PROVE  Explores(Q)
<1>. DEFINE n == work_item[w]
<1>1. n \in Node /\ n \in Running /\ Unfolded(w)
  BY DEF TryAlternative, Running, Busy, Unfolded, WorkersInv, DriverTypeOK
<1>2. a \in Alt[n] /\ NewNodes(n) \subseteq children_unf_set
  BY <1>1 DEF WorkersInv, DriverInv, AlternativesTried, PathsTaken, NewNodes, TryAlternative
<1>3. /\ Q \cup Siblings' = Q \cup Siblings \cup NewSibling(a) /\ Running' = Running /\ Done' = Done
      /\ dropped' = dropped /\ Crashed' = Crashed
  BY TryAlternativeSets, CrashedStays DEF WorkersInv, Pending
<1>4. children_unf_set' = children_unf_set \cup {a}
  BY DEF TryAlternative
<1>5. CASE a \in children_unf_set
  BY <1>3, <1>4, <1>5 DEF NewSibling, IsNew, Explores, Unseen
<1>6. CASE a \notin children_unf_set
  BY <1>1, <1>2, <1>3, <1>4, <1>6 DEF NewSibling, IsNew, Explores, Discovers
<1>. QED
  BY <1>5, <1>6

LEMMA FinishesExplores ==
  ASSUME NEW PC, NEW Q, WorkersInv(PC, Q), NEW w \in Worker, ~ Crashed,
         NEW l, Finishes(w, l)
  PROVE  Explores(Q)
<1>. DEFINE n == work_item[w]
<1>1. n \in Node /\ Unfolded(w) /\ todo[w] = {}
  BY DEF Finishes, Unfolded, WorkersInv, DriverTypeOK
<1>2. Alt[n] \subseteq children_unf_set /\ NewNodes(n) \subseteq children_unf_set
  BY <1>1 DEF WorkersInv, DriverInv, AlternativesTried, PathsTaken, NewNodes
<1>3. /\ Q \cup Siblings' = Q \cup Siblings /\ n \in Running /\ Running' = Running \ {n}
      /\ Done' = Done \cup {n} /\ dropped' = dropped /\ Crashed' = Crashed
  BY FinishesSets, CrashedStays DEF WorkersInv, DriverInv, Pending
<1>4. children_unf_set' = children_unf_set
  BY DEF Finishes, treeVars
<1>. QED
  BY <1>1, <1>2, <1>3, <1>4 DEF Explores, Completes

LEMMA CountJobExplores ==
  ASSUME NEW PC, NEW Q, WorkersInv(PC, Q), NEW w \in Worker, ~ Crashed,
         CountJob(w)
  PROVE  Explores(Q)
<1>1. children_unf_set' = children_unf_set
  BY DEF CountJob, treeVars
<1>. QED
  BY <1>1, CountJobSets, CrashedStays DEF WorkersInv, Pending, Explores, Unseen

LEMMA DriverStepExplores ==
  ASSUME NEW PC, NEW Q, WorkersInv(PC, Q), NEW w \in Worker, ~ Crashed,
         DriverStep(w)
  PROVE  Explores(Q)
<1>1. CASE Account(w)
  BY <1>1, AccountFinishes, FinishesExplores DEF WorkersInv
<1>. QED
  BY <1>1, QuietExplores, SkipPrunedExplores, TryAlternativeExplores, CountJobExplores
  DEF DriverStep, Explore, Quiet

\* The sibling is pending before and after it is pushed.
LEMMA PushedExplores ==
  ASSUME NEW PC, NEW Q, WorkersInv(PC, Q), NEW w \in Worker, ~ Crashed,
         Pushed(w), NEW R, R = Q \cup {sibling[w]}
  PROVE  /\ R \cup Siblings' = Q \cup Siblings
         /\ Running' = Running /\ Done' = Done /\ Crashed' = Crashed
         /\ UNCHANGED <<children_unf_set, dropped>>
<1>1. children_unf_set' = children_unf_set
  BY DEF Pushed, treeVars
<1>. QED
  BY <1>1, PushedSets, CrashedStays DEF WorkersInv
=============================================================================
