--------------------------- MODULE RFSCSequential ----------------------------
(***************************************************************************)
(* DPORDriver::run_rfsc_sequential: one thread, the same trace builder and *)
(* queue, and a loop that counts the work left itself, in tasks_left, from *)
(* what the builder says it created.                                       *)
(***************************************************************************)
EXTENDS RFSCPriorityQueue

VARIABLES
  tasks_created,  \* RFSCTraceBuilder::tasks_created
  tasks_left      \* the local variable of the loop

taskVars == <<tasks_created, tasks_left>>
seqVars == <<vars, taskVars>>

ASSUME OneThread == \E w \in Worker : Worker = {w}

SeqInit ==
  /\ Init
  /\ tasks_created = 0
  /\ tasks_left = 1

\* The loop of reset takes a dropped item off tasks_created ...
SeqSkipPruned(w) ==
  /\ SkipPruned(w)
  /\ tasks_created' = tasks_created - 1
  /\ UNCHANGED <<schedVars, tasks_left>>

\* ... which the end of reset sets to zero.
SeqStartReplay(w) ==
  /\ StartReplay(w)
  /\ tasks_created' = 0
  /\ UNCHANGED <<schedVars, tasks_left>>

\* The builder's own steps.
SeqExplore(w) == Explore(w) /\ UNCHANGED <<schedVars, taskVars>>

\* construct_sibling and then tasks_created++.
SeqPush(w) ==
  /\ Push(w)
  /\ tasks_created' = tasks_created + 1
  /\ UNCHANGED tasks_left

\* A dequeue that finds nothing waits for a notification, and there is nobody
\* else to give one.
SeqDequeue(w) ==
  /\ Dequeue(w) \/ Wait(w)
  /\ UNCHANGED taskVars

\* Faulty variant of TasksAfter: the finished task is not taken off.
TasksAdded == tasks_left + tasks_created

\* tasks_left at the end of an iteration.
TasksAfter == tasks_left - 1 + tasks_created

\* The end of the loop's body; outstanding_jobs is only ever incremented here.
SeqAccount(w) ==
  /\ pc[w] = "neighbours"
  /\ todo[w] = {}
  /\ LET n == work_item[w] IN
     /\ tasks_left' = TasksAfter
     /\ res' = HandleTrace(Outcome[n])
     /\ runs' = [runs EXCEPT ![n] = @ + 1]
     /\ Goto(w, IF MustHalt(Outcome[n], TasksAfter) THEN "exit" ELSE "dequeue")
  /\ work_item' = [work_item EXCEPT ![w] = Root]
  /\ UNCHANGED <<todo, sibling, treeVars, outstanding_jobs, state_mutex, cancelled, dropped,
                 schedVars, tasks_created>>

SeqStep(w) ==
  /\ ~ Crashed
  /\ \/ SeqSkipPruned(w)
     \/ SeqStartReplay(w)
     \/ SeqExplore(w)
     \/ SeqPush(w)
     \/ SeqDequeue(w)
     \/ SeqAccount(w)

SeqSpuriousWakeup(w) == SpuriousWakeup(w) /\ UNCHANGED taskVars

SeqNext ==
  \/ \E w \in Worker : SeqStep(w) \/ SeqSpuriousWakeup(w)
  \/ Terminated /\ UNCHANGED seqVars

SeqSpec == SeqInit /\ [][SeqNext]_seqVars

\* The only thread runs until it blocks.
SeqFairSpec == SeqSpec /\ \A w \in Worker : WF_seqVars(SeqStep(w))

-----------------------------------------------------------------------------
\* Between two iterations tasks_left is the number of items in the queue, and
\* while a trace is explored it makes up for those pushed since, as long as no
\* item was pruned.
TasksExact ==
  dropped = {} =>
    \A w \in Worker :
      IF pc[w] = "dequeue" \/ pc[w] = "exit"
      THEN tasks_left = Cardinality(work_queue)
      ELSE Busy(w) /\ pc[w] \notin {"check_pruned", "crashed"}
             => tasks_left + tasks_created = Cardinality(work_queue) + 1

\* The loop ends only for an error or when everything called for was explored.
SeqComplete ==
  \A w \in Worker : pc[w] = "exit" =>
    \/ res.error_trace /\ ~ KeepGoing
    \/ work_queue = {} /\ Complete

\* The loop ends if no item is ever dropped: tasks_left does reach zero.
SeqEndsUnlessDropped == <>(Terminated \/ dropped # {})
=============================================================================
