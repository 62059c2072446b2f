----------------------------- MODULE RFSCDriver -----------------------------
(***************************************************************************)
(* The worker loop of DPORDriver::run_rfsc_parallel and the parts of       *)
(* RFSCTraceBuilder and DecisionNode that workers share.  The work queue   *)
(* is not here: RFSCPriorityQueue and RFSCWorkStealing extend this module  *)
(* with one RFSCScheduler each and conjoin their own steps to these.       *)
(*                                                                         *)
(* A decision node is identified by the unfolding nodes chosen on the way  *)
(* to it: the root is <<>> (depth -1) and Append(p, u) is the child of p   *)
(* for unfolding node u.  What running a work item finds is a function of  *)
(* the program under test and of the item, so it is a parameter (Ext, Alt, *)
(* Sat, Outcome, Layout, Executed).                                        *)
(***************************************************************************)
EXTENDS Integers, Sequences, FiniteSets

CONSTANTS
  Worker,     \* the threads of run_rfsc_parallel, the calling thread included
  NoWorker,   \* no thread holds the mutex
  Unf,        \* the unfolding nodes
  Node,       \* the decision nodes
  Ext,        \* Ext[n]: decisions the run of n makes at loads past the replay
  Alt,        \* Alt[n]: siblings the run of n considers in compute_prefixes
  Sat,        \* the nodes for which try_sat finds a prefix to replay
  Outcome,    \* Outcome[n]: "ok", "assume" (blocked) or "error"
  Layout,     \* Layout[n][i+1]: decision depth of the i-th replayed event, or -1
  Executed,   \* Executed[n]: number of events run before the error aborts
  KeepGoing   \* Configuration::explore_all_traces (option --keep-going)

Root == << >>
Depth(n) == Len(n) - 1
Parent(n) == SubSeq(n, 1, Len(n) - 1)
\* The decision nodes from the child of the root down to n itself.
Ancestors(n) == {SubSeq(n, 1, k) : k \in 1 .. Len(n)}
\* The deepest decision of the run of n, and the nodes that run adds.
Path(n) == n \o Ext[n]
NewNodes(n) == Ancestors(Path(n)) \ Ancestors(n)

ASSUME WorkerAssumption ==
  /\ IsFiniteSet(Worker)
  /\ Worker # {}
  /\ NoWorker \notin Worker

\* An alternative is a sibling of a decision of the run.
ASSUME TreeAssumption ==
  /\ Root \in Node
  /\ \A n \in Node : n \in Seq(Unf)
  /\ \A n \in Node : Ancestors(n) \subseteq Node
  /\ \A n \in Node : Ext[n] \in Seq(Unf) /\ Path(n) \in Node
  /\ \A n \in Node : Alt[n] \subseteq Node \ {Root}
  /\ \A n \in Node : \A a \in Alt[n] :
       Parent(a) = Root \/ Parent(a) \in Ancestors(Path(n))
  /\ \A n \in Node : Outcome[n] \in {"ok", "assume", "error"}
  /\ KeepGoing \in BOOLEAN

VARIABLES
  pc,               \* where each worker is in the loop of run_rfsc_parallel
  work_item,        \* the item each worker was given (Root when it has none)
  todo,             \* siblings the worker's compute_prefixes has still to try
  sibling,          \* the sibling the worker is enqueuing (Root when none)
  children_unf_set, \* n is in it iff n's unfolding node is in its parent's set
  pruned_subtree,   \* nodes whose pruned_subtree flag is set
  outstanding_jobs, \* RFSCScheduler::outstanding_jobs
  state_mutex,      \* holder of state.mutex
  res,              \* the shared Result
  runs,             \* history: how often each node was run to the end
  cancelled,        \* history: nodes whose run was cut short by cancel_replay
  dropped           \* history: pruned items thrown away by reset

treeVars == <<children_unf_set, pruned_subtree>>
resultVars == <<outstanding_jobs, state_mutex, res>>
historyVars == <<runs, cancelled, dropped>>
driverVars == <<pc, work_item, todo, sibling, treeVars, resultVars, historyVars>>

Goto(w, l) == pc' = [pc EXCEPT ![w] = l]

\* The root node is enqueued by the constructor of RFSCDecisionTree.
DriverInit ==
  /\ pc = [w \in Worker |-> "dequeue"]
  /\ work_item = [w \in Worker |-> Root]
  /\ todo = [w \in Worker |-> {}]
  /\ sibling = [w \in Worker |-> Root]
  /\ children_unf_set = {}
  /\ pruned_subtree = {}
  /\ outstanding_jobs = 1
  /\ state_mutex = NoWorker
  /\ res = [trace_count |-> 0, assume_blocked_trace_count |-> 0, error_trace |-> FALSE]
  /\ runs = [n \in Node |-> 0]
  /\ cancelled = {}
  /\ dropped = {}

-----------------------------------------------------------------------------
(* RFSCTraceBuilder::reset once the scheduler has returned.                *)

\* dequeue() returned n.
GotWork(w, n) ==
  /\ Goto(w, "check_pruned")
  /\ work_item' = [work_item EXCEPT ![w] = n]
  /\ UNCHANGED <<todo, sibling, treeVars, resultVars, historyVars>>

\* dequeue() returned nullptr: reset() is false and the thread function ends.
GotNull(w) ==
  /\ Goto(w, "exit")
  /\ UNCHANGED <<work_item, todo, sibling, treeVars, resultVars, historyVars>>

\* DecisionNode::is_pruned.  The flags are only ever set, so reading them one
\* by one is as good as reading them at once.
IsPruned(n) == Ancestors(n) \cap pruned_subtree # {}

\* The loop of reset: a pruned item is dropped and the next one dequeued.
SkipPruned(w) ==
  /\ pc[w] = "check_pruned"
  /\ IsPruned(work_item[w])
  /\ Goto(w, "dequeue")
  /\ dropped' = dropped \cup {work_item[w]}
  /\ work_item' = [work_item EXCEPT ![w] = Root]
  /\ UNCHANGED <<todo, sibling, treeVars, resultVars, runs, cancelled>>

StartReplay(w) ==
  /\ pc[w] = "check_pruned"
  /\ ~ IsPruned(work_item[w])
  /\ Goto(w, "run")
  /\ UNCHANGED <<work_item, todo, sibling, treeVars, resultVars, historyVars>>

-----------------------------------------------------------------------------
(* run_once and cancel_replay.                                             *)

\* Decision depth of the event at index i of the trace when an error aborts
\* it: loads past the replay have no decision yet.
DepthAt(n, i) == IF i < Len(Layout[n]) THEN Layout[n][i + 1] ELSE -1

\* The deepest decision among the events executed, -1 if there is none.
Blame(n) ==
  CHOOSE d \in {DepthAt(n, i) : i \in 0 .. Executed[n] - 1} \cup {-1} :
    \A i \in 0 .. Executed[n] - 1 : DepthAt(n, i) <= d

\* prefix[blame].decision_ptr: blame, a depth, indexes the trace.
PrunedByCancel(n) ==
  IF Blame(n) = -1 THEN {}
  ELSE {SubSeq(n, 1, DepthAt(n, Blame(n)) + 1)}

\* The index may name an event without a decision, whose pointer is null.
NullDereference(n) ==
  /\ Outcome[n] = "error"
  /\ Blame(n) # -1
  /\ DepthAt(n, Blame(n)) = -1

\* run_once: an error calls Interpreter::abort and with it cancel_replay.
RunOnce(w) ==
  /\ pc[w] = "run"
  /\ LET n == work_item[w] IN
     /\ ~ NullDereference(n)
     /\ IF Outcome[n] = "error"
        THEN /\ pruned_subtree' = pruned_subtree \cup PrunedByCancel(n)
             /\ cancelled' = cancelled \cup {n}
        ELSE UNCHANGED <<pruned_subtree, cancelled>>
  /\ Goto(w, "unfold")
  /\ UNCHANGED <<work_item, todo, sibling, children_unf_set, resultVars, runs, dropped>>

\* A store through a null decision_ptr kills the whole process: no worker
\* takes another step.
Crash(w) ==
  /\ pc[w] = "run"
  /\ NullDereference(work_item[w])
  /\ Goto(w, "crashed")
  /\ cancelled' = cancelled \cup {work_item[w]}
  /\ UNCHANGED <<work_item, todo, sibling, treeVars, resultVars, runs, dropped>>

-----------------------------------------------------------------------------
(* compute_prefixes.                                                       *)

\* compute_unfolding: one new decision node per load past the replay, each
\* registered by alloc_unf.  Only this worker can reach the new nodes yet.
ComputeUnfolding(w) ==
  /\ pc[w] = "unfold"
  /\ children_unf_set' = children_unf_set \cup NewNodes(work_item[w])
  /\ todo' = [todo EXCEPT ![w] = Alt[work_item[w]]]
  /\ Goto(w, "neighbours")
  /\ UNCHANGED <<work_item, sibling, pruned_subtree, resultVars, historyVars>>

\* Faulty variant of IsNew: the answer of try_alloc_unf is ignored.
AlwaysNew(a) == TRUE

\* What try_alloc_unf returns.
IsNew(a) == a \notin children_unf_set

\* One alternative: try_alloc_unf, the vector clock test and try_sat.
TryAlternative(w, a) ==
  /\ pc[w] = "neighbours"
  /\ a \in todo[w]
  /\ todo' = [todo EXCEPT ![w] = @ \ {a}]
  /\ children_unf_set' = children_unf_set \cup {a}
  /\ IF IsNew(a) /\ a \in Sat
     THEN /\ sibling' = [sibling EXCEPT ![w] = a]
          /\ Goto(w, "enqueue")
     ELSE UNCHANGED <<sibling, pc>>
  /\ UNCHANGED <<work_item, pruned_subtree, resultVars, historyVars>>

\* Faulty variant of CountJob: enqueue does not count.
CountNothing(w) ==
  /\ pc[w] = "enqueue"
  /\ Goto(w, "push")
  /\ UNCHANGED <<work_item, todo, sibling, treeVars, resultVars, historyVars>>

\* construct_sibling: enqueue first increments outstanding_jobs, unlocked.
CountJob(w) ==
  /\ pc[w] = "enqueue"
  /\ outstanding_jobs' = outstanding_jobs + 1
  /\ Goto(w, "push")
  /\ UNCHANGED <<work_item, todo, sibling, treeVars, state_mutex, res, historyVars>>

\* The scheduler has taken the sibling over.
Pushed(w) ==
  /\ pc[w] = "push"
  /\ Goto(w, "neighbours")
  /\ sibling' = [sibling EXCEPT ![w] = Root]
  /\ UNCHANGED <<work_item, todo, treeVars, resultVars, historyVars>>

-----------------------------------------------------------------------------
(* The end of the loop body, under state.mutex.                            *)

LockState(w) ==
  /\ pc[w] = "neighbours"
  /\ todo[w] = {}
  /\ state_mutex = NoWorker
  /\ state_mutex' = w
  /\ Goto(w, "account")
  /\ UNCHANGED <<work_item, todo, sibling, treeVars, outstanding_jobs, res, historyVars>>

\* DPORDriver::handle_trace: the result after counting a trace of outcome o.
\* RFSCTraceBuilder::sleepset_is_empty always holds.
HandleTrace(o) ==
  [trace_count |-> res.trace_count + (IF o = "assume" THEN 0 ELSE 1),
   assume_blocked_trace_count |->
     res.assume_blocked_trace_count + (IF o = "assume" THEN 1 ELSE 0),
   error_trace |-> res.error_trace \/ o = "error"]

\* Faulty variants of MustHalt: the last job but one ends the exploration, and
\* the answer of handle_trace is ignored.
HaltEarly(o, remain) == (o = "error" /\ ~ KeepGoing) \/ remain <= 1
HaltOnlyWhenDone(o, remain) == remain = 0

\* Whether a trace of outcome o, after which remain jobs are left, is the last.
MustHalt(o, remain) == (o = "error" /\ ~ KeepGoing) \/ remain = 0

\* Faulty variant of Account: only a complete trace without an error is accounted
\* for.
AccountComplete(w) ==
  /\ pc[w] = "account"
  /\ LET n == work_item[w]
         remain == IF Outcome[n] = "ok" THEN outstanding_jobs - 1 ELSE outstanding_jobs
     IN
     /\ outstanding_jobs' = remain
     /\ res' = HandleTrace(Outcome[n])
     /\ runs' = [runs EXCEPT ![n] = @ + 1]
     /\ Goto(w, IF MustHalt(Outcome[n], remain) THEN "halt" ELSE "unlock")
  /\ work_item' = [work_item EXCEPT ![w] = Root]
  /\ UNCHANGED <<todo, sibling, treeVars, state_mutex, cancelled, dropped>>

\* fetch_sub and handle_trace; whether the worker goes on to halt().
Account(w) ==
  /\ pc[w] = "account"
  /\ LET n == work_item[w] IN
     /\ outstanding_jobs' = outstanding_jobs - 1
     /\ res' = HandleTrace(Outcome[n])
     /\ runs' = [runs EXCEPT ![n] = @ + 1]
     /\ Goto(w, IF MustHalt(Outcome[n], outstanding_jobs - 1) THEN "halt" ELSE "unlock")
  /\ work_item' = [work_item EXCEPT ![w] = Root]
  /\ UNCHANGED <<todo, sibling, treeVars, state_mutex, cancelled, dropped>>

\* sched.halt() has returned.
Halted(w) ==
  /\ pc[w] = "halt"
  /\ Goto(w, "unlock")
  /\ UNCHANGED <<work_item, todo, sibling, treeVars, resultVars, historyVars>>

UnlockState(w) ==
  /\ pc[w] = "unlock"
  /\ state_mutex' = NoWorker
  /\ Goto(w, "dequeue")
  /\ UNCHANGED <<work_item, todo, sibling, treeVars, outstanding_jobs, res, historyVars>>

\* A trace is run and its alternatives are looked for.
Explore(w) ==
  \/ RunOnce(w)
  \/ Crash(w)
  \/ ComputeUnfolding(w)
  \/ \E a \in todo[w] : TryAlternative(w, a)
  \/ CountJob(w)

\* The steps that do not involve the scheduler's own state.
DriverStep(w) ==
  \/ SkipPruned(w)
  \/ StartReplay(w)
  \/ Explore(w)
  \/ LockState(w)
  \/ Account(w)
  \/ UnlockState(w)

-----------------------------------------------------------------------------
(* What the properties of both schedulers are about.                       *)

DriverPC == {"dequeue", "check_pruned", "run", "unfold", "neighbours",
              "enqueue", "push", "account", "halt", "unlock", "exit", "crashed"}

DriverTypeOK(PC) ==
  /\ pc \in [Worker -> PC]
  /\ work_item \in [Worker -> Node]
  /\ todo \in [Worker -> SUBSET Node]
  /\ sibling \in [Worker -> Node]
  /\ children_unf_set \subseteq Node
  /\ outstanding_jobs \in Int
  /\ state_mutex \in Worker \cup {NoWorker}
  /\ res \in [trace_count : Nat, assume_blocked_trace_count : Nat, error_trace : BOOLEAN]
  /\ runs \in [Node -> Nat]
  /\ cancelled \subseteq Node
  /\ dropped \subseteq Node

\* A worker holds an item that is still to be run, or one that was run but is
\* not accounted for.
Starting(w) == pc[w] \in {"check_pruned", "run", "unfold", "crashed"}
Unfolded(w) == pc[w] \in {"neighbours", "enqueue", "push", "account"}
Busy(w) == Starting(w) \/ Unfolded(w)
Enqueuing(w) == pc[w] \in {"enqueue", "push"}

Running == {work_item[w] : w \in {v \in Worker : Busy(v)}}
Siblings == {sibling[w] : w \in {v \in Worker : Enqueuing(v)}}
Pushing == {sibling[w] : w \in {v \in Worker : pc[v] = "push"}}
Done == {n \in Node : runs[n] > 0}
OnPath == UNION {Ancestors(Path(n)) : n \in Done}

\* The jobs that are counted and not yet accounted for, Q being the queued ones.
JobsOf(Q) == Q \cup Running \cup dropped \cup Pushing

Crashed == \E w \in Worker : pc[w] = "crashed"
Terminated == Crashed \/ \A w \in Worker : pc[w] = "exit"

\* Every trace that the finished runs call for is explored: the first run, and
\* for each realisable alternative to a decision of a finished run either a
\* finished run of its own or one that made that decision.
Complete ==
  /\ Root \in Done
  /\ \A n \in Done : Alt[n] \cap Sat \subseteq Done \cup OnPath

\* alloc_unf asserts that the decision of a new node was not allocated before,
\* by this or any other worker.
AllocFresh ==
  \A w \in Worker :
    pc[w] = "unfold" => NewNodes(work_item[w]) \cap children_unf_set = {}

\* No trace is explored twice: a node is run to the end at most once, and never
\* by two workers at a time or again after it was run.
ExploredOnce ==
  /\ \A n \in Node : runs[n] <= 1
  /\ \A w \in Worker : Busy(w) => runs[work_item[w]] = 0
  /\ \A v, w \in Worker : v # w /\ Busy(v) /\ Busy(w) => work_item[v] # work_item[w]
=============================================================================
