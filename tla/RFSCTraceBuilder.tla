--------------------------- MODULE RFSCTraceBuilder ---------------------------
(* The reads-from exploration of src/src/RFSCTraceBuilder.cpp, with one or    *)
(* more workers (run_rfsc_sequential, run_rfsc_parallel).  A worker takes a   *)
(* leaf off the queue, runs the execution it prescribes, and tries all that   *)
(* could have gone another way in it; each attempt that can be made is a new  *)
(* leaf.  What the workers share is the decision tree, with the graphs cached *)
(* in it, the unfolding and the queue.                                        *)
(*                                                                            *)
(* A decision node is the path of unfolding nodes that leads to it; <<>> is   *)
(* the root.  A setup has the program, the number of workers and whether the  *)
(* prefix heuristic is used (--no-heuristic).                                 *)
EXTENDS ExecutionClasses, RFSCPrefixes

VARIABLES
  wk,      \* per worker where it is and what it holds
  tasks,   \* the work queue, oldest first
  jobs,    \* outstanding_jobs (tasks_left in run_rfsc_sequential)
  unf,     \* the unfolding nodes
  known,   \* the decisions that were allocated (children_unf_set)
  cache,   \* per decision node its saturated graph, if initialised
  broken   \* the assertions that failed

rfscVars == <<wk, tasks, jobs, unf, known, cache, broken>>

Workers == DOMAIN wk

Idle == [pc |-> "idle"]
RootTask == [work |-> <<>>, leaf |-> <<>>]

RFSCIdle ==
  /\ wk = <<>> /\ tasks = <<>> /\ jobs = 0 /\ unf = <<>> /\ known = {}
  /\ cache = <<>> /\ broken = {}

(* The first task replays nothing.  The root's graph is empty.                *)
RFSCInit ==
  /\ pc = "rfsc"
  /\ wk = [w \in 1 .. setup.workers |-> Idle]
  /\ tasks = <<RootTask>>
  /\ jobs = 1
  /\ unf = <<>> /\ known = {}
  /\ cache = (<<>> :> EmptyGraph(Len(setup.prog.code)))
  /\ broken = {}

(* The queue gives out a node of greatest depth.                              *)
NextTask ==
  Min({n \in DOMAIN tasks : \A k \in DOMAIN tasks : Len(tasks[k].work) <= Len(tasks[n].work)})

(* reset() and run_once(): replay the leaf and run on to the end.             *)
RunLeaf(w) ==
  /\ wk[w].pc = "idle" /\ tasks # <<>>
  /\ \E task \in {tasks[NextTask]} :
     \E r \in {RunExecution(setup.prog, ReplayPrefix(task.work, task.leaf))} :
       /\ wk' = [wk EXCEPT ![w] = [pc |-> "unfold", task |-> task, x |-> r.x, m |-> r.m]]
       /\ broken' = broken \cup r.x.broken
  /\ tasks' = RemoveAt(tasks, NextTask)
  /\ UNCHANGED <<pc, traces, jobs, unf, known, cache>>

(* compute_vclocks() and compute_unfolding().                                 *)
UnfoldTrace(w) ==
  /\ wk[w].pc = "unfold" /\ ~wk[w].x.error
  /\ \E r \in {ComputeUnfolding1(wk[w].x, wk[w].task.work, unf, known)} :
     \E clocks \in {XClocks(r.x)} :
       /\ unf' = r.unf
       /\ known' = r.known
       /\ wk' = [wk EXCEPT ![w] = [pc |-> "try", log |-> @.m.log, x |-> r.x,
                                   vc |-> clocks, todo |-> Attempts(r.x, clocks)]]
       /\ broken' = broken \cup r.x.broken
  /\ UNCHANGED <<pc, traces, tasks, jobs, cache>>

(* The attempt a worker is at, the decision it is about, the node all         *)
(* alternatives to that are children of, and the execution with the attempt   *)
(* made in it.                                                                *)
Trying(w) == Head(wk[w].todo)
Decision(w) == wk[w].x.prefix[Trying(w).i].node
ParentNode(w) == Front(Decision(w))
Altered1(w) == [wk[w].x EXCEPT !.prefix = Altered(wk[w].x, Trying(w))]

(* The mutex of a node is held while its graph is built.                      *)
NodeLocked(node) == \E w \in Workers : wk[w].pc = "build" /\ ParentNode(w) = node

GiveUp(w) == [wk EXCEPT ![w].todo = Tail(@), ![w].pc = "try"]

(* try_alloc_unf: only who allocates the alternative goes on with it.         *)
TryAlloc(w) ==
  /\ wk[w].pc = "try" /\ wk[w].todo # <<>> /\ ~NodeLocked(ParentNode(w))
  /\ LET a   == Trying(w)
         new == IF a.kind = "read" THEN {} ELSE {AlternativeNode(wk[w].x, unf, a)}
         u   == IF a.kind = "read" THEN UnfOf(wk[w].x.prefix, a.j)
                ELSE FindUnf(unf, AlternativeNode(wk[w].x, unf, a))
         alt == Append(ParentNode(w), u)
         go  == alt \notin known /\ AllowedByClocks(wk[w].x, wk[w].vc, a)
     IN  /\ unf' = FoldSet(LAMBDA n, acc : WithUnf(acc, n), unf, new)
         /\ known' = known \cup {alt}
         /\ wk' = IF go THEN [wk EXCEPT ![w] = [alt |-> alt] @@ [@ EXCEPT !.pc = "graph"]]
                  ELSE GiveUp(w)
         /\ broken' = IF alt \notin known /\ a.kind = "read" /\ a.j # 0
                         /\ HappensBefore1(wk[w].x.prefix[a.i], wk[w].vc.clock[a.j])
                      THEN broken \cup {"no read from what comes after"} ELSE broken
  /\ UNCHANGED <<pc, traces, tasks, jobs, cache>>

(* The nearest ancestor whose graph is initialised when the worker looks.     *)
Nearest(node) ==
  SubSeq(node, 1, Max({n \in 0 .. Len(node) : SubSeq(node, 1, n) \in DOMAIN cache}))

(* get_saturated_graph: take the node's mutex and an ancestor's graph, which  *)
(* may be that of a grandparent while another worker builds the parent's ...  *)
BeginGraph(w) ==
  /\ wk[w].pc = "graph"
  /\ ParentNode(w) \notin DOMAIN cache /\ ~NodeLocked(ParentNode(w))
  /\ wk' = [wk EXCEPT ![w] = [base |-> cache[Nearest(ParentNode(w))]]
                             @@ [@ EXCEPT !.pc = "build"]]
  /\ UNCHANGED <<pc, traces, tasks, jobs, unf, known, cache, broken>>

(* ... and add what is missing.                                               *)
EndGraph(w) ==
  /\ wk[w].pc = "build"
  /\ \E g \in {BuildGraph(wk[w].base, Altered1(w), Len(ParentNode(w)))} :
       /\ cache' = (ParentNode(w) :> g) @@ cache
       /\ broken' = broken \cup g.broken
                    \cup (IF g.cyclic THEN {"a cached graph is acyclic"} ELSE {})
  /\ wk' = [wk EXCEPT ![w].pc = "graph"]
  /\ UNCHANGED <<pc, traces, tasks, jobs, unf, known>>

(* try_sat and construct_sibling.                                             *)
Solve(w) ==
  /\ wk[w].pc = "graph" /\ ParentNode(w) \in DOMAIN cache
  /\ \E leaf \in {TrySat(Altered1(w), Changed(wk[w].x, Trying(w)), cache[ParentNode(w)],
                         DOMAIN wk[w].x.prefix, setup.heuristic)} :
       IF leaf = <<>> THEN UNCHANGED <<tasks, jobs>>
       ELSE /\ tasks' = Append(tasks, [work |-> wk[w].alt, leaf |-> leaf])
            /\ jobs' = jobs + 1
  /\ wk' = GiveUp(w)
  /\ broken' = IF DecisionsAreLoads(Altered1(w)) THEN broken
               ELSE broken \cup {"decisions are loads"}
  /\ UNCHANGED <<pc, traces, unf, known, cache>>

(* handle_trace, and the end when no job is left.                             *)
FinishTask(w) ==
  /\ wk[w].pc = "try" /\ wk[w].todo = <<>>
  /\ traces' = Append(traces, [log |-> wk[w].log, blocked |-> FALSE])
  /\ jobs' = jobs - 1
  /\ pc' = IF jobs = 1 THEN "done" ELSE pc
  /\ wk' = [wk EXCEPT ![w] = Idle]
  /\ UNCHANGED <<tasks, unf, known, cache, broken>>

RFSCNext ==
  \E w \in Workers :
    \/ RunLeaf(w) \/ UnfoldTrace(w) \/ TryAlloc(w) \/ BeginGraph(w)
    \/ EndGraph(w) \/ Solve(w) \/ FinishTask(w)

(* -------------------------------- properties ------------------------------ *)

(***************************************************************************)
(* The replay of a leaf does what try_sat planned: every prescribed event  *)
(* can run, has the same effect as in the execution it was taken from      *)
(* (RFSCTraceBuilder::record_symbolic), and reads from the event it was    *)
(* meant to, changed reads included.                                       *)
(***************************************************************************)
ReplayTrue ==
  \A w \in Workers :
    wk[w].pc = "unfold" =>
      LET x == wk[w].x
          leaf == wk[w].task.leaf
      IN  /\ ~x.error
          /\ \A n \in DOMAIN leaf \cap DOMAIN x.prefix :
               leaf[n].reads = IF x.prefix[n].rf <= 0 THEN <<>> ELSE Iid(x, x.prefix[n].rf)

(* What a saturated graph says: its events, whom they read from, and what is  *)
(* known to come before each.                                                 *)
Facts(g) ==
  {[ev |-> [f \in {"iid", "load", "store", "addr"} |-> g.ev[id][f]],
    rf |-> IF g.ev[id].rf = 0 THEN <<>> ELSE g.ev[g.ev[id].rf].iid,
    clock |-> g.vclocks[id]] : id \in GIds(g)}

(***************************************************************************)
(* The graph an attempt starts from is the one it would build itself: what *)
(* another execution, or another worker that found only a grandparent's    *)
(* graph, has left in the cache (DecisionNode::get_saturated_graph) gives  *)
(* the same verdict and the same clocks as saturating from nothing.        *)
(***************************************************************************)
CacheExact ==
  \A w \in Workers :
    wk[w].pc = "graph" /\ ParentNode(w) \in DOMAIN cache =>
      LET x == Altered1(w)
          last == Last(Changed(wk[w].x, Trying(w)))
          keep == CausalPast(x, Len(ParentNode(w)))
          g == AttemptGraph(cache[ParentNode(w)], x, keep, last)
          h == AttemptGraph(EmptyGraph(Len(setup.prog.code)), x, keep, last)
      IN  /\ g.cyclic = h.cyclic
          /\ g.broken = {} /\ h.broken = {}
          /\ ~g.cyclic => Facts(g) = Facts(h)
===============================================================================
