# A verification development for the parallel explorer of ViEqui

The repository is a stateless model checker for C/LLVM programs: Nidhugg, with
a view-equivalence explorer (ViEqui) added and its reads-from explorer (RFSC)
parallelised. This directory holds TLA+ models of its core, the TLC
configurations that check them, and theorems about them checked by TLAPS. All
source paths below are relative to `src/src/` of the repository's copy here
(`src/` of the repository itself).

## 1. The system

| Component | State | Operations | Talks to |
|---|---|---|---|
| Driver (`DPORDriver.cpp`) | result, `state.mutex`, per-thread trace builder | `run`, `run_once`, `handle_trace`, `run_rfsc_parallel`, `run_rfsc_sequential` | every trace builder; scheduler's `outstanding_jobs`, `halt` |
| Schedulers (`RFSCDecisionTree.{h,cpp}`) | work queue(s), `halting`, mutexes, condition variable, `outstanding_jobs` | `enqueue`, `dequeue`, `halt`, `steal` | called by builders (enqueue, dequeue) and the driver (halt) |
| Decision tree (same files) | per node: `children_unf_set`, `pruned_subtree`, `graph_cache`, one mutex | `try_alloc_unf`, `alloc_unf`, `make_sibling`, `prune_decisions`, `is_pruned`, `get_saturated_graph` | shared by all builders |
| RFSC trace builder (`RFSCTraceBuilder.cpp`) | the trace (`prefix`), replay position, `work_item`, `tasks_created` | `reset`, `schedule`, `cancel_replay`, `compute_unfolding`, `compute_prefixes`, `try_sat` | decision tree, unfolding tree, saturated graph, SAT solver |
| Unfolding tree (`RFSCUnfoldingTree.cpp`) | weak pointers from parents to children, one mutex per node | `find_unfolding_node` | shared by all builders |
| Saturated graph, prefix heuristic | a graph of events | `add_event`, `saturate`, `try_generate_prefix` | trace builder |
| ViewEq trace builder (`ViewEqTraceBuilder.cpp`, chosen with `--view`) | states, leads, enabled events, memory, forbidden values | `schedule`, `compute_new_leads`, forward and backward analysis, `consistent_union`, `reset` | `SOPFormula`, driver |
| Forbidden-value formulas (`SOPFormula.cpp`) | a sum of products | or, and, `reduce`, `check_evaluation` | ViewEq builder |
| TSO trace builder (`TSOTraceBuilder.cpp`, the default, for SC and TSO) | the trace with a wakeup tree below it, sleep sets, last accesses per byte and pthread object | `schedule`, `refuse_schedule`, one registration method per kind of access, `compute_vclocks`, `do_race_detect`, `reset` | wakeup trees, symbolic events, vector clocks; driven by the interpreter |
| PSO trace builder (`PSOTraceBuilder.cpp`, chosen with `--pso`) | the trace with branches beside its events, clocks, sleep sets, a store buffer per byte | as the TSO builder, with `see_events` and `add_branch` while the execution runs | the interpreter for PSO |
| Interpreter (`Execution.cpp`, `TSOInterpreter.cpp`, `PSOInterpreter.cpp`) | stacks, store buffers, mutexes, condition variables | `run`, `checkRefuse`, `visit...`, `callPthread...`, `runAux` | trace builder: `schedule`, registration, `mark_available` |
| POWER/ARM trace builder (`POWERARMTraceBuilder.{tcc,_decl.h}`, chosen with `--power`, `--arm`) | fetched events with their relations, memory as coherence order and loads, the events to commit first (`prefix`), parameters and branches to try | `fetch`, `register_addr`, `register_data`, `fetch_ctrl`, `fetch_fence`, `schedule`, `commit`, `reset` | the interpreter for POWER |
| POWER interpreter (`POWERExecution.cpp`) | per thread the fetched instructions and their operands | `run`, `fetchAll`, `commitAllLocal`, `commit` | POWER/ARM trace builder |
| Passes, configuration, containers, printing | | | |

What makes each correct, and what is hard:

* **Driver and schedulers.** Every decision node is explored once; nothing that
  was found is forgotten; the exploration stops only when all is done or for an
  error; every thread returns. Hard because the job counter is changed outside
  every lock, workers sleep on a condition variable whose notifications may be
  lost, and a halt races with workers that are between two items.
* **Decision tree.** A sibling is allocated by one worker only, although many
  runs pass through the same node. The cached graph is built once, and says what
  a graph built from nothing would say, whichever ancestor's it started from.
* **RFSC builder.** Every way in which reads can be paired with writes, and
  locks with unlocks, is run, and none twice; the replay does what `try_sat`
  planned; an error prunes the decision to blame for it and no other.
* **Unfolding tree.** One live node per event, whoever asks.
* **Saturated graph.** A cycle is found if and only if the read-from choices
  force one; adding events after a saturation gives what adding them before
  would have.
* **ViewEq builder.** Every assignment of values to reads that an execution can
  produce is produced, and none twice; states, leads and formulas stay in step
  through backtracking.
* **SOPFormula.** The formula means what the sequence of operations on it says.
* **TSO builder.** Every execution of the program under SC or TSO is run, up to
  the order of independent events, and none twice; Optimal-DPOR never begins a
  run it cannot finish; the builder's assertions hold. Hard because a race is
  found at the end of one run and reversed in another, where threads sleep,
  store buffers are flushed by threads of their own, events have been merged
  and locks have been waited for without leaving an event.
* **PSO builder.** The same with a store buffer for each byte: a store may reach
  memory before an older one of its thread. Hard because a store of several
  bytes waits in several buffers and is flushed by the auxiliary thread of its
  first byte, and because branches are planned while the clocks are still
  growing.
* **POWER/ARM builder.** Every execution the axioms of the model allow is run,
  up to reads-from and coherence, once, and no other. Hard because events are
  committed out of program order while addresses and data of others are still
  unknown, so what precedes what is found one committed event at a time; a store
  may be committed after the load that should read it; and parameters with all
  their edges are kept from one execution to the next.
* **Interpreter.** A thread that was refused is made available again when what
  it waits for has happened.

Components and the hazards of the code are listed with their lines in
`PROJECT.json`.

## 2. The modules

```
Exploration                      what an exploration promises (abstract)
  Exploration_proofs
RFSCDriver                       worker loop, trace builder, decision tree
  RFSCDriver_proofs              lemmas: the driver's part of the invariant
    RFSCScheduler_proofs         lemmas: what every scheduler relies on
  RFSCPriorityQueue              + PriorityQueueScheduler  (implements Exploration)
    RFSCPriorityQueue_proofs
    RFSCSequential               run_rfsc_sequential on the same builder and queue
      RFSCSequential_proofs
  RFSCWorkStealing               + WorkstealingPQScheduler (implements Exploration)
    RFSCWorkStealing_proofs
SOPFormula                       which values a continuation may not read
ViewEqSequences                  orders of accesses and their merges
  ViewEqLeads (+ SOPFormula)     leads, how they compare, consistent_union
    ViewEqAnalysis               forward and backward analysis, backtracking
      ViewEqExploration          the explorer as a state machine
LLVMInstructions                 what the instructions of one thread compute
TSOMachine (+ LLVMInstructions)  threads, store buffers, memory, pthread objects
  PSOMachine                     the same with a store buffer for each byte
    Interpreter_proofs           run with the availability of threads; theorems
    ExecutionClasses (+ POWERReference)
                                 what an exploration has to run, and what it ran
  TSOWakeupTree                  symbolic events, conflicts, sleep sets, insertion
    TSORegistration              the builder's state; memory accesses, sleepers woken
      TSOPthreads                threads, mutexes, condition variables, choices
        TSOAnalysis              vector clocks, races, how they are reversed
          TSOTraceBuilder        (+ ExecutionClasses) the exploration, step by step
PSORegistration (+ TSOAnalysis, PSOMachine)
                                 the builder for PSO: accesses, pthread calls, races, sleepers
  PSOTraceBuilder                (+ TSOTraceBuilder) its exploration, step by step
RFSCGraph                        saturated graphs and the prefix heuristic
RFSCEvents (+ TSOMachine)        the reads-from builder while an execution runs
  RFSCPrefixes (+ RFSCGraph)     clocks, unfolding, what to try, try_sat
    RFSCTraceBuilder             (+ ExecutionClasses) the exploration by one or more workers
POWEREvents                      events of POWER and ARM as they are fetched
  POWERExecution (+ LLVMInstructions)
                                 the interpreter for POWER
    POWERReference               all executions the axioms allow, by brute force
  POWERParameters                how an event may be committed: the axioms, incrementally
    POWERTraceBuilder            (+ POWERExecution, TSOTraceBuilder) its exploration
DPORDriver                       (+ RFSC-, PSO-, POWERTraceBuilder) run: a builder for each setup
  RegressionTests                the tests of the five *_test2.cpp, and what they expect
MCRFSC                           the program under test used by the RFSC runs
MC...                            one per checked module
```

### RFSCDriver

A decision node is the sequence of unfolding nodes chosen on the way to it:
`<<>>` is the root (depth -1 in the code) and `Append(p, u)` a child of `p`.
What the run of a work item finds is determined by the program under test, so
it is a parameter: `Ext[n]` (the decisions made past the replay, whose nodes
`compute_unfolding` adds), `Alt[n]` (the siblings `compute_prefixes` considers),
`Sat` (those for which `try_sat` finds a prefix), `Outcome[n]` and, for
`cancel_replay`, `Layout[n]` and `Executed[n]`: which events of the replayed
trace carry which decision depth, and how many ran before the error.

| Definition | Code |
|---|---|
| `pc` | where a worker is in the lambda of `run_rfsc_parallel` |
| `GotWork`, `GotNull`, `SkipPruned`, `StartReplay` | `RFSCTraceBuilder::reset`: the dequeue loop and the start of the replay |
| `RunOnce`, `Crash` | `run_once`, with `Interpreter::abort` calling `cancel_replay` |
| `ComputeUnfolding` | `compute_unfolding`: new decision nodes, `alloc_unf` |
| `TryAlternative` | one call of `try_swap`, `try_swap_lock`, `try_swap_blocked`, `try_read_from` or `try_read_from_rmw`: `try_alloc_unf`, then `try_sat` |
| `CountJob`, `Pushed` | `construct_sibling`: the unlocked increment, then the locked push |
| `LockState`, `Account`, `Halted`, `UnlockState` | the end of the loop body under `state.mutex` |

Steps are as fine as the shared accesses: everything between two of them
commutes with the other workers. A run may try its alternatives in any order,
which contains the order of the code. Operators called "faulty variant" are not
part of the system: each is a plausible mistake in the definition that follows
it, kept to show that a property would notice.

### RFSCPriorityQueue

`work_queue` is a set (its elements are distinct pointers) from which a deepest
node is taken, `waiting` the threads inside `cv.wait`. Each critical section of
the scheduler's mutex is one step, since nothing else reads its state and
`cv.wait` releases the mutex atomically. Spurious wakeups are included.

### RFSCWorkStealing

Per worker a map from depth to deque, as in `ThreadWorkQueue`. The big mutex is
explicit because it is held across several steps; a worker's own mutex is held
for one step and is not. `halting` is a relaxed atomic: the fast path may still
read FALSE, so it may choose `FastPop` or `FastMiss` after `halt()`. The second
look of the slow path at the worker's own queue (`RFSCDecisionTree.cpp:106-108`)
never finds anything, since only the owner pushes and it is in `dequeue`; it is
the invariant `OwnerAwake` and no action.

### RFSCSequential

The one-threaded loop reuses the builder and the queue and keeps its own count,
`tasks_left`, from the builder's `tasks_created`. `outstanding_jobs` is
incremented by `enqueue` and never decremented here.

### Exploration

The promise behind both schedulers: nodes are pending, running, done or
dropped; what a finished run calls for is known; the exploration may stop for
an error or when nothing is left. `RFSCPriorityQueue!ImplementsExploration` and
`RFSCWorkStealing!ImplementsExploration` are the refinements (a sibling is
pending from the moment `try_sat` succeeded).

### ViewEqExploration and what it is built from

The view-equivalence explorer runs a program again and again. A *view* is what
the program's reads return; the explorer wants every view once. At each shared
access it either has *leads* (continuations to try) in its current state or
computes them, takes the first that is not done, and after a maximal trace
goes back to the deepest state with a lead left.

| Variable | Code |
|---|---|
| `program` | the program under test: threads of reads and writes of bytes, a write may add what its thread has read before; main stores 0 to every object and spawns the threads |
| `exec`, `prefixState`, `prefixIdx`, `replayPoint` | `execution_sequence`, `prefix_state`, `prefix_idx`, `replay_point` |
| `states` | `states`: per state its leads, `alpha` (the lead under way), `forbidden`, `mem`, `ei_leads` and the flags |
| `enabled`, `mem`, `ev` | `Enabled`, `mem`, `threads[..]`: rebuilt by every run |
| `toExplore`, `forbidden`, `currentState`, `alphaHead` | what is left of the lead, and where it began |
| `covered`, `ewLeads` | `covered_read_values`, `EW_leads` |
| `reversed` | which way the unordered containers are traversed |

| Action or operator | Code |
|---|---|
| `ReplayMemoryAccess`, `ReplayNonMemoryAccess`, `LeaveReplay`, `NonMemoryAccess`, `ExploreNew`, `ExploreAlpha`, `MaximalTrace` | the ways `schedule` returns; the interpreter's call of `load`, `atomic_store` or `spawn` for the thread's next access is part of the step |
| `Reset` | `record_redundant`, `find_replay_state_prefix` and the rest of `reset` |
| `ForwardAnalysis`, `BackwardAnalysisRead`, `BackwardAnalysisWrite` (`ViewEqAnalysis`) | the leads in which a read returns the value in memory, that of an enabled write, that of an earlier write, or an earlier read that of this write |
| `UnionStateStart`, `AddEWLeads`, `FinishUpState` | where those leads go, and which of them wait |
| `ConsistentUnion` (`ViewEqLeads`) | `consistent_union`: drop, replace, forward to a later state, or add |
| `ConsistentMerge`, `Join`, `JoinPrefix`, `ViewAdjust`, `CausalPrefix`, `BackSeq` (`ViewEqSequences`) | the functions of the same names |
| `Or`, `And`, `Reduce`, `Forbids` (`SOPFormula`) | `operator||`, `operator&&`, `reduce`, `check_evaluation` |

Everything the explorer does between two accesses is deterministic except for
the traversal of `unordered_map` and `unordered_set`, of which the model has
two orders, insertion order and its reverse, chosen once for a whole
exploration. The lists of leads keep the code's order. What the code reads of
an event it never filled in (`backseq` on an `EventSequence`,
`ViewEqTraceBuilder.cpp:1629`) has a defined value, "neither read nor write",
and is modelled as that.

The fragment has no read-modify-writes, joins, branches or assertions; main
does nothing after its spawns. Only the paths these would take are left out.

### LLVMInstructions

What an instruction makes of its operands is the same in both interpreters
(`Execution.cpp` and `POWERExecution.cpp`), so it has a module of its own, by
operators with the names of the code: `executeICMP`, `executeFCMP`,
`visitBinaryOperator`, `visitShift`, the casts, `visitSelectInst`, the vector
and aggregate instructions, `getSwitchDest` and what an atomic
read-modify-write stores. A value is the sequence of its lanes, an integer is
kept modulo 2^w, a float is an integer or NaN (comparisons and the operations
that stay within the integers). `TSOMachine` and `POWERExecution` say when an
instruction runs and where its result goes; `SwitchToNewBasicBlock` reads all
phi nodes of a block before it writes any. Left out are `fdiv`, addresses
(`getelementptr`), varargs, calls and the bits of floats; what the code gives up
on (`llvm_unreachable`) no program does.

### TSOTraceBuilder and what it is built from

The explorer for SC and TSO runs a program again and again. An execution is a
sequence of *events*, each one or several instructions of a thread or one flush
of a store buffer by the thread's *auxiliary thread*. Below each event hangs a
wakeup tree: the branches still to try at its place. When an execution ends,
the pairs of events that could have happened in the other order (*races*) are
computed and for each of them a branch is added to the tree, unless sleep sets
or the tree show that what it would lead to has been seen or is planned;
`reset` goes back to the deepest event with a branch, puts the thread that ran
there to sleep and starts over. *Source-DPOR* plans one thread per race,
*Optimal-DPOR* (SC only) a whole sequence.

| Variable | Code |
|---|---|
| `setup` | the program, `dpor_algorithm` and `memory_model` |
| `m` (`TSOMachine`) | what the interpreter keeps: `Threads`, `tso_threads`, memory, `PthreadMutexes`, condition variables; and a log by which executions are compared |
| `b` (`TSORegistration`) | the trace builder: `prefix` with its wakeup tree, `threads`, `mem`, `mutexes`, `cond_vars`, `lock_fail_races`, the replay position; `broken` collects assertions that failed |
| `vc` | the clocks and races `compute_vclocks` leaves in the events |
| `traces` | what the driver learns of each execution |
| `pc` | which function is to be called next |

| Action or operator | Code |
|---|---|
| `ContinueEvent`, `FinishReplay`, `DryRunSleeper`, `ReplayEvent`, `EnterWakeupTree`, `ScheduleNew`, `EndExecution` | the ways through `schedule` |
| `RunAux`, `RefuseInstruction`, `RunInstruction` | one turn of the loop of `Interpreter::run`: `runAux`, `checkRefuse` with `refuse_schedule`, or the instruction with all the builder is told about it |
| `ComputeClocks`, `DetectRaces`, `Reset`, `Stop` | `reset` |
| `Reg...` | the registration methods (`store`, `load`, `mutex_lock`, ...) |
| `Wake` | `wakeup` |
| `ComputeVClocks`, `PlanSource`, `PlanOptimal`, `WakeupSequence`, `RecomputeCas` | `compute_vclocks`, `race_detect`, `race_detect_optimal`, `wakeup_sequence`, `recompute_cmpxhg_success` |

A tree is kept as the branches beside each event of the prefix (`later`) and the
forest below its last event (`ahead`), instead of nodes and iterators. `m` is a
pure function of the schedule; `ExecutionClasses` runs the same machine through all
its interleavings and knows nothing of traces, so comparing the two sets of
logs is a check of the whole builder. A log says which write each byte of each
read came from, the order of the writes to each byte and of the operations on
each mutex, which signal woke whom, and the alternatives chosen: two runs that
differ only in the order of independent events have the same log.

### PSOTraceBuilder

The builder for PSO keeps the vector clocks up to date while the execution runs
and plans a branch as soon as it sees a race: `see_events` compares the accesses
an event conflicts with to what the event comes after anyhow, and `add_branch`
looks for a thread that could run first where the earlier one did. `reset` only
has to find the deepest event with a branch. The variables are those of
`TSOTraceBuilder`, and so are all modules' notions of machine, log and program;
`b` has no wakeup tree, and its threads are numbered as they are created,
auxiliary threads (one per address stored to) among the real ones.

| Action or operator | Code |
|---|---|
| `PsoContinueEvent`, `PsoFinishReplay`, `PsoDryRunSleeper`, `PsoReplayEvent`, `PsoScheduleNew`, `PsoEndExecution` | the ways through `schedule` |
| `PsoRunAux`, `PsoRefuseInstruction`, `PsoRunInstruction` | one turn of the loop of `Interpreter::run` |
| `PsoReset`, `PsoStop` | `reset` |
| `PsoReg...`, `SeeEvents`, `AddBranch`, `SleepSetAt`, `AuxAtHead` | the functions of the same names |
| `PsoWake...` | `wakeup`, for its three kinds of access |
| `PsoFlush`, `PsoRefuse`, `Readable` (`PSOMachine`) | `runAux`, `checkRefuse`, `readable` |

The buffers of the bytes are one sequence of pending stores in program order;
the buffer of a byte is what covers it (`BufferOf`), and a store may be flushed
when it is the oldest in each of its bytes (`Flushable`). At its end `PSOMachine`
says what can happen next in a machine of any of the three models (`MayStep`,
`Ran`, `Flushes`): the reference executions and `Interpreter_proofs` are built on it.

### Interpreter_proofs

The interpreter as a state machine of its own, for theorems. A trace builder
may schedule it as it likes, as long as it picks threads that are available.

| Variable or action | Code |
|---|---|
| `mach` | what `TSOMachine` and `PSOMachine` keep of the interpreter |
| `avail` | the threads the trace builder holds for available: `mark_available`, `mark_unavailable` |
| `RefuseThread` | `checkRefuse` returns true: the thread becomes unavailable |
| `RunThread` | the rest of a turn of `run`, `doPthreadCondAwake` included; who terminates or waits for a condition becomes unavailable, who is woken or created available |
| `FlushThread` | `runAux` |
| `Allowed` | the legal calls: those the interpreter itself has no error or assertion for |

### RFSCTraceBuilder and what it is built from

The reads-from explorer tells executions apart by who reads from whom. Each
read (and each operation on a mutex, which "reads from" the one before it) is an
event of the *unfolding*, named by its thread, the event before it in the thread
and the event it reads from. A trace is a path in the decision tree: the reads
in the order in which they were decided. For each decision of a trace
`compute_prefixes` tries the other writes the read might see; `try_sat` looks
for an order of the events that must happen so that all decisions up to that
one stand and this one is changed, first with the graph of what is forced, then
with the heuristic, then with the solver. The order is the *leaf* a worker
replays.

`RFSCDriver` has the same explorer with the content of runs abstracted to
parameters and every lock modelled; here the content is computed and a step is
one call.

| Variable | Code |
|---|---|
| `wk` | per worker: where it is, its task, the builder's `prefix` and `threads` (`x`), the clocks, the attempts left |
| `tasks`, `jobs` | the priority queue, `outstanding_jobs` |
| `unf` | `RFSCUnfoldingTree`: a table of nodes |
| `known` | `children_unf_set` of all decision nodes |
| `cache` | `graph_cache` of the nodes where it is initialised |
| `broken` | assertions that failed |

| Action or operator | Code |
|---|---|
| `RunLeaf` | `reset` and `run_once`: `RunExecution` runs `schedule` and the registration methods (`RFSCEvents`) against `TSOMachine` |
| `UnfoldTrace` | `compute_vclocks`, `compute_unfolding` |
| `TryAlloc` | the start of an attempt: the alternative's unfolding node, `try_alloc_unf`, `can_rf_by_vclocks` and its kin |
| `BeginGraph`, `EndGraph` | `get_saturated_graph`; between them the node is locked and others may climb past it |
| `Solve` | the rest of `try_sat`, and `construct_sibling` |
| `FinishTask` | the end of the worker's loop |
| `Attempts`, `VisibleWrites`, `LockAttempts`, `Altered` | which attempts `compute_prefixes` makes, and how each changes the trace |
| `RecomputeSuccess` | `recompute_cmpxhg_success` |
| `AddGraphEvent`, `SaturateAll`, `ReverseSaturate`, `TryGeneratePrefix` (`RFSCGraph`) | the functions of the same names |
| `FindOrder` | what the solver answers to `output_formula` |

Left out of `TSOTraceBuilder` and `PSOTraceBuilder` are errors (`assert`, `pthreads_error`,
`cancel_replay`), the observers algorithm, cycle detection, `max_search_depth` and `__VERIFIER_atomic_`
functions. A compare-exchange is of one byte. Everything is deterministic once
`setup` is chosen. Left out of `RFSCTraceBuilder` are errors (`RFSCDriver` has
them), condition variables (the builder refuses them), `max_search_depth` and
the estimate of the number of traces. The unfolding table never shrinks; in the
code nodes own their parents and the nodes they read from and
`children_unf_set` owns its members, so a node whose weak pointer expired is one
that nobody compares with. Workers interleave call by call; looking up a node of
the unfolding is part of the step that uses it, since it adds a node that is
missing and changes nothing else. `RFSCTraceBuilder` has one queue, served
deepest first; the schedulers are the subject of the other modules.

### POWERTraceBuilder and what it is built from

The builder for POWER and ARM (the algorithm the literature calls RSMC) lets
threads *fetch* instructions in program order and *commits* memory accesses one
by one, out of order. An access can be committed when its address, its data and
those of what must precede it are known; it is committed with a *parameter*:
the place of its stores in the coherence order and the stores its loads read
from. `populate_parameters` computes the parameters that the axioms allow. One
is taken, the others are kept in the event for later executions. When a store
is committed that an earlier committed load could have read, a *branch* is kept
at the load's place: what the store needs, the store, then the load. `reset`
takes the last event with a parameter or a branch left.

| Variable | Code |
|---|---|
| `b.fch`, `b.thr`, `b.mem`, `b.pending` (`POWEREvents`) | `fch`, `threads`, `mem`, `uncommitted_nonblocking_count` |
| `b.prefix`, `b.sched`, `b.plan` | `prefix`, `sched_count`, and of each event `cur_param`, `new_params`, `new_branches`, `branch_start`, `branch_end`, `cur_branch`, `recalc_params` |
| `m` (`POWERExecution`) | `Threads` with their fetched instructions, and the instructions that can be committed locally |

| Action or operator | Code |
|---|---|
| `PowStart` | `run` up to its loop: the first instructions are fetched |
| `PowReplayEvent`, `PowScheduleNew` | `schedule` inside and past the prefix, with `commit` and what the interpreter then does (`RunEvent`), or the end of the execution |
| `PowTryParameter`, `PowTryBranch`, `PowStop` | the ways through `reset` |
| `FetchInstr`, `FetchAll`, `CommitAllLocal`, `CommitInstr` | `fetch`, `fetchAll`, `commitAllLocal`, `commit` of the interpreter |
| `FetchEvent`, `RegisterAddr`, `RegisterData`, `FetchCtrl`, `FetchFence`, `Committable`, `ComputeCb` | the functions of the same names |
| `PopulateParameters`, `PpoToHb`, `CalcProp`, `NoThinAir`, `Propagation`, `Observation` (`POWERParameters`) | the functions of the same names |
| `DetectConflicts`, `BranchFor`, `Normalised`, `SetupRelations`, `MemCommit` | `detect_rw_conflicts`, `normalise_branch`, `setup_relations_cur_param`, `Mem::commit` |

`POWERReference` knows nothing of commits: it guesses the values loads return,
pairs loads with stores and stores with coherence orders, and keeps what
satisfies the four axioms of "Herding Cats" (Alglave, Maranget and Tautschnig,
2014), which the manual names as the models Nidhugg uses. It shares with the builder only what the
interpreter makes of an instruction. For ARM the preserved program
order is smaller, in the code and in the reference. The manual promises
completeness for POWER only (`doc/manual.tex:78-85`); on the programs run here
the exploration is complete for ARM, too.

Every variable and every thread's status is one byte; the code splits wider
accesses into bytes. Instructions have register operands, so address, data and
control dependencies arise as they do in the code. Left out are errors and
`abort`, calls of other functions and allocation. Jumps go forward only: in a
loop, `POWERExecution` fetches phi nodes one after the other.

### RegressionTests

80 of the 134 tests in `src/src/SC_test2.cpp`, `TSO_test2.cpp`, `PSO_test2.cpp`,
`POWER_test2.cpp` and `ARM_test2.cpp`, each a definition named after its suite
and the test. The LLVM text of a test becomes a program of the machines above:
its accesses to shared memory, thread and mutex operations, and branches; a
compiler fence or a computation that nothing depends on is a local instruction
or left out, and `__assert_fail` is a store to a place of its own. A test
expects a number of executions (`Counts`) or a set of specifications, each a set
of pairs of events (`Orders`), which `check_all_traces` wants in one-to-one
correspondence with the executions. `check_trace` compares places in one
sequence of events; `ComesBefore` compares accesses to a byte by coherence and
reads-from, and operations on a mutex by its log, since an event is in a
specification for what it conflicts with. Instruction numbers are those of the
model, not of the LLVM text.

The suites are run with the algorithm they were written for: Source-DPOR (SC
and three tests of TSO also with Optimal-DPOR, as `check_optimal_equiv` does). The `Configuration` they
use has since got another default, `VIEW_EQ` (`Configuration.h:68`), while the
command line's is still `source` (`Configuration.cpp:100`).

Left out are tests that expect an error or detected nondeterminism, tests whose
accesses overlap under POWER and ARM, mutexes that need no initialisation
(`Mutex_13_no_req_init` and the like), and tests of what the machines abstract
from (thread-local storage, intrinsics, pointers to chosen places). Where a
program differs between `TSO_test2.cpp` and `PSO_test2.cpp`, or between
`POWER_test2.cpp` and `ARM_test2.cpp`, in names only, one definition names the
other.

## 3. The runs

`MCRFSC` gives the decision tree of a real program,
`spawn t; r = x; s = y || y = a; x = a; y = b; x = b`: two loads, three values
each, 13 decision nodes of which 6 executions are realisable, nodes at three
depths, and alternatives of one decision that several runs look for. That is
enough for two runs to race for a sibling, for one worker to sleep while the
other enqueues, for a deque of several nodes to be split by a thief and for an
error to prune nodes already queued. Outcomes: `NoErrors` (one trace is blocked
in an assume), `OneError`, `TwoErrors` (assertions that some traces violate; the
layout of the second makes `cancel_replay` index an event without a decision).

| Run | Instance | Shows |
|---|---|---|
| `EX_safety` | abstract, errors end it | `OneFate`, `NothingLost`, `StopsComplete`: the abstract specification deserves its name |
| `PQ_all` | 2 workers, no errors | safety, termination and refinement of the priority-queue exploration |
| `PQ_errors` | 2 workers, one error | the early end: `JobsExact` and `Termination` although pruned items are thrown away and dropped items are never accounted for, `NoDispatchAfterHalt` (that it implements the abstract exploration is proved, dropped items included) |
| `WS_all` | 2 workers, no errors | safety, termination and refinement of work stealing; `OwnerAwake`, `BigLockProtects` |
| `WS_errors` | 2 workers, two errors | early end of work stealing, by `halt` or by a crash: `NoStealAfterHalt` |
| `SEQ_all` | 1 worker, one error, `--keep-going` | `TasksExact`, `SeqComplete`, and the loop ends unless an item is dropped |
| `VE_all` | 6672 programs, both traversal orders | `EveryView` (all views are explored), `OnceEach` (none twice), `LeadsCanStart`, `AlphaIntact`, `LeadsAreFollowed`, `ReplayRestores` |
| `VE_missing` | violation | a program of five accesses with a view that is never explored |
| `TB_all` | 3465 explorations (program, algorithm, model) | `EveryExecution`, `OnceEach`, `NoneBlocked` (Optimal-DPOR), `AssertionsHold`, `CountExact`, `ClocksMatchConflicts`, `NoLostWakeup`; for the reads-from builder `ReplayTrue` and `CacheExact`; for POWER and ARM `RecordedStillAllowed`; `TestsPass` for the repository's own tests |
| `TS_missing` | violation | an order of two stores to a variable that Source-DPOR under TSO never runs |
| `RF_missing` | violation | a write that a read-modify-write of the reads-from explorer never reads |
| `PQ_keep_going` | violation | workers sleep for ever after a drop |

Two workers suffice for every pairwise race in the code; that the safety
properties of the priority queue hold for any number is proved. Trees are
finite and every node is run once, so no counter needs a bound. Workers can be
permuted but the runs with liveness properties use no symmetry.

The programs of `VE_all` (`MCViewEq`): every pair of threads of one or two
accesses over two objects and the values 1 and 2, data-dependent writes
included; every such thread beside two threads of one access; the 20
straight-line programs of `tests/ViewEq_RegressionSuite/basic`, with up to five
threads or nine accesses; and five programs of three threads in which leads
of one state meet. `Views` is the reference: what the reads return in all
interleavings. The pairs and triples contain every way two or three accesses of
different threads can compete for a read; the last two sets add longer threads
and the programs on which leads are forwarded past others, wait for a state to
finish, or are weakly equivalent to others. Beyond these bounds the explorer is not
complete: that is what `VE_missing` shows, on the smallest program found. An exploration always ends in the runs, since the state graph
is finite and `EveryView` is reached; no liveness property is stated.
`LeadsAreFollowed` compares values for programs with constant writes only,
because the value a lead has for a data-dependent write is that of an earlier
run. Within the bounds the formulas decide nothing alone: without them the
comparison of leads catches the same repetitions.

The programs of `TB_all` (`MCDPORDriver`): all pairs of two accesses to two variables
(store buffering, message passing and the other litmus tests of that size),
three threads with less; read-modify-writes and compare-exchanges on one
variable by three threads; fences, sequentially consistent stores and external
calls between a write and a read; accesses of two bytes that overlap buffered
ones of one; branches, failed assumptions and joins; a `malloc` that may fail;
critical sections of two and three threads, with `trylock`; a waiter with a
signal or a broadcast, two waiters with a broadcast, and objects destroyed at
the end. Each is explored with Source-DPOR under SC and TSO and with
Optimal-DPOR under SC, choices with Source-DPOR only. Under PSO the same
programs are run, save that no read-modify-write follows a buffered store of its
thread, and two stores to different variables beside any two accesses are added.
The reads-from explorer
runs those it has operations for (no condition variables, choices or
overlapping accesses), with one worker with and without the prefix heuristic,
and with two workers on four programs in which both work on alternatives of one
decision. These programs are the smallest in which each registration method races with each other that touches the same
object, a sleeper is woken or stays asleep, a lock is refused, and a branch is
inserted into a tree that is already there, and in which the graph of a decision
is reused for another execution, and extended. Each exploration is compared with
all interleavings of its program: up to reads-from and the order of operations
on mutexes for the reads-from explorer, up to the order of conflicting accesses
for the others.

To these come the tests of `RegressionTests`, for which `TestsPass` states what
the repository itself expects. All but three of their programs are also compared
with the reference; `Fun_arg_2`, `Mutex_1` and `Mutex_12` of POWER and ARM have
too many candidate executions to enumerate (`LargeTests`).

What single instructions compute is checked by programs that check themselves
(`ComputeSetups`): a thread computes something, compares it with what is
expected and stores to a place of its own if they differ, so that the program
has one execution and `TestsPass` counts it. Expected values are stated by
other means than the model's: sums and products over the integers, bits by
`Bitwise`, quotients and remainders by the equation that defines them. Integers are all
pairs of 0, 1, 7, 8 and 15 in four bits (both signs, both ends and the change of sign), floats
are small integers and NaN in every one of the sixteen comparisons,
read-modify-writes are of eight bits. The programs run under SC and under POWER,
the read-modify-writes under PSO, too.

Under POWER the programs are litmus tests: message passing, load and store
buffering, S, R and 2+2W, each with every choice of program order, `sync`,
`lwsync`, `eieio`, address, data or control dependency or `isync` between the
two accesses of either thread (`Herd1`, `Herd2`); four accesses to one variable
(`Coherence`); a load that reads again, or a detour through another thread,
before a dependent load (`Rereads`); three threads in a chain (`Chains`:
write-to-read causality, ISA2 and a thread that reads what two others order);
and values that are computed, assumed and branched on, joins and locks
(`PControl`, `PLocks`). `Herd1`, `Coherence` and `PControl` are run under ARM
as well. The shapes are chosen so that each
rule for preserved program order, fences, happens-before and propagation applies
in some program, and each axiom rules something out. These executions are compared with
`POWERReference` by reads-from and coherence order. An execution has at most 20 or so
events, and nothing in an exploration has to be bounded.

Deadlock is checked everywhere except in `EX_safety` and the runs of
`DPORDriver`, where a finished exploration has no step. In the others, returning from the join is the explicit
step `Joined`, and a finished exploration of views `Terminating`.

**Fairness.** Every worker is a thread of the operating system: it takes a step
if it can (weak fairness of `Step(w)`). The mutexes need not be fair with the
priority queue, where the work is finite. With work stealing a sleeper may wake
up spuriously for ever and take and release the big mutex each time, so `halt()`
is assumed to get it some time (strong fairness of `Halt(w)`). No fairness is
assumed for spurious wakeups. A crashed process takes no step.

### Findings

1. *Dropped items are never accounted for* (`RFSCTraceBuilder.cpp:226`). With
   `--keep-going`, once `reset` throws away a pruned item `outstanding_jobs`
   cannot reach zero and all workers sleep for ever, although the comment at
   line 232 expects them to return.
   The sequential loop has the same fault by another path: `tasks_created--`
   for a dropped item (line 227) is overwritten by `tasks_created = 0` at the end
   of the same function, so `tasks_left` stays positive and the only thread waits
   in `dequeue`; `SeqEndsUnlessDropped` is what remains true.
2. *A view is missed* (`ViewEqTraceBuilder.cpp:2600`). For
   `y = 2; x = 1; r = y || y = 1; s = x` only three of the four views are
   explored. The lead for `s = 0` begins like the lead under way, so
   `forward_lead` passes its rest on to a later state, where it has no coherent
   merge with what is explored there and is dropped. The manual promises at
   least one execution for each class (`doc/manual.tex:32-34`).
3. *A sleeping store buffer is not woken* (`TSOTraceBuilder.cpp:2819`). `wakeup`
   excludes the auxiliary thread `p` with `p + 1 == pid`. That is meant for a
   thread's own buffer, but for a real thread `pid` it is the buffer of the
   thread before. After a sequentially consistent store by thread `t` the buffer
   of thread `t - 1` stays asleep, the execution counts as blocked, and the order
   in which the buffered store comes last is lost:
   `spawn t; x = 1 || x = 2 (seq_cst)`. The manual promises all equivalence
   classes (`doc/manual.tex:199-202`).
4. *A read-modify-write and its thread's own write* (`RFSCTraceBuilder.cpp:1386`).
   The writes a read may see begin, for each thread, with the last one that comes
   before the read anyway. For the read's own thread the clock that says so
   includes the read itself, and a read-modify-write is a write, so the search
   stops at the event instead of at the write before it. In
   `r = x; x = 2 || x = 1; x += 1` the class in which both reads return the 1 is
   never run.

The models show more disagreements between the code and its own assertions or
its documentation. They have no run of their own; the programs of `VE_all` and
`TB_all` leave out what leads to them.

* *`cancel_replay` confuses depth and position* (`RFSCTraceBuilder.cpp:192`).
  `blame` is the depth of the last decision before the error, and is used as an
  index of the trace, so another decision is pruned than the comment at line 185
  says, or a null pointer dereferenced (`RFSCDriver!PrunedByCancel`,
  `NullDereference`). `PQ_errors` runs with the first and `WS_errors` with both:
  what they show holds although the wrong decision is pruned.
* *A store before a refused lock* (line 1392). The below-clock of the last event
  of a thread is the number of its events and is compared with `<`: when the
  thread has then been refused a lock, its last store is no source for anybody.
  `lock m; spawn; r = x || x = 1; lock m` misses r = 1.
* *Exchanging a compare-exchange with a read-modify-write* (lines 1045-1089).
  The data the moved event writes is that of the old trace; for `CAS(x, 0, 5)`
  and `x += -5` the predicted success is wrong and the replay ends with a
  nondeterminism error.
* *Spawns that move* (lines 376-382). A leaf that drops or reorders spawns made by
  different threads changes the numbers of the threads, and the symbolic events
  of the replay name others: with `main: spawn 1; r = x; spawn 2`,
  `1: spawn 3`, `3: x = 1` the replay ends with a nondeterminism error.
* By reading only: the initial value of a global is taken to be zero when
  success is predicted (lines 1020-1025); `SmtlibSatSolver::get_model` writes
  past the size of a vector it has only reserved (lines 117-166).
* *A view is explored twice* (`ViewEqTraceBuilder.cpp:212`). For
  `x = 2; x = 2; r = x || x = 1; s = x` (`MCViewEq!RepeatedProgram`) two
  executions return 2 to both reads, although `Configuration.cpp:107` calls the
  algorithm optimal: nothing looks at a lead's own formula when it is taken.
* *After which signal?* (`TSOTraceBuilder.cpp:1452`). `cond_awake` orders a
  woken thread after the last signal of the variable instead of the one that
  woke it; with a broadcast in between, executions are missing
  (`MCDPORDriver!AwakeSetups`).
* *Initialisation wakes nobody* (lines 1215, 1267). `mutex_init` and `cond_init`
  call no `wakeup`, so a sleeper about to call an unknown external function stays
  asleep and the assertion at the end of the replay fails.
* *Choices* (line 1505). An event with alternatives that races with another
  thread breaks the assertion that prescribed threads are awake (Optimal-DPOR)
  or plans a branch twice (Source-DPOR).
* *A failing compare-exchange* (line 961) is not ordered after the flush of an
  earlier store of its thread, though the machine makes it wait for it;
  Source-DPOR then prescribes it too early and `refuse_schedule` fails.
* *Optimal-DPOR and signals* (line 562): with two waiters, or two signals that
  no mutex orders, the order of the vector clocks is not that of the symbolic
  events; nor is it when an external call races with `pthread_create`.

* *An auxiliary thread goes off duty too early* (`PSOTraceBuilder.cpp:527`).
  `atomic_store` makes it unavailable when the buffer of any one byte of the
  flushed store has run empty. A narrower store to the same address may still
  wait in the buffers of the other bytes, and is never flushed: with
  `x = 1` (two bytes) then `x = 2` (one byte) the execution ends with a store
  pending (`MCDPORDriver!OffDutySetups`, for which `NoLostWakeup` fails).
* *A read-modify-write after a buffered store, under PSO* (lines 544 and 470).
  Its load is registered before its store is ordered after the thread's flushes,
  so the race of the load is seen too early and the read-modify-write is
  prescribed where the machine still refuses it
  (`MCDPORDriver!EarlySetups`, for which `AssertionsHold` fails).
* *The wrong end of an address dependency* (`POWERARMTraceBuilder.tcc:857`). When
  the address of an earlier access depends on a load, that load comes before the
  event in preserved program order (`addr;po`). The loop inserts the event just
  before that access instead of the load. The order that was meant is lost, and
  an execution that the axioms forbid is run (`MCDPORDriver!AddrPoSetups`, for which
  `EveryExecution` fails), although the manual calls the technique precise
  (`doc/manual.tex:78-80`).
* *A fence that is not there* (lines 1170-1180). The index of the next fence is -1
  if there is none, and is compared with `<=`: if there is another kind of fence,
  every later event counts as being past a `sync`. An `eieio` then orders
  a store before loads, and the assertion that
  happens-before has no cycle under POWER (lines 907-909) fails
  (`MCDPORDriver!NoFenceSetups`, for which `AssertionsHold` fails).
* *A lock right after a condition wait* (`Execution.cpp:4288`). While a thread has
  the mutex of an ended `pthread_cond_wait` to take again, `isPthreadMutexLock`
  looks at that mutex only. If the instruction after the wait is
  `pthread_mutex_lock` of another mutex that is held, it is not refused and the
  assertion in `callPthreadMutexLock` (line 3492) fails; without assertions the
  mutex gets a second owner. `HeldUntilReleased` has exactly this exception
  (`LocksAfterWaiting`), and the proof says there is no other.
* *A switch is no branch* (`POWERExecution.cpp:2719`). `IsBranch` is set for `br`
  only, so what follows a `switch` or an `indirectbr` has no control dependency on
  its operand. In a load buffering program with a switch in both threads the
  builder then wants to replay an event that has not been fetched.
* By reading only: `compute_modified_value` (`ViewEqTraceBuilder.cpp:1138-1169`)
  compares the operands of `umax` and `umin` as signed numbers and knows no
  widths; `visitAtomicRMWInst` (`Execution.cpp:1880`) leaves the value it tells
  the builder uninitialised for operands of more than 32 bits; `POWERExecution`
  fetches phi nodes one at a time through `SF.Values` (line 2843), so two that
  swap in a loop read the new instance, contrary to the comment at lines
  1019-1029; `getShiftAmount` may return the width or more if that is no power
  of two. `SOPFormula`'s two `operator&&` compare where they should assign
  (`result == RESULT::DEPENDENT;`, `SOPFormula.cpp:302` and `:316`), so a true formula
  that gets a term would stay marked true. Nobody calls them on one today: line 316
  has no caller, and line 302 is reached from `operator&&(SOPFormula&)` only, which
  returns earlier when its formula is true (line 275). `SOPFormula!And` therefore
  needs no such case.
  `Sequence::backseq` asserts that both events are in the sequence
  (`ViewEqTraceBuilder.cpp:1605`), but its callers at lines 442 and 485 pass the
  event they analyse, which need not have been executed yet. A build with
  `--enable-asserts` stops there; the default build goes on with the end of the
  sequence as the event's place, and that is what `BackSeq` does.

## 4. The proofs

### The parallel exploration

Proved for every finite set of workers, every decision tree that satisfies
`TreeAssumption`, every outcome and both values of `KeepGoing`:

* `Exploration_proofs`: `EachNodeHasOneFate`, `NoNodeIsLost`, and that both an
  idle exploration (`IdleMeansComplete`) and one that has stopped
  (`StoppingMeansComplete`) have explored everything called for, unless an
  error ended them or an item was dropped.
* `RFSCPriorityQueue_proofs` and `RFSCWorkStealing_proofs`, for the two
  schedulers of `run_rfsc_parallel`: `TypesHold`, `AllocationsAreFresh`,
  `NothingExploredTwice`, `CounterIsExact`, `Implements` (the refinement of
  `Exploration`, step by step) and `HaltsWhenComplete`, which is the theorem
  about the abstract exploration carried over by the refinement. For the queue
  also `NothingDispatchedAfterHalt`; for work stealing `SleepersOwnNothing`,
  `BigLockHolds` and `NothingStolenAfterHalt`.
  `TypesHold` of work stealing has no run of its own property: the other
  properties of `WS_all` are checked on the same states.
* `RFSCSequential_proofs`: `TasksAreExact`, `SeqImplements` and
  `LoopEndsComplete`, for the one-threaded loop.

`TreeAssumption` says that nodes are sequences closed under prefix, that the
run of a node ends at a node and that its alternatives are siblings of decisions
on its path; `WorkerAssumption` that there is at least one worker and finitely
many; `OneThread`, for the sequential loop only, that there is one. Nothing is
assumed about `Sat`, `Layout` or `Executed`.

**The argument.** Each property needs an invariant that says more. Its heart
(`DriverInv`, in `RFSCDriver_proofs`) is a partition of the known nodes: a node
that is queued, being pushed, held, run or dropped is in `children_unf_set` (or
is the root), in one of these places only, and its descendants are unknown until
its run has unfolded them. From this follow `AllocFresh` (the assertion in
`alloc_unf`) and `ExploredOnce`. None of it depends on how items are queued, so
it is stated about a set `Q` of queued nodes:

* `RFSCDriver_proofs` has one lemma per action of the builder and the driver.
* `RFSCScheduler_proofs` adds what a scheduler owes the workers: a sibling on
  its way into the queue is not in it (`NotYetQueued`), the counter is the size
  of the union of the queued, held and pushed nodes (`JobsCounted`), and `halt()`
  was called for a reason that lasts (`HaltReason`: from the last job on nobody
  can create another). Every worker step preserves them (`...Keeps`), whatever
  `Q` is; the steps that touch the queue say what they do to `Q`: add the
  sibling that is pushed, move one node to a worker, or leave it alone.
* The two schedulers then show which of these each of their steps is. For the
  priority queue `Q` is the queue. For work stealing it is the union of the
  queues, and their invariant adds that every queue holds each of its nodes once
  and at its own depth, that no node is in two queues (`QueuesOK`), that the
  slow path is under the big mutex and that a worker on it has an empty queue of
  its own (`SlowPathOK`). With these a steal takes one node out of `Q` and only
  moves the others, although what is stolen is computed with sequences
  (`ThreadWorkQueue`'s lemmas come first); without `OwnerAwake` the thief would
  overwrite what it owns.
* The loop of `run_rfsc_sequential` uses the workers' part only, since
  `outstanding_jobs` means nothing there. Its count is an invariant only when the
  dropped items are counted as still left (`TasksCounted`): `reset` clears the
  `tasks_created` they are taken off, so the loop never learns of them. So, when
  the count reaches zero, nothing was dropped, and `LoopEndsComplete` needs no
  exception for dropped items.

### The interpreter

`Interpreter_proofs` proves, for each of the models SC, TSO and PSO (`Model` is
one of the three), every program, every number of threads, every schedule and
every way stores reach memory:

* `NobodyForgotten`: no thread that is unavailable could take its next step. A
  missing `mark_available` would be a lost execution or a deadlock that is none.
  `DPORDriver!NoLostWakeup` says this of the programs of `TB_all` with the
  trace builders' own lists of available threads (where `PSOTraceBuilder.cpp:527`
  breaks it for auxiliary threads, see above); the theorem shows that the
  interpreter makes all the calls it must.
* `LoadsSeeOwnStores`: a load that is not refused finds, byte by byte, its
  thread's newest store that has not reached memory, and memory if there is
  none. `visitLoadInst` only looks for a store to the very same location, so this is
  what `checkRefuse` owes it for accesses of every size and overlap.
* `MutexesAreHeld`: who holds a mutex keeps it until he releases it, but for the
  lock after a wait described above. An action property.
* `FCmpExact`: the sixteen float comparisons, which `Execution.cpp` spells out
  one by one, are LLVM's, NaN included.
* `ShiftsStayInside`: `getShiftAmount`, the interpreter's own rule for amounts
  that LLVM leaves undefined, gives less than the width for every amount and
  every width that is a power of two.

Assumed is only that the program's calls are legal (`Allowed`, a guard of the
steps and no assumption on constants): it joins threads that exist and are not
itself, initialises mutexes, unlocks and waits with those it holds, destroys none that is
held, and accesses at least one byte at a time.

**The argument.** `NoneForgotten` is not inductive: that a thread cannot go on now does not
say that who changes this will tell it. The invariant `Inv` therefore says of each
unavailable thread *why* it is (`Waits`): it has stopped, or one of four reasons
to be refused holds *and* the note that `checkRefuse` leaves is there, in
`AwaitingJoin`, in the mutex's queue, in `partial_buffer_flush` or, under PSO,
in the kind of flush and its location. The lemmas then come in three groups.

* A refusal leaves the note that belongs to its reason (`RefusalNotes`) and
  deletes nobody else's (`NotesWait`).
* An instruction of one thread keeps the reasons of all others or wakes them:
  there is one `...Keeps` lemma per handler, `StepKeeps` says what they have in
  common, and most follow from `Plain` (only the thread's own values, memory and
  the log change). `StepWaits` draws the conclusion.
* A store that reaches memory can end the thread's own reason, and then wakes
  it. Under TSO the number of stores it waits for is that behind the newest one
  it overlaps, which moves with the buffer (`NewestOverlapShifts`). Under PSO
  nothing is compared when the flushed store does not overlap the location, which is right
  because removing it leaves the location as unreadable as it was
  (`StaysUnreadable`).

That each buffer is a sequence of stores to locations (`WellFormed`) is what
`Max` and `Len` need; that the greatest element of a bounded set exists is proved from the
library's well-founded induction, used at one relation. `LoadsSeeOwnStores`
and `MutexesAreHeld` follow from the same invariant, by cases on the newest
store of a byte (`FoundIsNewest`) and on the instruction (`VisitOwns`).

### What is model-checked only

Liveness (`Termination`, `SeqEndsUnlessDropped`): the prover does not do
fairness. Everything built on an operator that recurses, which the prover's
back ends cannot be given: the trace builder for TSO (`InsertBelow` and the
reference executions), hence that for PSO, the reads-from trace builder in detail
(saturation, the run of an execution, the search for an order), the builder
for POWER and ARM (reachability, the reference) and the view-equivalence explorer (`Agree`, `AdjustTo`,
`RemoveDuplicateLeads`, `ConsistentUnion`, `FindReplayState`). With them
`EveryExecution`, `OnceEach` and `EveryView` compare with a brute-force
enumeration of the program's executions: to prove them would take the
correctness of the algorithms by induction over executions.

## 5. What is not modelled, and the plan

Not modelled: the LLVM passes, how the SAT solver is called (`FindOrder` gives its
answer), option parsing, printing and timing (their effect is a parameter or
none); of the interpreters, addresses, calls and what section 2 lists under
`LLVMInstructions`.

The plan, in order:

1. Done: `Exploration`, `RFSCDriver`, `RFSCPriorityQueue`, `RFSCWorkStealing`,
   `RFSCSequential`, and the proofs of section 4.
2. Done: `SOPFormula`, `ViewEqSequences`, `ViewEqLeads`, `ViewEqAnalysis`,
   `ViewEqExploration` for straight-line programs.
3. Done: `RFSCGraph`, `RFSCEvents`, `RFSCPrefixes`, `RFSCTraceBuilder`: the
   reads-from explorer in detail. The locks and weak pointers of the unfolding
   tree are left out (section 2).
4. Done: the proofs of work stealing and of the sequential loop. Left: what the
   operations of `SOPFormula` do to the meaning of a formula (its folds over lists
   need an induction that stays with TLC).
5. The view-equivalence explorer beyond the fragment: read-modify-writes and
   joins first (`add_rmw_write`, `ordered_by_join`, the join part of
   `causal_prefix`), then branches. `ViewEqSequences` moves `Agree` to a module
   of its own so that lemmas about the other operators can be proved.
6. Done: `TSOMachine` to `TSOTraceBuilder`, `PSOMachine` to `PSOTraceBuilder`,
   `POWEREvents` to `POWERTraceBuilder`, and the machine's part of
   `NoLostWakeup` as a theorem. Left to prove: that `Frontier` keeps an
   antichain, and what `SleepAfter` and `SequenceClearsSleep` promise of each
   other; both live in modules that reach a recursive operator, which would have
   to move first.
7. Done: `LLVMInstructions`. Left: addresses, calls, floats beyond the integers.
