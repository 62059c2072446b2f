--------------------------- MODULE ExecutionClasses ---------------------------
(* What an exploration of src/src/DPORDriver.cpp is measured against: the     *)
(* classes of executions its program has, by brute force, and those that were *)
(* run.  The trace builders differ in what they tell apart: the one for RFSC  *)
(* distinguishes executions by who reads from whom and by the order of        *)
(* operations on each mutex, the others by the order of writes, too.  Under   *)
(* POWER and ARM every algorithm is the one called RSMC here.                 *)
EXTENDS PSOMachine, POWERReference

(* ------------------------ the reference, for SC, TSO, PSO ------------------ *)

(* All executions of a program on the machine of TSOMachine and PSOMachine,   *)
(* by brute force.  It knows nothing of traces, races or sleep sets.          *)

Awake(m) == [m EXCEPT !.wake = {}]

(* What can happen next: a thread's next instruction, or one of its stores    *)
(* reaching memory.                                                           *)
StepsOf(prog, mm, m, t) ==
  Flushes(mm, m, t)
  \cup (IF MayStep(prog, mm, m, t)
        THEN {Ran(mm, m, t, NextInstr(prog, m, t), alt) :
                alt \in Alternatives(m, NextInstr(prog, m, t))}
        ELSE {})

Successors(prog, mm, m) ==
  {Awake(n) : n \in UNION {StepsOf(prog, mm, m, t) : t \in DOMAIN m.thr}}

(* Breadth first: `level` is the set of machines after some number of steps;  *)
(* every step makes progress, so the levels run dry.                          *)
RECURSIVE Finals(_, _, _, _), Deeper(_, _, _, _)
Finals(prog, mm, level, found) ==
  IF level = {} THEN found
  ELSE Deeper(prog, mm, {<<m.log, Successors(prog, mm, m)>> : m \in level}, found)
Deeper(prog, mm, ends, found) ==
  Finals(prog, mm, UNION {e[2] : e \in ends}, found \cup {e[1] : e \in {d \in ends : d[2] = {}}})

(* What every execution that cannot go on has to show for itself.             *)
AllExecutions(prog, mm) == Finals(prog, mm, {NewMachine(prog)}, {})

(* ------------------------------ an exploration ----------------------------- *)

CONSTANT Setups     \* what to explore: records of the program `prog`, the
                    \* algorithm `alg`, and the memory model `mm`

VARIABLES
  setup,   \* the program, algorithm and memory model of this exploration
  pc,      \* what happens next; "done" when the exploration is over
  traces   \* what the driver was told of each execution so far

ClassOf(s, log) ==
  IF s.alg = "RFSC" THEN [rf |-> log.rf, lock |-> log.lock] ELSE log

Reference ==
  IF setup.alg = "RSMC" THEN PowerExecutions(setup.prog, setup.mm)
  ELSE {ClassOf(setup, log) : log \in AllExecutions(setup.prog, setup.mm)}

Unblocked == {k \in DOMAIN traces : ~traces[k].blocked}
Explored == {ClassOf(setup, traces[k].log) : k \in Unblocked}

(* A program with too many candidate executions to enumerate.                 *)
Large == "large" \in DOMAIN setup /\ setup.large

(***************************************************************************)
(* Completeness: when there is nothing left to run, the executions run are *)
(* those the program has, up to equivalence: "Nidhugg will systematically  *)
(* run executions of the test case, covering all execution equivalence     *)
(* classes" (doc/manual.tex:199-202); under POWER, exactly those that the  *)
(* axioms allow.  Under ARM that is not promised (doc/manual.tex:82-85),   *)
(* but found for the programs run here.  A program marked large is left to *)
(* TestsPass.                                                              *)
(***************************************************************************)
EveryExecution == pc = "done" /\ ~Large => Explored = Reference

(***************************************************************************)
(* No class is run twice, whatever the branches that later executions add: *)
(* what the sleep sets of TSOTraceBuilder and the decision nodes of        *)
(* RFSCTraceBuilder are there for.                                         *)
(***************************************************************************)
OnceEach == pc = "done" => Cardinality(Explored) = Cardinality(Unblocked)
===============================================================================
