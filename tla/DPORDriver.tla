------------------------------ MODULE DPORDriver ------------------------------
(* The exploration loops of src/src/DPORDriver.cpp, for the trace builders    *)
(* that are modelled: run() picks the one the algorithm and the memory model  *)
(* of the configuration ask for, and it runs one execution after another      *)
(* until there is nothing left to try.                                        *)
EXTENDS PSOTraceBuilder, RFSCTraceBuilder, POWERTraceBuilder

vars == <<setup, pc, traces, tsoVars, rfscVars>>

TSOIdle == b = <<>> /\ m = <<>> /\ vc = <<>>

Init ==
  /\ setup \in Setups
  /\ traces = <<>>
  /\ \/ setup.alg = "RFSC" /\ RFSCInit /\ TSOIdle
     \/ setup.alg \in {"SOURCE", "OPTIMAL"} /\ setup.mm # "PSO" /\ TSOInit /\ RFSCIdle
     \/ setup.mm = "PSO" /\ PsoInit /\ RFSCIdle
     \/ setup.alg = "RSMC" /\ PowInit /\ RFSCIdle

Next ==
  \/ (TSONext \/ PsoNext \/ PowNext) /\ UNCHANGED rfscVars
  \/ RFSCNext /\ UNCHANGED <<setup, tsoVars>>

Spec == Init /\ [][Next]_vars /\ WF_vars(Next)

(* -------------------------------- properties ------------------------------ *)

(***************************************************************************)
(* The assertions of TSOTraceBuilder.cpp, WakeupTrees.tcc,                 *)
(* RFSCTraceBuilder.cpp, RFSCDecisionTree.cpp, SaturatedGraph.cpp and      *)
(* POWERARMTraceBuilder.tcc hold:                                          *)
(* threads prescribed by a replay are available and awake, a replayed      *)
(* event does what it did before, only a new event is refused, races are   *)
(* between conflicting events, merged events have no branches, a branch is *)
(* planned once, a step wakes exactly the sleepers whose next event        *)
(* conflicts with it; decision nodes are new and belong to loads, a cached *)
(* graph has no cycle, and nothing is made to read from its own future;    *)
(* events of a prefix can be committed when their turn comes, only the end *)
(* of a branch can fail or have more parameters, and commits in an order   *)
(* that respects cb leave no cycle of happens-before.                      *)
(***************************************************************************)
AssertionsHold ==
  /\ setup.alg # "RFSC" => b.broken = {}
  /\ broken = {}

CannotGoOn(mach) ==
  \A t \in DOMAIN mach.thr :
    ~MayStep(setup.prog, setup.mm, mach, t) /\ ~CanFlush(mach, t)

(***************************************************************************)
(* When no thread is left to schedule and nobody sleeps, the program       *)
(* really cannot go on: every thread that was refused (a lock, a join, a   *)
(* fence or a load waiting for the store buffer) has been marked available *)
(* again when what it waited for happened.                                 *)
(***************************************************************************)
NoLostWakeup ==
  /\ pc \in {"clocks", "pso-reset"} /\ ~traces[Len(traces)].blocked => CannotGoOn(m)
  /\ \A w \in Workers : wk[w].pc = "unfold" /\ ~wk[w].x.error => CannotGoOn(wk[w].m)
===============================================================================
