---------------------------- MODULE TSOTraceBuilder ---------------------------
(* Stateless model checking of a program under SC or TSO by the trace builder *)
(* of src/src/TSOTraceBuilder.cpp with the interpreter loop of                *)
(* src/src/Execution.cpp, for Source-DPOR and Optimal-DPOR.  One execution    *)
(* after another is run: first the events the wakeup tree prescribes, then    *)
(* whatever thread is available; at its end the races in it decide which      *)
(* executions are still to come.                                              *)
EXTENDS TSOAnalysis, ExecutionClasses

VARIABLES
  b,       \* the trace builder (see TSORegistration)
  m,       \* the machine the interpreter runs (see TSOMachine)
  vc       \* the clocks and races of the finished execution

tsoVars == <<b, m, vc>>

NoClocks == [clocks |-> <<>>, races |-> <<>>]

(* The per-execution part of the builder, as reset() leaves it.               *)
Fresh(prog, alg, prefix, ahead, replay) ==
  [alg |-> alg, prefix |-> prefix, ahead |-> ahead,
   thr    |-> 0 :> NewBuilderThread(0, TRUE) @@ 1 :> NewBuilderThread(0, FALSE),
   bytes  |-> [x \in prog.bytes |-> NoByte],
   mtx    |-> [a \in prog.mutexes |-> NoMutex],
   cnd    |-> [a \in prog.conds |-> NoCond],
   full   |-> 0, idx |-> 0, symIdx |-> 0, dry |-> 0, dryrun |-> FALSE,
   replay |-> replay, fails |-> <<>>, broken |-> {}]

TSOInit ==
  /\ pc = "schedule"
  /\ b = Fresh(setup.prog, setup.alg, <<>>, <<>>, FALSE)
  /\ m = NewMachine(setup.prog)
  /\ vc = NoClocks

NewEvent(p, index, size, alt, sym, later) ==
  [pid |-> p, index |-> index, size |-> size, alt |-> alt, sym |-> sym,
   may |-> FALSE, after |-> {}, races |-> <<>>, sleep |-> <<>>,
   sleepEv |-> <<>>, wakeup |-> {}, later |-> later, earlier |-> 0]

(* -------------------------------- schedule -------------------------------- *)

(* The thread that runs the current step.                                     *)
Running == IF b.dryrun THEN Sleeper(b) ELSE CurPid(b)

MidEvent ==
  /\ b.idx > 0
  /\ Len(b.thr[CurPid(b)].idx) < CurEv(b).index + CurEv(b).size - 1

AtEnd == b.idx = Len(b.prefix)

(* Replaying an event of several steps: one more of them.                     *)
ContinueEvent ==
  /\ pc = "schedule" /\ b.replay /\ MidEvent
  /\ b' = Assert1([b EXCEPT !.dryrun = FALSE,
                            !.thr[CurPid(b)].idx = Append(@, b.idx)],
                  "replayed threads are available", b.thr[CurPid(b)].available)
  /\ pc' = "run"
  /\ UNCHANGED <<setup, m, vc, traces>>

(* The prescribed events are used up.  With Optimal-DPOR nobody sleeps then.  *)
FinishReplay ==
  /\ pc = "schedule" /\ b.replay /\ ~MidEvent /\ AtEnd /\ b.ahead = <<>>
  /\ b' = Assert1([b EXCEPT !.dryrun = FALSE, !.replay = FALSE],
                  "replay ends awake",
                  setup.alg = "SOURCE" \/ \A p \in DOMAIN b.thr : ~b.thr[p].sleeping)
  /\ UNCHANGED <<setup, pc, m, vc, traces>>

SleepersLeft == ~AtEnd /\ b.dry < Len(b.prefix[b.idx + 1].sleep)

(* Before an event that puts threads to sleep: dry-run the next of them.      *)
DryRunSleeper ==
  /\ pc = "schedule" /\ b.replay /\ ~MidEvent /\ SleepersLeft
  /\ LET e == b.prefix[b.idx + 1]
         k == b.dry + 1
     IN  b' = [b EXCEPT
                 !.dry = k, !.dryrun = TRUE,
                 !.thr[e.sleep[k]].sleeping = TRUE,
                 !.thr[e.sleep[k]].sleepSym = <<>>,
                 !.prefix[b.idx + 1].sleepEv =
                    [n \in DOMAIN e.sleep |->
                       IF n = k \/ n \notin DOMAIN @ THEN <<>> ELSE @[n]]]
  /\ pc' = "run"
  /\ UNCHANGED <<setup, m, vc, traces>>

Begin(c, p) ==
  Assert1([c EXCEPT !.idx = @ + 1, !.symIdx = 0, !.dry = 0, !.dryrun = FALSE,
                    !.thr[p].idx = Append(@, b.idx + 1)],
          "replayed threads are available",
          b.thr[p].available /\ ~b.thr[p].sleeping)

(* Replay the next event of the prefix.                                       *)
ReplayEvent ==
  /\ pc = "schedule" /\ b.replay /\ ~MidEvent /\ ~AtEnd /\ ~SleepersLeft
  /\ b' = Begin([b EXCEPT !.prefix[b.idx + 1].after = {}], b.prefix[b.idx + 1].pid)
  /\ pc' = "run"
  /\ UNCHANGED <<setup, m, vc, traces>>

(* The prefix is used up, the wakeup tree is not: enter its first child.      *)
EnterWakeupTree ==
  /\ pc = "schedule" /\ b.replay /\ ~MidEvent /\ AtEnd /\ b.ahead # <<>>
  /\ LET br == Head(b.ahead)
         e  == NewEvent(br.pid, Len(b.thr[br.pid].idx) + 1, br.size, br.alt,
                        br.sym, Tail(b.ahead))
     IN  b' = Begin([b EXCEPT !.prefix = Append(@, e), !.ahead = br.kids], br.pid)
  /\ pc' = "run"
  /\ UNCHANGED <<setup, m, vc, traces>>

(* The last event is merged into the one before it when it is by the same     *)
(* thread and can conflict with nothing.                                      *)
Merges(c) ==
  LET n == Len(c.prefix)
  IN  /\ n > 1
      /\ c.prefix[n].pid = c.prefix[n - 1].pid
      /\ ~c.prefix[n].may /\ c.prefix[n].sleep = <<>>

Merged(c) ==
  LET n == Len(c.prefix)
      p == c.prefix[n].pid
  IN  IF ~Merges(c) THEN c
      ELSE Assert1([c EXCEPT !.prefix = [Front(@) EXCEPT ![n - 1].size =
                                           @ + c.prefix[n].size],
                             !.idx = @ - 1,
                             !.thr[p].idx = Append(Front(@), n - 1)],
                   "merging loses no branch",
                   c.prefix[n].later = <<>> /\ c.prefix[n].wakeup = {})

(* Available threads that are not asleep, in order of preference: auxiliary   *)
(* threads first, older before younger.                                       *)
Candidates == {p \in DOMAIN b.thr : b.thr[p].available /\ ~b.thr[p].sleeping}
Preferred ==
  Min(IF \E p \in Candidates : IsAux(p) THEN {p \in Candidates : IsAux(p)}
      ELSE Candidates)

ScheduleNew ==
  /\ pc = "schedule" /\ ~b.replay /\ Candidates # {}
  /\ \E c \in {Merged(b)}, p \in {Preferred} :
       b' = [c EXCEPT !.prefix = Append(@, NewEvent(p, Len(c.thr[p].idx) + 1,
                                                    1, 0, <<>>, <<>>)),
                      !.thr[p].idx = Append(@, c.idx + 1),
                      !.idx = @ + 1, !.symIdx = 0, !.dryrun = FALSE]
  /\ pc' = "run"
  /\ UNCHANGED <<setup, m, vc, traces>>

(* No thread is left to schedule: the execution is over, and the driver       *)
(* counts it as blocked if someone still sleeps.                              *)
EndExecution ==
  /\ pc = "schedule" /\ ~b.replay /\ Candidates = {}
  /\ b' = Merged(b)
  /\ traces' = Append(traces,
                 [log |-> m.log,
                  blocked |-> \E p \in DOMAIN b.thr : b.thr[p].sleeping])
  /\ pc' = "clocks"
  /\ UNCHANGED <<setup, m, vc>>

(* ----------------------- the interpreter's main loop ---------------------- *)

Thread == Running \div 2
Instr  == NextInstr(setup.prog, m, Thread)

(* The threads a step of the interpreter marks available, and those that have *)
(* come to their end.                                                         *)
Marked(c, m2) ==
  [c EXCEPT !.thr = [p \in DOMAIN @ |->
     IF ~IsAux(p) /\ p \div 2 \in m2.wake
     THEN [@[p] EXCEPT !.available = TRUE] ELSE @[p]]]
Ended(c, m2, t) ==
  IF m2.thr[t].live THEN c ELSE [c EXCEPT !.thr[2 * t].available = FALSE]

(* runAux: flush the oldest store of the buffer.                              *)
RunAux ==
  /\ pc = "run" /\ IsAux(Running)
  /\ LET ml == Head(m.thr[Thread].buf).ml
         v  == Head(m.thr[Thread].buf).val
         m2 == IF b.dryrun THEN m ELSE Flush(m, Thread)
     IN  /\ m' = m2
         /\ b' = IF b.dryrun THEN RegAtomicStore(b, ml, v)
                 ELSE Marked(RegAtomicStore(b, ml, v), m2)
  /\ pc' = "schedule"
  /\ UNCHANGED <<setup, vc, traces>>

(* checkRefuse and refuse_schedule: the event is taken back and the thread    *)
(* made unavailable.                                                          *)
RefuseInstruction ==
  /\ pc = "run" /\ ~IsAux(Running)
  /\ Refused(setup.mm, m, Thread, Instr)
  /\ m' = Refuse(setup.mm, m, Thread, Instr)
  /\ \E c \in {IF MutexRefused(m, Thread, Instr)
                  /\ ~JoinRefused(setup.mm, m, Instr)
                  /\ ~FenceRefused(setup.mm, m, Thread, Instr)
                  /\ ~LoadRefused(setup.mm, m, Thread, Instr)
               THEN RegLockFail(b, CHOOSE a \in NeedsMutex(m, Thread, Instr) : TRUE)
               ELSE b} :
       b' = Assert1([c EXCEPT !.prefix = Front(@), !.idx = @ - 1,
                              !.thr[Running].idx = Front(@),
                              !.thr[Running].available = FALSE],
                    "only a new event is refused",
                    /\ ~b.dryrun /\ AtEnd /\ CurEv(b).size = 1 /\ ~CurEv(b).may
                    /\ CurEv(b).sleep = <<>> /\ CurEv(b).wakeup = {}
                    /\ CurEv(b).later = <<>> /\ b.ahead = <<>>)
  /\ pc' = "schedule"
  /\ UNCHANGED <<setup, vc, traces>>

(* visit(I), for real or in a dry run.                                        *)
RunInstruction ==
  /\ pc = "run" /\ ~IsAux(Running)
  /\ ~Refused(setup.mm, m, Thread, Instr)
  /\ \E c \in {RegExecute(setup.mm, m, b, Thread, Instr)},
        m2 \in {IF b.dryrun THEN m
                ELSE Execute(setup.mm, m, Thread, Instr, CurEv(b).alt)} :
       /\ m' = m2
       /\ b' = IF b.dryrun THEN c ELSE Ended(Marked(c, m2), m2, Thread)
  /\ pc' = "schedule"
  /\ UNCHANGED <<setup, vc, traces>>

(* ---------------------- the end of an execution: reset -------------------- *)

ComputeClocks ==
  /\ pc = "clocks"
  /\ vc' = ComputeVClocks(b)
  /\ pc' = "races"
  /\ UNCHANGED <<setup, b, m, traces>>

DetectRaces ==
  /\ pc = "races"
  /\ b' = DoRaceDetect(setup.alg, b, vc)
  /\ pc' = "reset"
  /\ UNCHANGED <<setup, m, vc, traces>>

Open(prefix) == {k \in DOMAIN prefix : prefix[k].later # <<>>}

\* Faulty variant of TraceCount: the event at i itself is left out.
CountBehind(prefix, i) ==
  FoldLeft(LAMBDA n, e : n + e.earlier, 1, SubSeq(prefix, i + 1, Len(prefix)))

(* estimate_trace_count(i): how many executions share prefix[1..i-1] when     *)
(* nothing is open from i on.  Each event remembers those of its siblings     *)
(* (sleep_branch_trace_count).                                                *)
TraceCount(prefix, i) ==
  FoldLeft(LAMBDA n, e : n + e.earlier, 1, SubSeq(prefix, i, Len(prefix)))

(* The index the first step of p gets when it runs after prefix[1..i-1].      *)
NextIndex(prefix, i, p) ==
  1 + FoldLeft(LAMBDA n, k : IF prefix[k].pid = p THEN n + prefix[k].size ELSE n,
               0, [k \in 1..(i - 1) |-> k])

\* Faulty variant of SleepWith: those who slept there already are forgotten.
SleepAlone(e, br) ==
  IF br.pid = e.pid THEN e.sleep ELSE <<e.pid>>

SleepWith(e, br) ==
  IF br.pid = e.pid THEN e.sleep ELSE Ascending(ToSet(e.sleep) \cup {e.pid})

(* Go back to the deepest event with an untried branch, put the thread that   *)
(* ran there to sleep, and start over.                                        *)
Reset ==
  /\ pc = "reset" /\ Open(b.prefix) # {}
  /\ LET i  == Max(Open(b.prefix))
         e  == b.prefix[i]
         br == Head(e.later)
         new == NewEvent(br.pid, NextIndex(b.prefix, i, br.pid), br.size, br.alt,
                         br.sym, Tail(e.later))
         evt == [new EXCEPT !.sleep = SleepWith(e, br),
                            !.earlier = e.earlier + TraceCount(b.prefix, i + 1)]
     IN  b' = [Fresh(setup.prog, setup.alg, Append(SubSeq(b.prefix, 1, i - 1), evt),
                     br.kids, TRUE) EXCEPT !.broken = b.broken]
  /\ m' = NewMachine(setup.prog)
  /\ vc' = NoClocks
  /\ pc' = "schedule"
  /\ UNCHANGED <<setup, traces>>

(* No branch is left: the exploration is complete.                            *)
Stop ==
  /\ pc = "reset" /\ Open(b.prefix) = {}
  /\ pc' = "done"
  /\ UNCHANGED <<setup, b, m, vc, traces>>

TSONext ==
  \/ ContinueEvent \/ FinishReplay \/ DryRunSleeper \/ ReplayEvent
  \/ EnterWakeupTree \/ ScheduleNew \/ EndExecution
  \/ RunAux \/ RefuseInstruction \/ RunInstruction
  \/ ComputeClocks \/ DetectRaces \/ Reset \/ Stop

(* -------------------------------- properties ------------------------------ *)

(***************************************************************************)
(* "Optimal DPOR guarantees no redundant (sleep set blocked) executions"   *)
(* (doc/manual.tex:280): what the insertion loop of race_detect_optimal    *)
(* puts in the tree can always be run to its end.                          *)
(***************************************************************************)
NoneBlocked == setup.alg = "OPTIMAL" => \A k \in DOMAIN traces : ~traces[k].blocked

(***************************************************************************)
(* estimate_trace_count is exact at the end: the number of executions      *)
(* recomputed from what each event of the last one remembers of its        *)
(* siblings is the number that were run.                                   *)
(***************************************************************************)
CountExact ==
  pc = "done" /\ setup.alg \in {"SOURCE", "OPTIMAL"} => TraceCount(b.prefix, 1) = Len(traces)

(* The transitive closure of the conflicts between the events of prefix: for  *)
(* each event the positions it comes after.                                   *)
HappensBefore(prefix) ==
  LET Step(acc, k) ==
        LET direct == {j \in 1..(k - 1) :
                         EventsConflict(prefix[j].pid, prefix[j].sym,
                                        prefix[k].pid, prefix[k].sym)}
        IN  Append(acc, direct \cup UNION {acc[j] : j \in direct})
  IN  FoldLeft(Step, <<>>, [k \in DOMAIN prefix |-> k])

(***************************************************************************)
(* check_symev_vclock_equiv: the order the vector clocks give, computed    *)
(* from last accesses and last updates, is the one the symbolic events     *)
(* give, which is all the wakeup tree knows.                               *)
(***************************************************************************)
ClocksMatchConflicts ==
  pc = "races" /\ setup.alg = "OPTIMAL" =>
    \E hb \in {HappensBefore(b.prefix)} :
      \A k \in DOMAIN b.prefix : \A j \in 1..(k - 1) :
        j \in hb[k] <=> ClockLeq(vc.clocks[j], vc.clocks[k])
===============================================================================
