---------------------------- MODULE PSOTraceBuilder ---------------------------
(* Stateless model checking of a program under PSO by the trace builder of    *)
(* src/src/PSOTraceBuilder.cpp: Source-DPOR with sleep sets, where races are  *)
(* detected while an execution runs.  The variables are those of              *)
(* TSOTraceBuilder; `b` is as PSORegistration has it.                         *)
EXTENDS TSOTraceBuilder, PSORegistration

PsoFresh(prog, prefix, replay) ==
  [alg |-> "SOURCE", prefix |-> prefix,
   thr    |-> 0 :> NewPsoThread(0, NoAddr, 0, <<>>),
   real   |-> 0 :> 0,
   bytes  |-> [x \in prog.bytes |-> NoByte],
   mtx    |-> [a \in prog.mutexes |-> NoMutex],
   cnd    |-> [a \in prog.conds |-> NoCond],
   full   |-> 0, idx |-> 0, dry |-> 0, dryrun |-> FALSE,
   replay |-> replay, broken |-> {}]

PsoInit ==
  /\ pc = "pso-schedule"
  /\ b = PsoFresh(setup.prog, <<>>, FALSE)
  /\ m = NewMachine(setup.prog)
  /\ vc = NoClocks

PsoEvent(p, index, alt, clock) ==
  [pid |-> p, index |-> index, origin |-> [pid |-> p, index |-> index],
   size |-> 1, alt |-> alt, clock |-> clock, may |-> FALSE, branch |-> {},
   sleep |-> <<>>, wakeup |-> {}, earlier |-> 0]

(* -------------------------------- schedule -------------------------------- *)

StepsBy(p) == Time(b.thr[p].clock, p)
OneMore(p) == Join2(b.thr[p].clock, p :> StepsBy(p) + 1)

PsoMidEvent ==
  b.idx > 0 /\ StepsBy(CurPid(b)) < CurEv(b).index + CurEv(b).size - 1

PsoContinueEvent ==
  /\ pc = "pso-schedule" /\ b.replay /\ PsoMidEvent
  /\ b' = Assert1([b EXCEPT !.dryrun = FALSE,
                            !.thr[CurPid(b)].clock = OneMore(CurPid(b))],
                  "replayed threads are available", b.thr[CurPid(b)].available)
  /\ pc' = "pso-run"
  /\ UNCHANGED <<setup, m, vc, traces>>

PsoFinishReplay ==
  /\ pc = "pso-schedule" /\ b.replay /\ ~PsoMidEvent /\ AtEnd
  /\ b' = [b EXCEPT !.dryrun = FALSE, !.replay = FALSE]
  /\ UNCHANGED <<setup, pc, m, vc, traces>>

(* Before an event that puts threads to sleep: dry-run the next of them.      *)
PsoDryRunSleeper ==
  /\ pc = "pso-schedule" /\ b.replay /\ ~PsoMidEvent /\ SleepersLeft
  /\ b' = [b EXCEPT !.dry = @ + 1, !.dryrun = TRUE,
                    !.thr[b.prefix[b.idx + 1].sleep[b.dry + 1]].sleeping = TRUE]
  /\ pc' = "pso-run"
  /\ UNCHANGED <<setup, m, vc, traces>>

PsoReplayEvent ==
  /\ pc = "pso-schedule" /\ b.replay /\ ~PsoMidEvent /\ ~AtEnd /\ ~SleepersLeft
  /\ LET p == b.prefix[b.idx + 1].pid
     IN  b' = Assert1([b EXCEPT !.idx = @ + 1, !.dry = 0, !.dryrun = FALSE,
                                !.thr[p].clock = OneMore(p),
                                !.prefix[b.idx + 1].clock = OneMore(p)],
                      "replayed threads are available", b.thr[p].available)
  /\ pc' = "pso-run"
  /\ UNCHANGED <<setup, m, vc, traces>>

PsoMerged(c) ==
  LET n == Len(c.prefix)
  IN  IF ~Merges(c) THEN c
      ELSE Assert1([c EXCEPT !.prefix = [Front(@) EXCEPT ![n - 1].size = @ + 1],
                             !.idx = @ - 1],
                   "merging loses no branch",
                   c.prefix[n].branch = {} /\ c.prefix[n].wakeup = {})

(* is_aux_at_head: does the buffer of each byte have the store first?         *)
AuxAtHead(p) ==
  LET buf == b.thr[b.thr[p].parent].buf
  IN  \E k \in Flushable(buf) : buf[k].ml.addr = b.thr[p].byte

(* Auxiliary threads first, older before younger.                             *)
PsoAwake == {p \in DOMAIN b.thr : b.thr[p].available /\ ~b.thr[p].sleeping}
PsoAwakeAux == {p \in PsoAwake : IsAuxiliary(b, p) /\ AuxAtHead(p)}
PsoCandidates ==
  IF PsoAwakeAux # {} THEN PsoAwakeAux
  ELSE {p \in PsoAwake : ~IsAuxiliary(b, p)}

PsoScheduleNew ==
  /\ pc = "pso-schedule" /\ ~b.replay /\ PsoCandidates # {}
  /\ LET c == PsoMerged(b)
         p == Min(PsoCandidates)
     IN  b' = [c EXCEPT !.prefix = Append(@, PsoEvent(p, StepsBy(p) + 1, 0, OneMore(p))),
                        !.thr[p].clock = OneMore(p),
                        !.idx = @ + 1, !.dryrun = FALSE]
  /\ pc' = "pso-run"
  /\ UNCHANGED <<setup, m, vc, traces>>

PsoEndExecution ==
  /\ pc = "pso-schedule" /\ ~b.replay /\ PsoCandidates = {}
  /\ b' = PsoMerged(b)
  /\ traces' = Append(traces, [log |-> m.log, blocked |-> Sleepers(b) # {}])
  /\ pc' = "pso-reset"
  /\ UNCHANGED <<setup, m, vc>>

(* ----------------------- the interpreter's main loop ---------------------- *)

PsoThread == b.thr[Running].proc
PsoInstr  == NextInstr(setup.prog, m, PsoThread)

PsoMarked(c, m2) ==
  [c EXCEPT !.thr = [p \in DOMAIN @ |->
     IF p \in {c.real[t] : t \in m2.wake} THEN [@[p] EXCEPT !.available = TRUE]
     ELSE @[p]]]
PsoEnded(c, m2, t) ==
  IF m2.thr[t].live THEN c ELSE [c EXCEPT !.thr[c.real[t]].available = FALSE]

PsoRunAux ==
  /\ pc = "pso-run" /\ IsAuxiliary(b, Running)
  /\ LET x  == b.thr[Running].byte
         ml == m.thr[PsoThread].buf[Min(BufferOf(m.thr[PsoThread].buf, x))].ml
         c  == Assert1(PsoRegAtomicStore(b, ml), "updates are at the head",
                       AuxAtHead(Running))
         m2 == IF b.dryrun THEN m ELSE PsoFlush(m, PsoThread, x)
     IN  /\ m' = m2
         /\ b' = IF b.dryrun THEN c ELSE PsoMarked(c, m2)
  /\ pc' = "pso-schedule"
  /\ UNCHANGED <<setup, vc, traces>>

(* checkRefuse and refuse_schedule.                                           *)
PsoRefuseInstruction ==
  /\ pc = "pso-run" /\ ~IsAuxiliary(b, Running)
  /\ PsoRefused(m, PsoThread, PsoInstr)
  /\ m' = PsoRefuse(m, PsoThread, PsoInstr)
  /\ LET lock == /\ ~PsoJoinRefused(m, PsoInstr)
                 /\ ~PsoFenceRefused(m, PsoThread, PsoInstr)
                 /\ ~PsoLoadRefused(m, PsoThread, PsoInstr)
         c == IF lock
              THEN PsoRegLockFail(b, CHOOSE a \in NeedsMutex(m, PsoThread, PsoInstr) : TRUE)
              ELSE b
     IN  b' = Assert1([c EXCEPT !.prefix = Front(@), !.idx = @ - 1,
                                !.thr[Running].clock = (Running :> (StepsBy(Running) - 1)) @@ @,
                                !.thr[Running].available = FALSE],
                      "only a new event is refused",
                      /\ ~b.dryrun /\ AtEnd /\ CurEv(b).size = 1 /\ ~CurEv(b).may
                      /\ CurEv(b).sleep = <<>> /\ CurEv(b).wakeup = {}
                      /\ CurEv(b).branch = {})
  /\ pc' = "pso-schedule"
  /\ UNCHANGED <<setup, vc, traces>>

PsoRunInstruction ==
  /\ pc = "pso-run" /\ ~IsAuxiliary(b, Running)
  /\ ~PsoRefused(m, PsoThread, PsoInstr)
  /\ \E c \in {PsoRegExecute(m, b, PsoThread, PsoInstr)},
        m2 \in {IF b.dryrun THEN m
                ELSE PsoExecute(m, PsoThread, PsoInstr, CurEv(b).alt)} :
       /\ m' = m2
       /\ b' = IF b.dryrun THEN c ELSE PsoEnded(PsoMarked(c, m2), m2, PsoThread)
  /\ pc' = "pso-schedule"
  /\ UNCHANGED <<setup, vc, traces>>

(* ---------------------- the end of an execution: reset -------------------- *)

Branching == {k \in DOMAIN b.prefix : b.prefix[k].branch # {}}

Lesser(br, other) == br[1] < other[1] \/ (br[1] = other[1] /\ br[2] <= other[2])
FirstBranch(brs) == CHOOSE br \in brs : \A other \in brs : Lesser(br, other)

(* Go back to the deepest event with a branch, put the thread that ran there  *)
(* to sleep unless the branch is its own, and start over.                     *)
PsoReset ==
  /\ pc = "pso-reset" /\ Branching # {}
  /\ LET i  == Max(Branching)
         e  == b.prefix[i]
         br == FirstBranch(e.branch)
         new == PsoEvent(br[1], NextIndex(b.prefix, i, br[1]), br[2], <<>>)
         evt == [new EXCEPT
                   !.branch = e.branch \ {br},
                   !.sleep = IF br[1] = e.pid THEN e.sleep
                             ELSE Ascending(ToSet(e.sleep) \cup {e.pid}),
                   !.earlier = e.earlier + TraceCount(b.prefix, i + 1)]
     IN  b' = [PsoFresh(setup.prog, Append(SubSeq(b.prefix, 1, i - 1), evt), TRUE)
                 EXCEPT !.broken = b.broken]
  /\ m' = NewMachine(setup.prog)
  /\ pc' = "pso-schedule"
  /\ UNCHANGED <<setup, vc, traces>>

PsoStop ==
  /\ pc = "pso-reset" /\ Branching = {}
  /\ pc' = "done"
  /\ UNCHANGED <<setup, b, m, vc, traces>>

PsoNext ==
  \/ PsoContinueEvent \/ PsoFinishReplay \/ PsoDryRunSleeper \/ PsoReplayEvent
  \/ PsoScheduleNew \/ PsoEndExecution
  \/ PsoRunAux \/ PsoRefuseInstruction \/ PsoRunInstruction
  \/ PsoReset \/ PsoStop
===============================================================================
