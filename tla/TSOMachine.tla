------------------------------ MODULE TSOMachine ------------------------------
(* The machine a test program runs on: threads, their store buffers, memory   *)
(* and the pthread objects, as the interpreters keep them (src/src/           *)
(* TSOInterpreter.cpp for TSO, src/src/Execution.cpp for SC and for all that  *)
(* the two share).  Everything here is a pure operator on a machine state, so *)
(* that the trace builder of TSOTraceBuilder and the enumeration of all       *)
(* executions in ExecutionClasses run the very same machine.                  *)
(*                                                                            *)
(* A location is [addr, size]; it covers `size` bytes and a store writes its  *)
(* value to each of them.  A machine state is a record:                       *)
(*   thr  - what the interpreter keeps per thread (Thread and TSOThread)      *)
(*   mem  - per byte its value and the instruction that wrote it              *)
(*   own, queue - per mutex its owner (NoTid: unlocked) and who waits for it  *)
(*   cond - per condition variable the threads waiting, in order of arrival   *)
(*   wake - threads the last step marked available (TB.mark_available)        *)
(*   log  - what an execution is compared by: who read from whom, the order   *)
(*          of writes to each byte, of operations on each mutex, which signal *)
(*          woke whom, and which alternatives were chosen                     *)
EXTENDS LLVMInstructions, FiniteSets, TLC

NoTid == -1

Bytes(ml) == ml.addr .. ml.addr + ml.size - 1
Overlaps(ml1, ml2) == Bytes(ml1) \cap Bytes(ml2) # {}

(* A thread as pthread_create makes it (newThread of Interpreter and of       *)
(* TSOInterpreter; PSOThread keeps what it waits for in two fields of its     *)
(* own).  `live` is "the stack is not empty", `reg` what was loaded last and   *)
(* `vals` the other registers (SF.Values).                                    *)
NewThread == [pc |-> 1, live |-> TRUE, assumeBlocked |-> FALSE,
              reg |-> <<0>>, vals |-> <<>>, buf |-> <<>>, partialFlush |-> -1,
              flush |-> "no", flushMl |-> [addr |-> 0, size |-> 0],
              awaitingJoin |-> {}, pendingLock |-> NoTid, pendingCond |-> NoTid,
              waiting |-> FALSE]

NewMachine(prog) ==
  [thr   |-> [t \in {0} |-> NewThread],
   mem   |-> [b \in prog.bytes |-> [val |-> 0, by |-> <<NoTid, 0>>]],
   own   |-> [a \in prog.mutexes |-> NoTid],
   queue |-> [a \in prog.mutexes |-> {}],
   cond  |-> [c \in prog.conds |-> <<>>],
   wake  |-> {},
   log   |-> [rf |-> {}, co |-> [b \in prog.bytes |-> <<>>],
              lock |-> [a \in prog.mutexes |-> <<>>], woke |-> {}, alt |-> {}]]

(* The instruction thread t executes next; after the last one comes its       *)
(* return.                                                                    *)
NextInstr(prog, m, t) ==
  IF m.thr[t].pc <= Len(prog.code[t + 1])
  THEN prog.code[t + 1][m.thr[t].pc] ELSE [op |-> "ret"]

Id(m, t) == <<t, m.thr[t].pc>>

(* ------------------------- refused instructions --------------------------- *)

(* isFence: these wait, under TSO, until the store buffer is empty.  Calls to *)
(* declared functions fence, but for malloc and __VERIFIER_assume.            *)
FenceOps == {"fence", "xstore", "rmw", "cas", "spawn", "join", "minit", "lock",
             "trylock", "unlock", "mdestroy", "cinit", "wait", "signal", "bcast",
             "cdestroy", "extern"}

JoinRefused(mm, m, i) ==
  /\ i.op = "join"
  /\ \/ m.thr[i.to].live
     \/ m.thr[i.to].assumeBlocked
     \/ mm = "TSO" /\ m.thr[i.to].buf # <<>>

FenceRefused(mm, m, t, i) ==
  mm = "TSO" /\ i.op \in FenceOps /\ m.thr[t].buf # <<>>

(* The newest buffered store that overlaps ml, or 0.                          *)
NewestOverlap(buf, ml) ==
  Max({0} \cup {k \in DOMAIN buf : Overlaps(buf[k].ml, ml)})

(* A load waits while the newest overlapping buffered store covers other      *)
(* bytes than the load does.                                                  *)
LoadRefused(mm, m, t, i) ==
  /\ mm = "TSO" /\ i.op = "load"
  /\ NewestOverlap(m.thr[t].buf, i.ml) # 0
  /\ m.thr[t].buf[NewestOverlap(m.thr[t].buf, i.ml)].ml # i.ml

(* The mutex this step has to acquire: a lock call, or the reacquisition that *)
(* ends a pthread_cond_wait.                                                  *)
NeedsMutex(m, t, i) ==
  IF m.thr[t].pendingLock # NoTid THEN {m.thr[t].pendingLock}
  ELSE IF i.op = "lock" THEN {i.mutex} ELSE {}

MutexRefused(m, t, i) == \E a \in NeedsMutex(m, t, i) : m.own[a] # NoTid

Refused(mm, m, t, i) ==
  \/ JoinRefused(mm, m, i) \/ FenceRefused(mm, m, t, i)
  \/ LoadRefused(mm, m, t, i) \/ MutexRefused(m, t, i)

(* checkRefuse: remember what the thread waits for, in the order of the       *)
(* tests in the two functions.                                                *)
Refuse(mm, m, t, i) ==
  IF JoinRefused(mm, m, i)
  THEN [m EXCEPT !.wake = {}, !.thr[i.to].awaitingJoin = @ \cup {t}]
  ELSE IF FenceRefused(mm, m, t, i)
  THEN [m EXCEPT !.wake = {}, !.thr[t].partialFlush = 0]
  ELSE IF LoadRefused(mm, m, t, i)
  THEN [m EXCEPT !.wake = {},
                 !.thr[t].partialFlush =
                    Len(m.thr[t].buf) - NewestOverlap(m.thr[t].buf, i.ml)]
  ELSE [m EXCEPT !.wake = {},
                 !.queue = [a \in DOMAIN @ |-> IF a \in NeedsMutex(m, t, i)
                                               THEN @[a] \cup {t} ELSE @[a]]]

(* ----------------------------- memory access ------------------------------ *)

(* Write val to the bytes of ml on behalf of instruction id.                  *)
WriteMem(m, ml, val, id) ==
  [m EXCEPT !.mem = [b \in DOMAIN @ |-> IF b \in Bytes(ml)
                                        THEN [val |-> val, by |-> id] ELSE @[b]],
            !.log.co = [b \in DOMAIN @ |-> IF b \in Bytes(ml)
                                           THEN Append(@[b], id) ELSE @[b]]]

(* What a load of ml by t finds: the newest buffered store to the same        *)
(* address (read own write early), else memory.                               *)
Forwarding(m, t, ml) ==
  Max({0} \cup {k \in DOMAIN m.thr[t].buf : m.thr[t].buf[k].ml.addr = ml.addr})

Found(m, t, ml) ==
  LET k == Forwarding(m, t, ml)
  IN  [j \in 1..ml.size |->
         IF k # 0 THEN [val |-> m.thr[t].buf[k].val, by |-> m.thr[t].buf[k].id]
                  ELSE m.mem[ml.addr + j - 1]]

ReadMem(m, t, ml) ==
  LET f == Found(m, t, ml)
  IN  [m EXCEPT !.thr[t].reg = [j \in DOMAIN f |-> f[j].val],
                !.log.rf = @ \cup {<<Id(m, t), ml.addr + j - 1, f[j].by>> :
                                   j \in DOMAIN f}]

(* ------------------------------ instructions ------------------------------ *)

Advance(m, t) == [m EXCEPT !.wake = {}, !.thr[t].pc = @ + 1]

Spawn(m, t, i) ==
  [Advance(m, t) EXCEPT !.thr =
     [u \in DOMAIN @ \cup {i.to} |-> IF u = i.to THEN NewThread ELSE @[u]]]

Store(mm, m, t, i) ==
  IF mm = "SC" THEN Advance(WriteMem(m, i.ml, i.val, Id(m, t)), t)
  ELSE [Advance(m, t) EXCEPT
          !.thr[t].buf = Append(@, [ml |-> i.ml, val |-> i.val, id |-> Id(m, t)])]

AtomicStore(m, t, i) == Advance(WriteMem(m, i.ml, i.val, Id(m, t)), t)

Load(m, t, i) == Advance(ReadMem(m, t, i.ml), t)

ByteWidth == 8
NewVal(m, i) == RMWResult(i.rmw, m.mem[i.ml.addr].val, i.val, ByteWidth)
AtomicRMW(m, t, i) ==
  Advance(WriteMem(ReadMem(m, t, i.ml), i.ml, NewVal(m, i), Id(m, t)), t)

CasSucceeds(m, i) == m.mem[i.ml.addr].val = i.exp
AtomicCmpXchg(m, t, i) ==
  Advance(IF CasSucceeds(m, i)
          THEN WriteMem(ReadMem(m, t, i.ml), i.ml, i.val, Id(m, t))
          ELSE ReadMem(m, t, i.ml), t)

(* An unknown external function: it may read and write everything, so for     *)
(* the comparison of executions it reads and rewrites every byte and touches  *)
(* every mutex.                                                               *)
External(m, t) ==
  LET id == Id(m, t)
  IN  [Advance(m, t) EXCEPT
         !.log.rf = @ \cup {<<id, b, m.mem[b].by>> : b \in DOMAIN m.mem},
         !.log.co = [b \in DOMAIN @ |-> Append(@[b], id)],
         !.log.lock = [a \in DOMAIN @ |-> Append(@[a], id)],
         !.mem = [b \in DOMAIN @ |-> [@[b] EXCEPT !.by = id]]]

(* malloc with --malloc-may-fail: alternative 0 returns null.                 *)
Malloc(m, t, alt) ==
  [Advance(m, t) EXCEPT !.thr[t].reg = <<alt>>,
                        !.log.alt = @ \cup {<<Id(m, t), alt>>}]

(* __VERIFIER_assume: a thread whose assumption fails stops for good, and is  *)
(* never joined with.                                                         *)
Holds(m, t, i) == m.thr[t].reg = i.reg
Assume(m, t, i) ==
  IF Holds(m, t, i) THEN Advance(m, t)
  ELSE [Advance(m, t) EXCEPT !.thr[t].live = FALSE,
                             !.thr[t].assumeBlocked = TRUE]

(* A conditional branch over the next i.skip instructions.                    *)
Branch(m, t, i) ==
  IF Holds(m, t, i) THEN Advance(m, t)
  ELSE [Advance(m, t) EXCEPT !.thr[t].pc = @ + i.skip]

(* getOperandValue: a constant expression, a constant (both with r = 0), what *)
(* was loaded last (Loaded), or another register.                             *)
Loaded == -1
OperandValue(th, o) ==
  CASE o.r = Loaded -> th.reg
    [] o.r = 0 /\ "f" \in DOMAIN o -> getConstantExprValue(o, o.args)
    [] o.r = 0 /\ "f" \notin DOMAIN o -> o.c
    [] OTHER -> th.vals[o.r]
SetValue(th, r, v) == [th EXCEPT !.vals = (r :> v) @@ @]

(* An instruction that touches no memory; its register is named by its place. *)
Calculate(m, t, i) ==
  LET v == [k \in DOMAIN i.args |-> OperandValue(m.thr[t], i.args[k])]
  IN  [Advance(m, t) EXCEPT !.thr[t] = SetValue(@, m.thr[t].pc, InstructionValue(i, v))]

(* A jump to the block at dest.pc, whose phi nodes get the values that belong *)
(* to the block it comes from: all are read before any is set.                *)
SwitchToNewBasicBlock(m, t, dest) ==
  LET read == [r \in DOMAIN dest.phis |-> OperandValue(m.thr[t], dest.phis[r])]
  IN  [m EXCEPT !.wake = {}, !.thr[t].vals = read @@ @, !.thr[t].pc = dest.pc]

(* Where a switch and an indirectbr go when their operand is v.               *)
Switch(i, v) ==
  LET hits == {k \in DOMAIN i.cases : executeICMP("eq", v, i.cases[k].is, i.ty) # <<0>>}
  IN  IF hits = {} THEN i.default ELSE i.cases[Min(hits)].to
IndirectBr(i, v) == CHOOSE d \in i.blocks : <<d.pc>> = v

Destination(i, v) == IF i.op = "switch" THEN Switch(i, v) ELSE IndirectBr(i, v)
Jump(m, t, i) == SwitchToNewBasicBlock(m, t, Destination(i, OperandValue(m.thr[t], i.d)))

(* terminate: under TSO those waiting to join are only woken once the buffer  *)
(* has drained.                                                               *)
Return(m, t) ==
  [Advance(m, t) EXCEPT !.thr[t].live = FALSE,
     !.wake = IF m.thr[t].buf = <<>> THEN m.thr[t].awaitingJoin ELSE {}]

(* ---------------------- mutexes and condition variables ------------------- *)

Acquire(m, t, a, id) ==
  [m EXCEPT !.own[a] = t, !.log.lock[a] = Append(@, id)]

Lock(m, t, i) == Advance(Acquire(m, t, i.mutex, Id(m, t)), t)

TryLock(m, t, i) ==
  LET got == m.own[i.mutex] = NoTid
  IN  [Advance(m, t) EXCEPT
         !.own[i.mutex] = IF got THEN t ELSE @,
         !.thr[t].reg = <<IF got THEN 0 ELSE 1>>,
         !.log.lock[i.mutex] = Append(@, Id(m, t))]

(* Everyone waiting for the mutex may try again.                              *)
Release(m, t, a) ==
  [Advance(m, t) EXCEPT !.own[a] = NoTid, !.queue[a] = {},
                        !.wake = m.queue[a],
                        !.log.lock[a] = Append(@, Id(m, t))]

Unlock(m, t, i) == Release(m, t, i.mutex)

(* pthread_mutex_init and pthread_mutex_destroy of a mutex nobody holds.      *)
MutexInit(m, t, i) ==
  [Advance(m, t) EXCEPT !.log.lock[i.mutex] = Append(@, Id(m, t))]

CondWait(m, t, i) ==
  [Release(m, t, i.mutex) EXCEPT !.thr[t].pendingLock = i.mutex,
                                 !.thr[t].pendingCond = i.cond,
                                 !.thr[t].waiting = TRUE,
                                 !.cond[i.cond] = Append(@, t)]

(* The waiters a signal can choose from are its alternatives.                 *)
CondSignal(m, t, i, alt) ==
  IF m.cond[i.cond] = <<>> THEN Advance(m, t)
  ELSE LET w == m.cond[i.cond][alt + 1]
       IN  [Advance(m, t) EXCEPT
              !.cond[i.cond] = RemoveAt(@, alt + 1),
              !.thr[w].waiting = FALSE, !.wake = {w},
              !.log.woke = @ \cup {<<Id(m, t), Id(m, w)>>}]

CondBroadcast(m, t, i) ==
  LET ws == ToSet(m.cond[i.cond])
  IN  [Advance(m, t) EXCEPT
         !.cond[i.cond] = <<>>, !.wake = ws,
         !.thr = [u \in DOMAIN @ |-> IF u \in ws
                     THEN [@[u] EXCEPT !.waiting = FALSE] ELSE @[u]],
         !.log.woke = @ \cup {<<Id(m, t), Id(m, u)>> : u \in ws}]

(* pthread_cond_destroy: says EBUSY, and forgets the waiters all the same.    *)
EBUSY == 16
CondDestroy(m, t, i) ==
  [Advance(m, t) EXCEPT !.thr[t].reg = <<IF m.cond[i.cond] = <<>> THEN 0 ELSE EBUSY>>,
                        !.cond[i.cond] = <<>>]

(* doPthreadCondAwake, which runs just before the thread's next instruction.  *)
CondAwake(m, t) ==
  IF m.thr[t].pendingLock = NoTid THEN m
  ELSE [Acquire(m, t, m.thr[t].pendingLock, <<t, -m.thr[t].pc>>)
          EXCEPT !.thr[t].pendingLock = NoTid]

(* One instruction, visit(I).                                                 *)
Visit(mm, m, t, i, alt) ==
  CASE i.op = "spawn"   -> Spawn(m, t, i)
    [] i.op = "store"   -> Store(mm, m, t, i)
    [] i.op = "xstore"  -> AtomicStore(m, t, i)
    [] i.op = "load"    -> Load(m, t, i)
    [] i.op = "rmw"     -> AtomicRMW(m, t, i)
    [] i.op = "cas"     -> AtomicCmpXchg(m, t, i)
    [] i.op = "extern"  -> External(m, t)
    [] i.op = "malloc"  -> Malloc(m, t, alt)
    [] i.op = "assume"  -> Assume(m, t, i)
    [] i.op = "branch"  -> Branch(m, t, i)
    [] i.op = "calc"    -> Calculate(m, t, i)
    [] i.op \in {"switch", "ibr"} -> Jump(m, t, i)
    [] i.op = "lock"    -> Lock(m, t, i)
    [] i.op = "trylock" -> TryLock(m, t, i)
    [] i.op = "unlock"  -> Unlock(m, t, i)
    [] i.op \in {"minit", "mdestroy"} -> MutexInit(m, t, i)
    [] i.op = "wait"    -> CondWait(m, t, i)
    [] i.op = "signal"  -> CondSignal(m, t, i, alt)
    [] i.op = "bcast"   -> CondBroadcast(m, t, i)
    [] i.op = "cdestroy" -> CondDestroy(m, t, i)
    [] i.op = "ret"     -> Return(m, t)
    [] OTHER            -> Advance(m, t)        \* fence, join, cinit, local

Execute(mm, m, t, i, alt) == Visit(mm, CondAwake(m, t), t, i, alt)

\* Faulty variant of Flush: a thread that waits is woken one store late.
FlushLate(m, t) ==
  LET st   == Head(m.thr[t].buf)
      rest == Tail(m.thr[t].buf)
      w    == WriteMem(m, st.ml, st.val, st.id)
      due  == Len(rest) < m.thr[t].partialFlush
  IN  [w EXCEPT !.thr[t].buf = rest,
                !.thr[t].partialFlush = IF due THEN -1 ELSE @,
                !.wake = (IF due THEN {t} ELSE {})
                         \cup (IF rest = <<>> /\ ~m.thr[t].live
                               THEN m.thr[t].awaitingJoin ELSE {})]

(* runAux: the oldest buffered store reaches memory.  A thread that waited    *)
(* for the buffer to drain so far is woken, and once it is empty, those who   *)
(* wait to join with a thread that has terminated.                            *)
Flush(m, t) ==
  LET st   == Head(m.thr[t].buf)
      rest == Tail(m.thr[t].buf)
      w    == WriteMem(m, st.ml, st.val, st.id)
      due  == Len(rest) <= m.thr[t].partialFlush
  IN  [w EXCEPT !.thr[t].buf = rest,
                !.thr[t].partialFlush = IF due THEN -1 ELSE @,
                !.wake = (IF due THEN {t} ELSE {})
                         \cup (IF rest = <<>> /\ ~m.thr[t].live
                               THEN m.thr[t].awaitingJoin ELSE {})]

(* Can thread t execute its next instruction in m?                            *)
CanStep(prog, mm, m, t) ==
  /\ m.thr[t].live /\ ~m.thr[t].waiting
  /\ ~Refused(mm, m, t, NextInstr(prog, m, t))
CanFlush(m, t) == m.thr[t].buf # <<>>
===============================================================================
