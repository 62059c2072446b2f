--------------------------- MODULE Interpreter_proofs ---------------------------
(* The interpreter of src/src/Execution.cpp and its two subclasses for TSO    *)
(* and PSO, with the availability of threads that it reports to the trace     *)
(* builder: for every program and every order in which a trace builder may    *)
(* schedule it.  The machine is that of TSOMachine and PSOMachine; here it    *)
(* gets its next-state relation, and theorems about it.                       *)
EXTENDS PSOMachine, SequenceTheorems, WellFoundedInduction, TLAPS

(* The program, and the memory model: "SC", "TSO" or "PSO".                   *)
CONSTANTS Prog, Model
(* The machine, and the threads the trace builder holds for available.        *)
VARIABLES mach, avail

(* The threads that exist, and the instruction that comes next in one of      *)
(* them.                                                                      *)
Threads == DOMAIN mach.thr
Instruction(t) == NextInstr(Prog, mach, t)

(* checkRefuse of the model's own interpreter: Interpreter, TSOInterpreter or *)
(* PSOInterpreter.                                                            *)
IsRefused(m, t, i) ==
  IF Model = "PSO" THEN PsoRefused(m, t, i) ELSE Refused(Model, m, t, i)

(* What checkRefuse leaves behind of a thread that it refuses.                *)
Refusal(m, t, i) ==
  IF Model = "PSO" THEN PsoRefuse(m, t, i) ELSE Refuse(Model, m, t, i)

(* The calls a program may make, by the interpreter's own assertions and      *)
(* error checks: it joins threads it has created, every thread gets a number  *)
(* of its own (newThread), mutexes have been initialised, who unlocks a mutex *)
(* or waits with it holds it by then (a wait that has ended takes it before   *)
(* the next instruction runs), no mutex is initialised or destroyed while it  *)
(* is held, and loads and stores access at least one byte.                    *)
IsLocation(ml) == ml.addr \in Nat /\ ml.size \in Nat \ {0}
Allowed(m, t, i) ==
  /\ i.op = "join" => i.to \in DOMAIN m.thr \ {t}
  /\ i.op = "spawn" => i.to \in Nat \ DOMAIN m.thr
  /\ i.op \in {"lock", "trylock", "unlock", "wait"} => i.mutex \in DOMAIN m.own
  /\ i.op \in {"unlock", "wait"} => CondAwake(m, t).own[i.mutex] = t
  /\ i.op \in {"minit", "mdestroy"} => CondAwake(m, t).own[i.mutex] = NoTid
  /\ i.op \in {"load", "store"} => IsLocation(i.ml)

(* One thread, which is available.                                            *)
Init == mach = NewMachine(Prog) /\ avail = {0}

(* TB.schedule: an available thread, which has neither terminated nor waits   *)
(* for a condition; what it does next is a legal call.                        *)
Scheduled(t) ==
  /\ t \in avail \cap Threads
  /\ mach.thr[t].live /\ ~mach.thr[t].waiting
  /\ Allowed(mach, t, Instruction(t))

(* checkRefuse: the thread becomes unavailable.                               *)
RefuseThread(t) ==
  /\ Scheduled(t) /\ IsRefused(mach, t, Instruction(t))
  /\ mach' = Refusal(mach, t, Instruction(t))
  /\ avail' = avail \ {t}

(* visit(I): a thread that terminates, fails an assumption or waits for a     *)
(* condition becomes unavailable; those the step wakes, and the thread it     *)
(* creates, become available.                                                 *)
Stopped(m, t) == ~m.thr[t].live \/ m.thr[t].waiting
RunThread(t) ==
  /\ Scheduled(t) /\ ~IsRefused(mach, t, Instruction(t))
  /\ \E alt \in Alternatives(mach, Instruction(t)) :
       mach' = Ran(Model, mach, t, Instruction(t), alt)
  /\ avail' = (IF Stopped(mach', t) THEN avail \ {t} ELSE avail)
              \cup mach'.wake \cup (DOMAIN mach'.thr \ Threads)

(* runAux: one of the thread's stores reaches memory.                         *)
FlushThread(t) ==
  /\ mach' \in Flushes(Model, mach, t)
  /\ avail' = avail \cup mach'.wake

(* Interpreter::run: the trace builder may pick any thread and any of its     *)
(* alternatives, in any order, or let a buffered store reach memory.          *)
Next == \E t \in Threads : RefuseThread(t) \/ RunThread(t) \/ FlushThread(t)
Spec == Init /\ [][Next]_<<mach, avail>>

(* No thread that is unavailable could go on: whatever makes its next         *)
(* instruction possible (the last thread it joins with, the store that leaves *)
(* its buffer, the mutex that is unlocked, the signal) has also called        *)
(* mark_available for it. Else run() would stop with the thread still able to *)
(* step, and the exploration would miss executions or report a deadlock that  *)
(* is none.                                                                   *)
NoneForgotten == \A t \in Threads \ avail : ~MayStep(Prog, Model, mach, t)

(* ------------------------ what a step leaves alone ----------------------- *)

(* The fields a thread and a machine have in TSOMachine.                      *)
ThreadFields == {"pc", "live", "assumeBlocked", "reg", "vals", "buf", "partialFlush", "flush",
                 "flushMl", "awaitingJoin", "pendingLock", "pendingCond", "waiting"}
MachineFields == {"thr", "mem", "own", "queue", "cond", "wake", "log"}
IsMachine(m) ==
  /\ DOMAIN m = MachineFields
  /\ \A u \in DOMAIN m.thr : DOMAIN m.thr[u] = ThreadFields
  /\ DOMAIN m.queue = DOMAIN m.own

(* Only thread t's own registers and place, memory and the log change, and a  *)
(* mutex that is held stays held.                                             *)
Plain(m, t, n) ==
  /\ IsMachine(n) /\ DOMAIN n.thr = DOMAIN m.thr
  /\ \A u \in DOMAIN m.thr \ {t} : n.thr[u] = m.thr[u]
  /\ n.thr[t].awaitingJoin = m.thr[t].awaitingJoin
  /\ n.thr[t].live = m.thr[t].live /\ n.thr[t].buf = m.thr[t].buf
  /\ n.thr[t].pendingLock \in {m.thr[t].pendingLock, NoTid}
  /\ n.queue = m.queue /\ DOMAIN n.own = DOMAIN m.own
  /\ \A a \in DOMAIN m.own : m.own[a] # NoTid => n.own[a] # NoTid

(* Two such steps in a row are one.                                           *)
LEMMA PlainTrans ==
  ASSUME NEW m, NEW n, NEW o, NEW t \in DOMAIN m.thr, Plain(m, t, n), Plain(n, t, o)
  PROVE  Plain(m, t, o)
BY DEF Plain

(* Moving on to the next instruction is such a step.                          *)
LEMMA AdvancePlain ==
  ASSUME NEW m, NEW t \in DOMAIN m.thr, IsMachine(m)
  PROVE  Plain(m, t, Advance(m, t))
BY DEF Advance, Plain, IsMachine, MachineFields, ThreadFields

(* A write to memory is such a step.                                          *)
LEMMA WriteMemPlain ==
  ASSUME NEW m, NEW t \in DOMAIN m.thr, IsMachine(m), NEW ml, NEW val, NEW id
  PROVE  Plain(m, t, WriteMem(m, ml, val, id))
BY DEF WriteMem, Plain, IsMachine, MachineFields, ThreadFields

(* A read, from memory or from the buffer, is such a step.                    *)
LEMMA ReadMemPlain ==
  ASSUME NEW m, NEW t \in DOMAIN m.thr, IsMachine(m), NEW ml
  PROVE  Plain(m, t, ReadMem(m, t, ml))
BY DEF ReadMem, Plain, IsMachine, MachineFields, ThreadFields

(* doPthreadCondAwake, which takes the mutex of a wait that has ended, is     *)
(* such a step.                                                               *)
LEMMA CondAwakePlain ==
  ASSUME NEW m, NEW t \in DOMAIN m.thr, IsMachine(m), NoTid # t
  PROVE  Plain(m, t, CondAwake(m, t))
BY DEF CondAwake, Acquire, Plain, IsMachine, MachineFields, ThreadFields

(* pthread_mutex_trylock is such a step.                                      *)
LEMMA TryLockPlain ==
  ASSUME NEW m, NEW t \in DOMAIN m.thr, IsMachine(m), NoTid # t, NEW i
  PROVE  Plain(m, t, TryLock(m, t, i))
BY DEF TryLock, Advance, Plain, IsMachine, MachineFields, ThreadFields

(* Atomic stores, loads, read-modify-writes and compare-exchanges are such    *)
(* steps.                                                                     *)
LEMMA AccessPlain ==
  ASSUME NEW m, NEW t \in DOMAIN m.thr, IsMachine(m), NEW i
  PROVE  /\ Plain(m, t, AtomicStore(m, t, i))
         /\ Plain(m, t, Load(m, t, i))
         /\ Plain(m, t, AtomicRMW(m, t, i))
         /\ Plain(m, t, AtomicCmpXchg(m, t, i))
<1> DEFINE r == ReadMem(m, t, i.ml)
<1>1. ASSUME NEW n, Plain(m, t, n) PROVE Plain(m, t, Advance(n, t))
  BY <1>1, AdvancePlain, PlainTrans DEF Plain
<1>2. ASSUME NEW n, Plain(m, t, n), NEW ml, NEW val, NEW id
      PROVE  Plain(m, t, WriteMem(n, ml, val, id))
  BY <1>2, WriteMemPlain, PlainTrans DEF Plain
<1>3. Plain(m, t, m)
  BY DEF Plain
<1>4. Plain(m, t, r)
  BY ReadMemPlain
<1>5. Plain(m, t, AtomicStore(m, t, i))
  BY <1>1, <1>2, <1>3 DEF AtomicStore
<1>6. Plain(m, t, Load(m, t, i))
  BY <1>1, <1>4 DEF Load
<1>7. Plain(m, t, AtomicRMW(m, t, i))
  BY <1>1, <1>2, <1>4 DEF AtomicRMW
<1>8. Plain(m, t, AtomicCmpXchg(m, t, i))
  BY <1>1, <1>2, <1>4 DEF AtomicCmpXchg
<1> QED BY <1>5, <1>6, <1>7, <1>8

(* So are calls to external functions, malloc, branches, pthread_mutex_init   *)
(* and _destroy, and pthread_cond_destroy.                                    *)
LEMMA LocalPlain ==
  ASSUME NEW m, NEW t \in DOMAIN m.thr, IsMachine(m), NEW i, NEW alt
  PROVE  /\ Plain(m, t, External(m, t))
         /\ Plain(m, t, Malloc(m, t, alt))
         /\ Plain(m, t, Branch(m, t, i))
         /\ Plain(m, t, MutexInit(m, t, i))
         /\ Plain(m, t, CondDestroy(m, t, i))
<1>1. Plain(m, t, External(m, t))
  BY DEF External, Advance, Plain, IsMachine, MachineFields, ThreadFields
<1>2. Plain(m, t, Malloc(m, t, alt))
  BY DEF Malloc, Advance, Plain, IsMachine, MachineFields, ThreadFields
<1>3. Plain(m, t, Branch(m, t, i))
  BY DEF Branch, Advance, Plain, IsMachine, MachineFields, ThreadFields
<1>4. Plain(m, t, MutexInit(m, t, i))
  BY DEF MutexInit, Advance, Plain, IsMachine, MachineFields, ThreadFields
<1>5. Plain(m, t, CondDestroy(m, t, i))
  BY DEF CondDestroy, Advance, Plain, IsMachine, MachineFields, ThreadFields
<1> QED BY <1>1, <1>2, <1>3, <1>4, <1>5

(* pthread_mutex_lock is such a step.                                         *)
LEMMA LockPlain ==
  ASSUME NEW m, NEW t \in DOMAIN m.thr, IsMachine(m), NEW i, t # NoTid
  PROVE  Plain(m, t, Lock(m, t, i))
BY DEF Lock, Acquire, Advance, Plain, IsMachine, MachineFields, ThreadFields

(* An instruction that only computes a value is such a step.                  *)
LEMMA CalculatePlain ==
  ASSUME NEW m, NEW t \in DOMAIN m.thr, IsMachine(m), NEW i
  PROVE  Plain(m, t, Calculate(m, t, i))
<1> DEFINE v == [k \in DOMAIN i.args |-> OperandValue(m.thr[t], i.args[k])]
           x == InstructionValue(i, v)
<1>1. Calculate(m, t, i) = [Advance(m, t) EXCEPT !.thr[t] = SetValue(@, m.thr[t].pc, x)]
  BY DEF Calculate
<1> HIDE DEF x
<1> QED BY <1>1 DEF SetValue, Advance, Plain, IsMachine, MachineFields, ThreadFields

(* Entering a basic block, with its phi nodes, is such a step.                *)
LEMMA SwitchToNewBasicBlockPlain ==
  ASSUME NEW m, NEW t \in DOMAIN m.thr, IsMachine(m), NEW dest
  PROVE  Plain(m, t, SwitchToNewBasicBlock(m, t, dest))
BY DEF SwitchToNewBasicBlock, Plain, IsMachine, MachineFields, ThreadFields

(* A switch or an indirect branch is such a step.                             *)
LEMMA JumpPlain ==
  ASSUME NEW m, NEW t \in DOMAIN m.thr, IsMachine(m), NEW i
  PROVE  Plain(m, t, Jump(m, t, i))
BY SwitchToNewBasicBlockPlain DEF Jump

(* What a step of thread t from m to n does to the other threads and to those *)
(* who wait for t or for a mutex: who is not woken waits as before.           *)
OthersKept(m, t, n) ==
  \A u \in DOMAIN m.thr \ {t} :
    \/ n.thr[u] = m.thr[u]
    \/ u \in n.wake /\ \E w \in BOOLEAN : n.thr[u] = [m.thr[u] EXCEPT !.waiting = w]

(* A thread ends, with its buffer drained, only if those who wait to join     *)
(* with it are woken.                                                         *)
JoinersKept(m, t, n) ==
  /\ n.thr[t].awaitingJoin = m.thr[t].awaitingJoin
  /\ \/ n.thr[t].live = m.thr[t].live
     \/ n.thr[t].assumeBlocked
     \/ n.thr[t].buf # <<>>
     \/ m.thr[t].awaitingJoin \subseteq n.wake

(* A step of the thread itself adds at most one store to its buffer.          *)
BufferKept(mm, m, t, n) ==
  \/ n.thr[t].buf = m.thr[t].buf
  \/ mm # "SC" /\ \E st : IsLocation(st.ml) /\ n.thr[t].buf = Append(m.thr[t].buf, st)

(* A mutex that becomes free wakes all who wait for it.                       *)
MutexesKept(m, n) ==
  /\ DOMAIN n.own = DOMAIN m.own
  /\ \A a \in DOMAIN m.own :
       \/ m.queue[a] \subseteq n.wake
       \/ n.queue[a] = m.queue[a] /\ (m.own[a] # NoTid => n.own[a] # NoTid)

(* The mutex that a wait is to take again is one that exists.                 *)
PendingKept(m, t, n) ==
  n.thr[t].pendingLock \in {m.thr[t].pendingLock, NoTid} \cup DOMAIN m.own

(* All of it; a thread that is created starts afresh.                         *)
StepKeeps(mm, m, t, n) ==
  /\ IsMachine(n) /\ DOMAIN m.thr \subseteq DOMAIN n.thr
  /\ \A u \in DOMAIN n.thr \ DOMAIN m.thr : u \in Nat /\ n.thr[u] = NewThread
  /\ OthersKept(m, t, n) /\ JoinersKept(m, t, n) /\ BufferKept(mm, m, t, n)
  /\ MutexesKept(m, n) /\ PendingKept(m, t, n)

(* What changes nothing but the thread's own values keeps everything.         *)
LEMMA PlainKeeps ==
  ASSUME NEW m, NEW t \in DOMAIN m.thr, IsMachine(m), NEW mm, NEW n, Plain(m, t, n)
  PROVE  StepKeeps(mm, m, t, n)
BY DEF Plain, StepKeeps, OthersKept, JoinersKept, BufferKept, MutexesKept,
   PendingKept, IsMachine

(* pthread_create keeps what StepKeeps says.                                  *)
LEMMA SpawnKeeps ==
  ASSUME NEW m, NEW t \in DOMAIN m.thr, IsMachine(m), NEW mm, NEW i, i.to \in Nat \ DOMAIN m.thr
  PROVE  StepKeeps(mm, m, t, Spawn(m, t, i))
<1> DEFINE n == Spawn(m, t, i)
<1>1. /\ DOMAIN n = MachineFields /\ n.own = m.own /\ n.queue = m.queue
      /\ DOMAIN n.thr = DOMAIN m.thr \cup {i.to} /\ n.thr[i.to] = NewThread
      /\ \A u \in DOMAIN m.thr : n.thr[u] = Advance(m, t).thr[u]
  BY DEF Spawn, Advance, IsMachine, MachineFields
<1>5. DOMAIN NewThread = ThreadFields
  BY DEF NewThread, ThreadFields
<1>6. Plain(m, t, Advance(m, t))
  BY AdvancePlain
<1> HIDE DEF n
<1>7. IsMachine(n) /\ \A u \in DOMAIN n.thr \ DOMAIN m.thr : u \in Nat /\ n.thr[u] = NewThread
  BY <1>1, <1>5, <1>6 DEF Plain, IsMachine
<1>8. OthersKept(m, t, n) /\ MutexesKept(m, n)
  BY <1>1, <1>6 DEF Plain, OthersKept, MutexesKept
<1>9. JoinersKept(m, t, n) /\ BufferKept(mm, m, t, n) /\ PendingKept(m, t, n)
  BY <1>1, <1>6 DEF Plain, JoinersKept, BufferKept, PendingKept
<1> QED BY <1>1, <1>7, <1>8, <1>9 DEF StepKeeps, n

(* A store, to memory or to the buffer, keeps what StepKeeps says.            *)
LEMMA StoreKeeps ==
  ASSUME NEW m, NEW t \in DOMAIN m.thr, IsMachine(m), NEW mm, NEW i,
         IsLocation(i.ml)
  PROVE  StepKeeps(mm, m, t, Store(mm, m, t, i))
<1>1. CASE mm = "SC"
  BY <1>1, AccessPlain, PlainKeeps DEF Store, AtomicStore
<1>2. CASE mm # "SC"
  <2> DEFINE st == [ml |-> i.ml, val |-> i.val, id |-> Id(m, t)]
             n  == [Advance(m, t) EXCEPT !.thr[t].buf = Append(@, st)]
  <2>1. IsLocation(st.ml) /\ n = Store(mm, m, t, i)
    BY <1>2 DEF Store
  <2> HIDE DEF st
  <2>2. n.thr[t].buf = Append(m.thr[t].buf, st)
    BY DEF Advance, IsMachine, MachineFields, ThreadFields
  <2>3. BufferKept(mm, m, t, n)
    BY <1>2, <2>1, <2>2 DEF BufferKept
  <2>4. /\ IsMachine(n) /\ DOMAIN n.thr = DOMAIN m.thr
        /\ OthersKept(m, t, n) /\ JoinersKept(m, t, n) /\ MutexesKept(m, n) /\ PendingKept(m, t, n)
    BY DEF Advance, OthersKept, JoinersKept, MutexesKept, PendingKept,
       IsMachine, MachineFields, ThreadFields
  <2> QED BY <2>1, <2>3, <2>4 DEF StepKeeps
<1> QED BY <1>1, <1>2

(* __VERIFIER_assume, which may end the thread, keeps what StepKeeps says.    *)
LEMMA AssumeKeeps ==
  ASSUME NEW m, NEW t \in DOMAIN m.thr, IsMachine(m), NEW mm, NEW i
  PROVE  StepKeeps(mm, m, t, Assume(m, t, i))
<1>1. CASE Holds(m, t, i)
  BY <1>1, AdvancePlain, PlainKeeps DEF Assume
<1>2. CASE ~Holds(m, t, i)
  BY <1>2 DEF Assume, Advance, StepKeeps, OthersKept, JoinersKept, BufferKept, MutexesKept,
     PendingKept, IsMachine, MachineFields, ThreadFields
<1> QED BY <1>1, <1>2

(* terminate, which wakes the joiners if the buffer is empty, keeps what      *)
(* StepKeeps says.                                                            *)
LEMMA ReturnKeeps ==
  ASSUME NEW m, NEW t \in DOMAIN m.thr, IsMachine(m), NEW mm, NEW i
  PROVE  StepKeeps(mm, m, t, Return(m, t))
<1>1. BufferKept(mm, m, t, Return(m, t))
  BY DEF BufferKept, Return, Advance, IsMachine, MachineFields, ThreadFields
<1>2. PendingKept(m, t, Return(m, t)) /\ OthersKept(m, t, Return(m, t))
  BY DEF OthersKept, PendingKept, Return, Advance, IsMachine, MachineFields, ThreadFields
<1>3. JoinersKept(m, t, Return(m, t))
  <2> DEFINE n == Return(m, t)
  <2>1. n.thr[t].awaitingJoin = m.thr[t].awaitingJoin /\ n.thr[t].buf = m.thr[t].buf
    BY DEF Return, Advance, IsMachine, MachineFields, ThreadFields
  <2>2. m.thr[t].buf = <<>> => n.wake = m.thr[t].awaitingJoin
    BY DEF Return, Advance, IsMachine, MachineFields
  <2> HIDE DEF n
  <2> QED BY <2>1, <2>2 DEF JoinersKept, n
<1>4. IsMachine(Return(m, t)) /\ MutexesKept(m, Return(m, t))
  BY DEF MutexesKept, Return, Advance, IsMachine, MachineFields, ThreadFields
<1>5. DOMAIN Return(m, t).thr = DOMAIN m.thr
  BY DEF Return, Advance, IsMachine, MachineFields
<1> QED BY <1>1, <1>2, <1>3, <1>4, <1>5 DEF StepKeeps

(* Unlocking a mutex, which wakes those who wait for it, keeps what StepKeeps *)
(* says.                                                                      *)
LEMMA ReleaseKeeps ==
  ASSUME NEW m, NEW t \in DOMAIN m.thr, IsMachine(m), NEW mm, NEW a \in DOMAIN m.own
  PROVE  StepKeeps(mm, m, t, Release(m, t, a))
BY DEF Release, Advance, StepKeeps, OthersKept, JoinersKept, BufferKept, MutexesKept,
   PendingKept, IsMachine, MachineFields, ThreadFields

(* pthread_cond_wait keeps what StepKeeps says.                               *)
LEMMA CondWaitKeeps ==
  ASSUME NEW m, NEW t \in DOMAIN m.thr, IsMachine(m), NEW mm, NEW i, i.mutex \in DOMAIN m.own
  PROVE  StepKeeps(mm, m, t, CondWait(m, t, i))
<1> DEFINE r == Release(m, t, i.mutex)
           n == CondWait(m, t, i)
<1>1. StepKeeps(mm, m, t, r)
  BY ReleaseKeeps
<1>2. /\ \A u \in DOMAIN m.thr \ {t} : r.thr[u] = m.thr[u]
      /\ DOMAIN r.thr = DOMAIN m.thr
      /\ r.thr[t].live = m.thr[t].live /\ r.thr[t].buf = m.thr[t].buf
  BY DEF Release, Advance, IsMachine, MachineFields, ThreadFields
<1>3. n = [r EXCEPT !.thr[t].pendingLock = i.mutex, !.thr[t].pendingCond = i.cond,
                    !.thr[t].waiting = TRUE, !.cond[i.cond] = Append(@, t)]
  BY DEF CondWait
<1> HIDE DEF r, n
<1>4. IsMachine(r)
  BY <1>1 DEF StepKeeps
<1>5. /\ DOMAIN n = MachineFields /\ n.own = r.own /\ n.queue = r.queue /\ n.wake = r.wake
      /\ DOMAIN n.thr = DOMAIN r.thr
      /\ \A u \in DOMAIN m.thr \ {t} : n.thr[u] = r.thr[u]
  BY <1>2, <1>3, <1>4 DEF IsMachine, MachineFields
<1>6. /\ DOMAIN n.thr[t] = ThreadFields /\ n.thr[t].awaitingJoin = r.thr[t].awaitingJoin
      /\ n.thr[t].live = r.thr[t].live /\ n.thr[t].buf = r.thr[t].buf
      /\ n.thr[t].pendingLock = i.mutex
  BY <1>2, <1>3, <1>4 DEF IsMachine, MachineFields, ThreadFields
<1>7. IsMachine(n) /\ OthersKept(m, t, n)
  BY <1>2, <1>4, <1>5, <1>6 DEF IsMachine, OthersKept
<1>8. JoinersKept(m, t, n) /\ BufferKept(mm, m, t, n) /\ MutexesKept(m, n)
  BY <1>1, <1>2, <1>5, <1>6 DEF StepKeeps, JoinersKept, BufferKept, MutexesKept
<1> QED BY <1>2, <1>5, <1>6, <1>7, <1>8 DEF StepKeeps, PendingKept, n

(* pthread_cond_signal, for each waiter it may wake, keeps what StepKeeps     *)
(* says.                                                                      *)
LEMMA CondSignalKeeps ==
  ASSUME NEW m, NEW t \in DOMAIN m.thr, IsMachine(m), NEW mm, NEW i, NEW alt
  PROVE  StepKeeps(mm, m, t, CondSignal(m, t, i, alt))
<1>1. CASE m.cond[i.cond] = <<>>
  BY <1>1, AdvancePlain, PlainKeeps DEF CondSignal
<1>2. CASE m.cond[i.cond] # <<>>
  <2> DEFINE n == CondSignal(m, t, i, alt)
             w == m.cond[i.cond][alt + 1]
  <2>1. /\ DOMAIN n = MachineFields /\ DOMAIN n.thr = DOMAIN m.thr
        /\ n.own = m.own /\ n.queue = m.queue /\ n.wake = {w}
    BY <1>2 DEF CondSignal, Advance, IsMachine, MachineFields
  <2>2. ASSUME NEW u \in DOMAIN m.thr
        PROVE  /\ DOMAIN n.thr[u] = ThreadFields
               /\ n.thr[u].awaitingJoin = m.thr[u].awaitingJoin
               /\ n.thr[u].live = m.thr[u].live /\ n.thr[u].buf = m.thr[u].buf
               /\ n.thr[u].pendingLock = m.thr[u].pendingLock
    BY <1>2 DEF CondSignal, Advance, IsMachine, MachineFields, ThreadFields
  <2>3. ASSUME NEW u \in DOMAIN m.thr \ {t}
        PROVE  n.thr[u] = IF u = w THEN [m.thr[u] EXCEPT !.waiting = FALSE] ELSE m.thr[u]
    BY <1>2 DEF CondSignal, Advance, IsMachine, MachineFields, ThreadFields
  <2> HIDE DEF n, w
  <2>4. IsMachine(n) /\ MutexesKept(m, n)
    BY <2>1, <2>2 DEF IsMachine, MutexesKept
  <2>5. OthersKept(m, t, n)
    <3> SUFFICES ASSUME NEW u \in DOMAIN m.thr \ {t}
                 PROVE  \/ n.thr[u] = m.thr[u]
                        \/ u \in n.wake /\ \E z \in BOOLEAN : n.thr[u] = [m.thr[u] EXCEPT !.waiting = z]
      BY DEF OthersKept
    <3> QED BY <2>1, <2>3
  <2>6. JoinersKept(m, t, n) /\ BufferKept(mm, m, t, n) /\ PendingKept(m, t, n)
    BY <2>2 DEF JoinersKept, BufferKept, PendingKept
  <2> QED BY <2>1, <2>4, <2>5, <2>6 DEF StepKeeps, n
<1> QED BY <1>1, <1>2

(* pthread_cond_broadcast keeps what StepKeeps says.                          *)
LEMMA CondBroadcastKeeps ==
  ASSUME NEW m, NEW t \in DOMAIN m.thr, IsMachine(m), NEW mm, NEW i
  PROVE  StepKeeps(mm, m, t, CondBroadcast(m, t, i))
<1>1. BufferKept(mm, m, t, CondBroadcast(m, t, i))
  BY DEF BufferKept, CondBroadcast, Advance, IsMachine, MachineFields, ThreadFields
<1> QED BY <1>1 DEF CondBroadcast, Advance, StepKeeps, OthersKept, JoinersKept, MutexesKept,
        PendingKept, IsMachine, MachineFields, ThreadFields

(* Hence every instruction does.                                              *)
LEMMA VisitKeeps ==
  ASSUME NEW m, NEW t \in DOMAIN m.thr, IsMachine(m), t # NoTid,
         NEW mm, NEW i, NEW alt,
         i.op = "spawn" => i.to \in Nat \ DOMAIN m.thr,
         i.op \in {"unlock", "wait"} => i.mutex \in DOMAIN m.own,
         i.op = "store" => IsLocation(i.ml)
  PROVE  StepKeeps(mm, m, t, Visit(mm, m, t, i, alt))
<1>1. CASE i.op = "spawn"
  <2>1. Visit(mm, m, t, i, alt) = Spawn(m, t, i)
    BY <1>1 DEF Visit
  <2> QED BY <1>1, <2>1, SpawnKeeps
<1>2. CASE i.op = "store"
  <2>1. Visit(mm, m, t, i, alt) = Store(mm, m, t, i)
    BY <1>2 DEF Visit
  <2> QED BY <1>2, <2>1, StoreKeeps
<1>3. CASE i.op = "xstore"
  <2>1. Visit(mm, m, t, i, alt) = AtomicStore(m, t, i)
    BY <1>3 DEF Visit
  <2> QED BY <1>3, <2>1, AccessPlain, PlainKeeps
<1>4. CASE i.op = "load"
  <2>1. Visit(mm, m, t, i, alt) = Load(m, t, i)
    BY <1>4 DEF Visit
  <2> QED BY <1>4, <2>1, AccessPlain, PlainKeeps
<1>5. CASE i.op = "rmw"
  <2>1. Visit(mm, m, t, i, alt) = AtomicRMW(m, t, i)
    BY <1>5 DEF Visit
  <2> QED BY <1>5, <2>1, AccessPlain, PlainKeeps
<1>6. CASE i.op = "cas"
  <2>1. Visit(mm, m, t, i, alt) = AtomicCmpXchg(m, t, i)
    BY <1>6 DEF Visit
  <2> QED BY <1>6, <2>1, AccessPlain, PlainKeeps
<1>7. CASE i.op = "extern"
  <2>1. Visit(mm, m, t, i, alt) = External(m, t)
    BY <1>7 DEF Visit
  <2> QED BY <1>7, <2>1, LocalPlain, PlainKeeps
<1>8. CASE i.op = "malloc"
  <2>1. Visit(mm, m, t, i, alt) = Malloc(m, t, alt)
    BY <1>8 DEF Visit
  <2> QED BY <1>8, <2>1, LocalPlain, PlainKeeps
<1>9. CASE i.op = "assume"
  <2>1. Visit(mm, m, t, i, alt) = Assume(m, t, i)
    BY <1>9 DEF Visit
  <2> QED BY <1>9, <2>1, AssumeKeeps
<1>10. CASE i.op = "branch"
  <2>1. Visit(mm, m, t, i, alt) = Branch(m, t, i)
    BY <1>10 DEF Visit
  <2> QED BY <1>10, <2>1, LocalPlain, PlainKeeps
<1>11. CASE i.op = "calc"
  <2>1. Visit(mm, m, t, i, alt) = Calculate(m, t, i)
    BY <1>11 DEF Visit
  <2> QED BY <1>11, <2>1, CalculatePlain, PlainKeeps
<1>12. CASE i.op \in {"switch", "ibr"}
  <2>1. Visit(mm, m, t, i, alt) = Jump(m, t, i)
    BY <1>12 DEF Visit
  <2> QED BY <1>12, <2>1, JumpPlain, PlainKeeps
<1>14. CASE i.op = "lock"
  <2>1. Visit(mm, m, t, i, alt) = Lock(m, t, i)
    BY <1>14 DEF Visit
  <2> QED BY <1>14, <2>1, LockPlain, PlainKeeps
<1>15. CASE i.op = "trylock"
  <2>1. Visit(mm, m, t, i, alt) = TryLock(m, t, i)
    BY <1>15 DEF Visit
  <2> QED BY <1>15, <2>1, TryLockPlain, PlainKeeps
<1>16. CASE i.op = "unlock"
  <2>1. Visit(mm, m, t, i, alt) = Release(m, t, i.mutex)
    BY <1>16 DEF Visit, Unlock
  <2> QED BY <1>16, <2>1, ReleaseKeeps
<1>17. CASE i.op = "minit"
  <2>1. Visit(mm, m, t, i, alt) = MutexInit(m, t, i)
    BY <1>17 DEF Visit
  <2> QED BY <1>17, <2>1, LocalPlain, PlainKeeps
<1>18. CASE i.op = "mdestroy"
  <2>1. Visit(mm, m, t, i, alt) = MutexInit(m, t, i)
    BY <1>18 DEF Visit
  <2> QED BY <1>18, <2>1, LocalPlain, PlainKeeps
<1>19. CASE i.op = "wait"
  <2>1. Visit(mm, m, t, i, alt) = CondWait(m, t, i)
    BY <1>19 DEF Visit
  <2> QED BY <1>19, <2>1, CondWaitKeeps
<1>20. CASE i.op = "signal"
  <2>1. Visit(mm, m, t, i, alt) = CondSignal(m, t, i, alt)
    BY <1>20 DEF Visit
  <2> QED BY <1>20, <2>1, CondSignalKeeps
<1>21. CASE i.op = "bcast"
  <2>1. Visit(mm, m, t, i, alt) = CondBroadcast(m, t, i)
    BY <1>21 DEF Visit
  <2> QED BY <1>21, <2>1, CondBroadcastKeeps
<1>22. CASE i.op = "cdestroy"
  <2>1. Visit(mm, m, t, i, alt) = CondDestroy(m, t, i)
    BY <1>22 DEF Visit
  <2> QED BY <1>22, <2>1, LocalPlain, PlainKeeps
<1>23. CASE i.op = "ret"
  <2>1. Visit(mm, m, t, i, alt) = Return(m, t)
    BY <1>23 DEF Visit
  <2> QED BY <1>23, <2>1, ReturnKeeps
<1>24. CASE i.op \notin {"spawn", "store", "xstore", "load", "rmw", "cas", "extern", "malloc", "assume", "branch", "calc", "switch", "ibr", "lock", "trylock", "unlock", "minit", "mdestroy", "wait", "signal", "bcast", "cdestroy", "ret"}
  <2>1. Visit(mm, m, t, i, alt) = Advance(m, t)
    BY <1>24 DEF Visit
  <2> QED BY <2>1, AdvancePlain, PlainKeeps
<1> QED BY <1>1, <1>2, <1>3, <1>4, <1>5, <1>6, <1>7, <1>8, <1>9, <1>10, <1>11, <1>12, <1>14, <1>15, <1>16, <1>17, <1>18, <1>19, <1>20, <1>21, <1>22, <1>23, <1>24

(* So does the step that run() makes of it, which takes the mutex of an ended *)
(* wait first.                                                                *)
LEMMA ExecuteKeeps ==
  ASSUME NEW m, NEW t \in DOMAIN m.thr, IsMachine(m), t # NoTid,
         NEW mm, NEW i, NEW alt,
         i.op = "spawn" => i.to \in Nat \ DOMAIN m.thr,
         i.op \in {"unlock", "wait"} => i.mutex \in DOMAIN m.own,
         i.op = "store" => IsLocation(i.ml)
  PROVE  StepKeeps(mm, m, t, Execute(mm, m, t, i, alt))
<1> DEFINE c == CondAwake(m, t)
           n == Visit(mm, c, t, i, alt)
<1>1. Plain(m, t, c)
  BY CondAwakePlain
<1> HIDE DEF c
<1>2. StepKeeps(mm, c, t, n)
  BY <1>1, VisitKeeps DEF Plain
<1>3. n = Execute(mm, m, t, i, alt)
  BY DEF Execute, c
<1> HIDE DEF n
<1>4. OthersKept(m, t, n)
  BY <1>1, <1>2 DEF Plain, StepKeeps, OthersKept
<1>5. JoinersKept(m, t, n) /\ BufferKept(mm, m, t, n) /\ MutexesKept(m, n) /\ PendingKept(m, t, n)
  BY <1>1, <1>2 DEF Plain, StepKeeps, JoinersKept, BufferKept, MutexesKept, PendingKept
<1> QED BY <1>1, <1>2, <1>3, <1>4, <1>5 DEF Plain, StepKeeps

(* PSOInterpreter's own handlers do what those of TSOMachine do.              *)
LEMMA PsoExecuteSame ==
  ASSUME NEW m, NEW t, NEW i, NEW alt
  PROVE  PsoExecute(m, t, i, alt) = Execute("PSO", m, t, i, alt)
<1> DEFINE c == CondAwake(m, t)
<1>1. ASSUME NEW n PROVE PsoVisit(n, t, i, alt) = Visit("PSO", n, t, i, alt)
  <2>1. CASE i.op = "store"
    BY <2>1 DEF PsoVisit, Visit, PsoStore, Store
  <2>2. CASE i.op = "load"
    BY <2>2 DEF PsoVisit, Visit, PsoLoad, Load
  <2>3. CASE i.op = "ret"
    BY <2>3 DEF PsoVisit, Visit, PsoReturn, Return
  <2>4. CASE i.op \notin {"store", "load", "ret"}
    BY <2>4 DEF PsoVisit
  <2> QED BY <2>1, <2>2, <2>3, <2>4
<1> QED BY <1>1 DEF PsoExecute, Execute

(* -------------------------------- buffers -------------------------------- *)

(* A bounded set of numbers that is not empty has a greatest one.             *)
LEMMA Greatest ==
  ASSUME NEW n \in Nat, NEW S, S \subseteq 0..n, S # {}
  PROVE  Max(S) \in S /\ \A x \in S : x <= Max(S)
<1> DEFINE R == OpToRel(<, Nat)
           T == {n - x : x \in S}
<1>1. IsWellFoundedOn(R, Nat)
  BY NatLessThanWellFounded
<1>2. \A i, j \in Nat : i < j => <<i, j>> \in R
  BY DEF OpToRel
<1>3. T \subseteq Nat /\ T # {}
  <2>1. \A x \in S : x \in 0..n /\ n - x \in Nat
    OBVIOUS
  <2>2. PICK x \in S : TRUE
    OBVIOUS
  <2>3. n - x \in T
    BY <2>2
  <2> QED BY <2>1, <2>3
<1>4. PICK k \in T : \A j \in T : ~ (<<j, k>> \in R)
  <2> HIDE DEF T, R
  <2> QED BY <1>1, <1>3, WFMin
<1>5. PICK x \in S : k = n - x
  BY <1>4
<1>6. ASSUME NEW y \in S PROVE y <= x
  <2>1. n - y \in T /\ n - y \in Nat /\ k \in Nat
    BY <1>3, <1>4
  <2> HIDE DEF R, T
  <2>2. ~ (n - y < k)
    BY <1>2, <1>4, <2>1
  <2>3. x \in Int /\ y \in Int
    OBVIOUS
  <2> QED BY <1>5, <2>2, <2>3
<1> QED BY <1>6 DEF Max

(* A store buffer: a sequence of stores to locations.                         *)
IsBuffer(b) == \E S : b \in Seq(S) /\ \A st \in S : IsLocation(st.ml)

(* A buffer is numbered from 1 and empty only if it has no entry.             *)
LEMMA BufferShape ==
  ASSUME NEW b, IsBuffer(b)
  PROVE  /\ Len(b) \in Nat /\ DOMAIN b = 1..Len(b)
         /\ b = <<>> <=> Len(b) = 0
BY LenProperties, EmptySeq DEF IsBuffer

(* The empty sequence is a buffer.                                            *)
LEMMA EmptyBuffer == IsBuffer(<<>>)
<1> DEFINE S == {}
<1>1. <<>> \in Seq(S) /\ \A st \in S : IsLocation(st.ml)
  BY EmptySeq
<1> HIDE DEF S
<1> QED BY <1>1 DEF IsBuffer

(* A buffer with one more store is a buffer, and not empty.                   *)
LEMMA BufferGrows ==
  ASSUME NEW b, IsBuffer(b), NEW st, IsLocation(st.ml)
  PROVE  IsBuffer(Append(b, st)) /\ Append(b, st) # <<>>
<1>1. PICK S : b \in Seq(S) /\ \A z \in S : IsLocation(z.ml)
  BY DEF IsBuffer
<1>2. b \in Seq(S \cup {st}) /\ \A z \in S \cup {st} : IsLocation(z.ml)
  BY <1>1, SeqMonotonic
<1>3. Append(b, st) \in Seq(S \cup {st}) /\ Append(b, st) # <<>>
  BY <1>2, AppendProperties
<1>4. IsBuffer(Append(b, st))
  BY <1>2, <1>3 DEF IsBuffer
<1> QED BY <1>3, <1>4

(* A buffer without its oldest store is a buffer, each entry one place closer *)
(* to the front.                                                              *)
LEMMA BufferDrains ==
  ASSUME NEW b, IsBuffer(b), b # <<>>
  PROVE  /\ IsBuffer(Tail(b)) /\ Len(Tail(b)) = Len(b) - 1
         /\ \A k \in 1..Len(b) - 1 : Tail(b)[k] = b[k + 1]
BY HeadTailProperties DEF IsBuffer

(* NewestOverlap is the last entry that overlaps ml, or 0.                    *)
LEMMA NewestOverlapIs ==
  ASSUME NEW b, IsBuffer(b), NEW ml
  PROVE  /\ NewestOverlap(b, ml) \in 0..Len(b)
         /\ NewestOverlap(b, ml) # 0 => Overlaps(b[NewestOverlap(b, ml)].ml, ml)
         /\ \A k \in 1..Len(b) : Overlaps(b[k].ml, ml) => k <= NewestOverlap(b, ml)
<1> DEFINE S == {0} \cup {k \in DOMAIN b : Overlaps(b[k].ml, ml)}
<1>1. Len(b) \in Nat /\ DOMAIN b = 1..Len(b)
  BY BufferShape
<1>2. S \subseteq 0..Len(b) /\ S # {}
  BY <1>1
<1>3. Max(S) \in S /\ \A x \in S : x <= Max(S)
  BY <1>1, <1>2, Greatest
<1>4. NewestOverlap(b, ml) = Max(S)
  BY DEF NewestOverlap
<1> QED BY <1>1, <1>3, <1>4

(* It moves with the buffer when an older store leaves it.                    *)
LEMMA NewestOverlapShifts ==
  ASSUME NEW b, IsBuffer(b), NEW ml, NewestOverlap(b, ml) > 1
  PROVE  /\ NewestOverlap(Tail(b), ml) = NewestOverlap(b, ml) - 1
         /\ Tail(b)[NewestOverlap(b, ml) - 1] = b[NewestOverlap(b, ml)]
<1> DEFINE k == NewestOverlap(b, ml)
           j == NewestOverlap(Tail(b), ml)
<1>1. /\ k \in 0..Len(b) /\ (k # 0 => Overlaps(b[k].ml, ml))
      /\ \A x \in 1..Len(b) : Overlaps(b[x].ml, ml) => x <= k
  BY NewestOverlapIs
<1>2. Len(b) \in Nat /\ b # <<>>
  BY <1>1, BufferShape
<1>3. /\ IsBuffer(Tail(b)) /\ Len(Tail(b)) = Len(b) - 1
      /\ \A x \in 1..Len(b) - 1 : Tail(b)[x] = b[x + 1]
  BY <1>2, BufferDrains
<1>4. /\ j \in 0..Len(Tail(b)) /\ (j # 0 => Overlaps(Tail(b)[j].ml, ml))
      /\ \A x \in 1..Len(Tail(b)) : Overlaps(Tail(b)[x].ml, ml) => x <= j
  BY <1>3, NewestOverlapIs
<1> HIDE DEF k, j
<1>5. k > 1
  BY DEF k
<1>6. k - 1 <= j /\ Tail(b)[k - 1] = b[k]
  BY <1>1, <1>2, <1>3, <1>4, <1>5
<1>7. j + 1 <= k
  <2>1. j # 0 /\ Tail(b)[j] = b[j + 1]
    BY <1>1, <1>2, <1>3, <1>4, <1>5, <1>6
  <2>2. Overlaps(b[j + 1].ml, ml) /\ j + 1 \in 1..Len(b)
    BY <1>2, <1>3, <1>4, <2>1
  <2> QED BY <1>1, <2>2
<1> QED BY <1>1, <1>4, <1>6, <1>7 DEF k, j

(* ---------------------- why a thread is unavailable ---------------------- *)

(* The five reasons a thread may have to be unavailable, each with the note   *)
(* that will wake it. It waits to join: the thread it joins with knows        *)
(* (AwaitingJoin) and has not ended, or will never be joined with, or has     *)
(* stores left.                                                               *)
WaitsJoin(m, u, i) ==
  /\ i.op = "join" /\ i.to \in DOMAIN m.thr /\ u \in m.thr[i.to].awaitingJoin
  /\ \/ m.thr[i.to].live
     \/ m.thr[i.to].assumeBlocked
     \/ Model # "SC" /\ m.thr[i.to].buf # <<>>

(* It waits for its buffer to drain: partial_buffer_flush is 0 under TSO, and *)
(* the kind of flush is "full" under PSO.                                     *)
WaitsFence(th, i) ==
  /\ i.op \in FenceOps /\ th.buf # <<>>
  /\ \/ Model = "TSO" /\ th.partialFlush = 0
     \/ Model = "PSO" /\ th.flush = "full"

(* It waits until what it loads is not half covered by its buffer: the number *)
(* of stores still allowed in it, or under PSO the location it waits for, has *)
(* been noted.                                                                *)
WaitsLoad(th, i) ==
  /\ i.op = "load"
  /\ \/ /\ Model = "TSO" /\ NewestOverlap(th.buf, i.ml) # 0
        /\ th.buf[NewestOverlap(th.buf, i.ml)].ml # i.ml
        /\ th.partialFlush = Len(th.buf) - NewestOverlap(th.buf, i.ml)
     \/ /\ Model = "PSO" /\ ~Readable(th.buf, i.ml)
        /\ th.flush = "partial" /\ th.flushMl = i.ml

(* It waits for a mutex that is held, and is in the mutex's queue.            *)
WaitsMutex(m, u, i) ==
  \E a \in NeedsMutex(m, u, i) \cap DOMAIN m.own : m.own[a] # NoTid /\ u \in m.queue[a]

(* Or it has terminated or waits for a condition.                             *)
Waits(m, u, i) ==
  \/ Stopped(m, u)
  \/ WaitsJoin(m, u, i) \/ WaitsMutex(m, u, i)
  \/ WaitsFence(m.thr[u], i) \/ WaitsLoad(m.thr[u], i)

(* What holds of the machine itself.                                          *)
WellFormed(m) ==
  /\ IsMachine(m) /\ DOMAIN m.thr \subseteq Nat
  /\ \A u \in DOMAIN m.thr :
       /\ IsBuffer(m.thr[u].buf) /\ (Model = "SC" => m.thr[u].buf = <<>>)
       /\ m.thr[u].pendingLock \in DOMAIN m.own \cup {NoTid}

(* The heart of the invariant. That an unavailable thread cannot go on is not *)
(* inductive: a step that frees what it waits for must also wake it, and does *)
(* so only because the refusal left a note. So each unavailable thread has    *)
(* one.                                                                       *)
Remembered == \A u \in Threads \ avail : Waits(mach, u, Instruction(u))

(* The inductive invariant.                                                   *)
Inv == WellFormed(mach) /\ Remembered

(* Who waits for one of these reasons is refused.                             *)
LEMMA WaitsCannotGoOn ==
  ASSUME Model \in {"SC", "TSO", "PSO"}, Inv
  PROVE  NoneForgotten
<1> SUFFICES ASSUME NEW u \in Threads \ avail PROVE ~MayStep(Prog, Model, mach, u)
  BY DEF NoneForgotten
<1> DEFINE i == Instruction(u)
<1>1. Waits(mach, u, i)
  BY DEF Inv, Remembered
<1> HIDE DEF i
<1>2. CASE Stopped(mach, u)
  BY <1>2 DEF Stopped, MayStep, CanStep, PsoCanStep
<1>3. CASE WaitsJoin(mach, u, i)
  BY <1>3 DEF WaitsJoin, MayStep, CanStep, PsoCanStep, Instruction, Refused, PsoRefused, JoinRefused, PsoJoinRefused, i
<1>4. CASE WaitsMutex(mach, u, i)
  BY <1>4 DEF WaitsMutex, MayStep, CanStep, PsoCanStep, Instruction, Refused, PsoRefused, MutexRefused, i
<1>5. CASE WaitsFence(mach.thr[u], i)
  BY <1>5 DEF WaitsFence, MayStep, CanStep, PsoCanStep, Instruction, Refused, PsoRefused, FenceRefused, PsoFenceRefused, i
<1>6. CASE WaitsLoad(mach.thr[u], i)
  BY <1>6 DEF WaitsLoad, MayStep, CanStep, PsoCanStep, Instruction, Refused, PsoRefused, LoadRefused, PsoLoadRefused, i
<1> QED BY <1>1, <1>2, <1>3, <1>4, <1>5, <1>6 DEF Waits

(* A step of another thread leaves the reason in place or wakes the thread.   *)
LEMMA StepWaits ==
  ASSUME Model \in {"SC", "TSO", "PSO"}, NEW m, WellFormed(m),
         NEW t \in DOMAIN m.thr, m.thr[t].live, NEW n, StepKeeps(Model, m, t, n),
         NEW u \in DOMAIN m.thr \ {t}, u \notin n.wake, NEW i, Waits(m, u, i)
  PROVE  n.thr[u] = m.thr[u] /\ Waits(n, u, i)
<1>1. n.thr[u] = m.thr[u]
  BY DEF StepKeeps, OthersKept
<1>2. CASE Stopped(m, u)
  BY <1>1, <1>2 DEF Stopped, Waits
<1>3. CASE WaitsJoin(m, u, i)
  <2> DEFINE w == i.to
  <2>1. w \in DOMAIN m.thr /\ w \in DOMAIN n.thr
    BY <1>3 DEF WaitsJoin, StepKeeps
  <2>2. CASE w # t
    <3>1. /\ n.thr[w].awaitingJoin = m.thr[w].awaitingJoin
          /\ n.thr[w].live = m.thr[w].live /\ n.thr[w].assumeBlocked = m.thr[w].assumeBlocked
          /\ n.thr[w].buf = m.thr[w].buf
      BY <2>1, <2>2 DEF StepKeeps, OthersKept, WellFormed, IsMachine, ThreadFields
    <3>2. WaitsJoin(n, u, i)
      BY <1>3, <2>1, <3>1 DEF WaitsJoin
    <3> QED BY <1>1, <3>2 DEF Waits
  <2>3. CASE w = t
    <3>1. JoinersKept(m, t, n) /\ BufferKept(Model, m, t, n)
      BY DEF StepKeeps
    <3>2. u \in n.thr[w].awaitingJoin /\ ~ (m.thr[t].awaitingJoin \subseteq n.wake)
      BY <1>3, <2>3, <3>1 DEF WaitsJoin, JoinersKept
    <3>3. Model = "SC" => n.thr[t].buf = <<>>
      BY <3>1 DEF BufferKept, WellFormed
    <3>4. \/ n.thr[t].live \/ n.thr[t].assumeBlocked
          \/ Model # "SC" /\ n.thr[t].buf # <<>>
      BY <3>1, <3>2, <3>3 DEF JoinersKept
    <3>5. WaitsJoin(n, u, i)
      BY <1>3, <2>1, <2>3, <3>2, <3>4 DEF WaitsJoin
    <3> QED BY <1>1, <3>5 DEF Waits
  <2> QED BY <2>2, <2>3
<1>4. CASE WaitsMutex(m, u, i)
  <2>1. MutexesKept(m, n)
    BY DEF StepKeeps
  <2>2. NeedsMutex(n, u, i) = NeedsMutex(m, u, i)
    BY <1>1 DEF NeedsMutex
  <2>3. PICK a \in NeedsMutex(m, u, i) \cap DOMAIN m.own : m.own[a] # NoTid /\ u \in m.queue[a]
    BY <1>4 DEF WaitsMutex
  <2>4. a \in DOMAIN n.own /\ n.own[a] # NoTid /\ u \in n.queue[a]
    BY <2>1, <2>3 DEF MutexesKept
  <2>5. WaitsMutex(n, u, i)
    BY <2>2, <2>3, <2>4 DEF WaitsMutex
  <2> QED BY <1>1, <2>5 DEF Waits
<1>5. CASE WaitsFence(m.thr[u], i) \/ WaitsLoad(m.thr[u], i)
  BY <1>1, <1>5 DEF Waits
<1> QED BY <1>1, <1>2, <1>3, <1>4, <1>5 DEF Waits

(* A step leaves the machine well formed.                                     *)
LEMMA StepWellFormed ==
  ASSUME NEW m, WellFormed(m), NEW t \in DOMAIN m.thr, NEW n, StepKeeps(Model, m, t, n)
  PROVE  WellFormed(n)
<1> SUFFICES ASSUME NEW u \in DOMAIN n.thr
             PROVE  /\ IsBuffer(n.thr[u].buf) /\ (Model = "SC" => n.thr[u].buf = <<>>)
                    /\ n.thr[u].pendingLock \in DOMAIN n.own \cup {NoTid}
  BY DEF WellFormed, StepKeeps
<1>0. DOMAIN n.own = DOMAIN m.own
  BY DEF StepKeeps, MutexesKept
<1>1. CASE u \notin DOMAIN m.thr
  <2>1. n.thr[u].buf = <<>> /\ n.thr[u].pendingLock = NoTid
    BY <1>1 DEF StepKeeps, NewThread
  <2> QED BY <2>1, EmptyBuffer
<1>2. CASE u = t
  <2>1. n.thr[u].pendingLock \in DOMAIN n.own \cup {NoTid}
    BY <1>0, <1>2 DEF StepKeeps, PendingKept, WellFormed
  <2> QED BY <1>2, <2>1, BufferGrows DEF StepKeeps, BufferKept, WellFormed
<1>3. CASE u \in DOMAIN m.thr \ {t}
  <2>1. n.thr[u].buf = m.thr[u].buf /\ n.thr[u].pendingLock = m.thr[u].pendingLock
    BY <1>3 DEF StepKeeps, OthersKept, WellFormed, IsMachine, ThreadFields
  <2> QED BY <1>0, <1>3, <2>1 DEF WellFormed
<1> QED BY <1>1, <1>2, <1>3

(* ------------------------ stores that reach memory ----------------------- *)

(* What a store of thread t that reaches memory leaves alone and whom it      *)
(* wakes; `rest` is what remains in the buffer.                               *)
Flushed(m, t, n, rest) ==
  /\ IsMachine(n) /\ DOMAIN n.thr = DOMAIN m.thr
  /\ n.own = m.own /\ n.queue = m.queue
  /\ \A u \in DOMAIN m.thr \ {t} : n.thr[u] = m.thr[u]
  /\ n.thr[t].pc = m.thr[t].pc
  /\ n.thr[t].live = m.thr[t].live /\ n.thr[t].waiting = m.thr[t].waiting
  /\ n.thr[t].assumeBlocked = m.thr[t].assumeBlocked
  /\ n.thr[t].awaitingJoin = m.thr[t].awaitingJoin
  /\ n.thr[t].pendingLock = m.thr[t].pendingLock
  /\ n.thr[t].buf = rest
  /\ rest = <<>> /\ ~m.thr[t].live => m.thr[t].awaitingJoin \subseteq n.wake

(* runAux under TSO: the oldest store leaves the buffer.                      *)
LEMMA FlushEffect ==
  ASSUME NEW m, NEW t \in DOMAIN m.thr, IsMachine(m)
  PROVE  /\ Flushed(m, t, Flush(m, t), Tail(m.thr[t].buf))
         /\ t \notin Flush(m, t).wake =>
              /\ ~ (Len(Tail(m.thr[t].buf)) <= m.thr[t].partialFlush)
              /\ Flush(m, t).thr[t].partialFlush = m.thr[t].partialFlush
<1> DEFINE st   == Head(m.thr[t].buf)
           rest == Tail(m.thr[t].buf)
           w    == WriteMem(m, st.ml, st.val, st.id)
           due  == Len(rest) <= m.thr[t].partialFlush
           n    == Flush(m, t)
<1>1. /\ DOMAIN w = MachineFields /\ w.thr = m.thr /\ w.own = m.own /\ w.queue = m.queue
  BY DEF WriteMem, IsMachine, MachineFields
<1>2. n = [w EXCEPT !.thr[t].buf = rest,
                    !.thr[t].partialFlush = IF due THEN -1 ELSE @,
                    !.wake = (IF due THEN {t} ELSE {})
                             \cup (IF rest = <<>> /\ ~m.thr[t].live
                                   THEN m.thr[t].awaitingJoin ELSE {})]
  BY DEF Flush
<1> HIDE DEF w, rest, n, due
<1>3. /\ DOMAIN n = MachineFields /\ n.own = m.own /\ n.queue = m.queue
      /\ DOMAIN n.thr = DOMAIN m.thr
      /\ \A u \in DOMAIN m.thr \ {t} : n.thr[u] = m.thr[u]
      /\ n.wake = (IF due THEN {t} ELSE {})
                   \cup (IF rest = <<>> /\ ~m.thr[t].live THEN m.thr[t].awaitingJoin ELSE {})
  BY <1>1, <1>2 DEF IsMachine, MachineFields
<1>4. n.thr[t] = [m.thr[t] EXCEPT !.buf = rest, !.partialFlush = IF due THEN -1 ELSE @]
  BY <1>1, <1>2 DEF IsMachine, MachineFields, ThreadFields
<1>5. DOMAIN m.thr[t] = ThreadFields
  BY DEF IsMachine
<1>6. IsMachine(n)
  BY <1>3, <1>4, <1>5 DEF IsMachine, ThreadFields
<1>7. Flushed(m, t, n, rest)
  BY <1>3, <1>4, <1>5, <1>6 DEF Flushed, ThreadFields
<1>8. t \notin n.wake => ~due /\ n.thr[t].partialFlush = m.thr[t].partialFlush
  BY <1>3, <1>4, <1>5 DEF ThreadFields
<1> QED BY <1>7, <1>8 DEF n, rest, due

(* runAux under PSO: the oldest store of a byte leaves the buffer.            *)
LEMMA PsoFlushEffect ==
  ASSUME NEW m, NEW t \in DOMAIN m.thr, IsMachine(m), NEW x, NEW k,
         Min(BufferOf(m.thr[t].buf, x)) = k
  PROVE  LET rest == RemoveAt(m.thr[t].buf, k)
             n    == PsoFlush(m, t, x)
         IN  /\ Flushed(m, t, n, rest)
             /\ t \notin n.wake =>
                  /\ ~FlushDone(m.thr[t], m.thr[t].buf[k].ml, rest)
                  /\ n.thr[t].flush = m.thr[t].flush /\ n.thr[t].flushMl = m.thr[t].flushMl
<1> DEFINE st   == m.thr[t].buf[k]
           rest == RemoveAt(m.thr[t].buf, k)
           w    == WriteMem(m, st.ml, st.val, st.id)
           due  == FlushDone(m.thr[t], st.ml, rest)
           n    == PsoFlush(m, t, x)
<1>1. /\ DOMAIN w = MachineFields /\ w.thr = m.thr /\ w.own = m.own /\ w.queue = m.queue
  BY DEF WriteMem, IsMachine, MachineFields
<1>2. n = [w EXCEPT !.thr[t].buf = rest,
                    !.thr[t].flush = IF due THEN "no" ELSE @,
                    !.wake = (IF due THEN {t} ELSE {})
                             \cup (IF rest = <<>> /\ ~m.thr[t].live
                                   THEN m.thr[t].awaitingJoin ELSE {})]
  BY DEF PsoFlush
<1> HIDE DEF w, rest, n, due
<1>3. /\ DOMAIN n = MachineFields /\ n.own = m.own /\ n.queue = m.queue
      /\ DOMAIN n.thr = DOMAIN m.thr
      /\ \A u \in DOMAIN m.thr \ {t} : n.thr[u] = m.thr[u]
      /\ n.wake = (IF due THEN {t} ELSE {})
                   \cup (IF rest = <<>> /\ ~m.thr[t].live THEN m.thr[t].awaitingJoin ELSE {})
  BY <1>1, <1>2 DEF IsMachine, MachineFields
<1>4. n.thr[t] = [m.thr[t] EXCEPT !.buf = rest, !.flush = IF due THEN "no" ELSE @]
  BY <1>1, <1>2 DEF IsMachine, MachineFields, ThreadFields
<1>5. DOMAIN m.thr[t] = ThreadFields
  BY DEF IsMachine
<1>6. IsMachine(n)
  BY <1>3, <1>4, <1>5 DEF IsMachine, ThreadFields
<1>7. Flushed(m, t, n, rest)
  BY <1>3, <1>4, <1>5, <1>6 DEF Flushed, ThreadFields
<1>8. t \notin n.wake =>
        ~due /\ n.thr[t].flush = m.thr[t].flush /\ n.thr[t].flushMl = m.thr[t].flushMl
  BY <1>3, <1>4, <1>5 DEF ThreadFields
<1> QED BY <1>7, <1>8 DEF n, rest, due

(* A buffer that loses one entry is a buffer; those behind it move up.        *)
LEMMA BufferRemoves ==
  ASSUME NEW b, IsBuffer(b), NEW k \in 1..Len(b)
  PROVE  /\ IsBuffer(RemoveAt(b, k)) /\ Len(RemoveAt(b, k)) = Len(b) - 1
         /\ \A j \in 1..Len(b) - 1 : RemoveAt(b, k)[j] = IF j < k THEN b[j] ELSE b[j + 1]
<1>1. PICK S : b \in Seq(S) /\ \A z \in S : IsLocation(z.ml)
  BY DEF IsBuffer
<1> DEFINE p == SubSeq(b, 1, k - 1)
           q == SubSeq(b, k + 1, Len(b))
<1>2. Len(b) \in Nat /\ \A j \in 1..Len(b) : b[j] \in S
  BY <1>1, LenProperties, ElementOfSeq
<1>3. p \in Seq(S) /\ Len(p) = k - 1 /\ \A j \in 1..k - 1 : p[j] = b[j]
  BY <1>2, SubSeqProperties
<1>4. q \in Seq(S) /\ Len(q) = Len(b) - k /\ \A j \in 1..Len(b) - k : q[j] = b[k + j]
  BY <1>2, SubSeqProperties
<1> HIDE DEF p, q
<1>5. /\ p \o q \in Seq(S) /\ Len(p \o q) = Len(p) + Len(q)
      /\ \A j \in 1..Len(p) + Len(q) : (p \o q)[j] = IF j <= Len(p) THEN p[j] ELSE q[j - Len(p)]
  BY <1>3, <1>4, ConcatProperties
<1>6. RemoveAt(b, k) = p \o q
  BY DEF RemoveAt, p, q
<1> DEFINE r == p \o q
<1>7. ASSUME NEW j \in 1..Len(b) - 1 PROVE r[j] = IF j < k THEN b[j] ELSE b[j + 1]
  <2>1. CASE j < k
    BY <1>2, <1>3, <1>4, <1>5, <2>1
  <2>2. CASE ~ (j < k)
    <3>1. r[j] = q[j - (k - 1)]
      BY <1>2, <1>3, <1>4, <1>5, <2>2
    <3>2. j - (k - 1) \in 1..Len(b) - k /\ k + (j - (k - 1)) = j + 1
      BY <1>2, <2>2
    <3> QED BY <1>4, <2>2, <3>1, <3>2
  <2> QED BY <2>1, <2>2
<1>8. IsBuffer(r) /\ Len(r) = Len(b) - 1
  <2>1. r \in Seq(S) /\ \A z \in S : IsLocation(z.ml)
    BY <1>1, <1>5
  <2>2. IsBuffer(r)
    BY <2>1 DEF IsBuffer
  <2> QED BY <1>2, <1>3, <1>4, <1>5, <2>2
<1> HIDE DEF r
<1>9. RemoveAt(b, k) = r
  BY <1>6 DEF r
<1> QED BY <1>7, <1>8, <1>9

(* A location that the buffer half covers stays so when a store that does not *)
(* touch it leaves: PSOInterpreter need not look at the thread then.          *)
LEMMA StaysUnreadable ==
  ASSUME NEW b, IsBuffer(b), NEW k \in 1..Len(b), NEW ml,
         ~Readable(b, ml), ~Overlaps(b[k].ml, ml)
  PROVE  ~Readable(RemoveAt(b, k), ml)
<1> DEFINE r == RemoveAt(b, k)
<1>1. PICK x \in Bytes(ml) : BufferOf(b, x) # {} /\ b[Max(BufferOf(b, x))].ml # ml
  BY DEF Readable
<1> DEFINE B == BufferOf(b, x)
           C == BufferOf(r, x)
           j == Max(B)
           i == IF j < k THEN j ELSE j - 1
<1>2. Len(b) \in Nat /\ DOMAIN b = 1..Len(b)
  BY BufferShape
<1>3. /\ IsBuffer(r) /\ Len(r) = Len(b) - 1
      /\ \A y \in 1..Len(b) - 1 : r[y] = IF y < k THEN b[y] ELSE b[y + 1]
  BY BufferRemoves
<1>4. DOMAIN r = 1..Len(b) - 1
  BY <1>3, BufferShape
<1>5. k \notin B
  BY <1>1 DEF BufferOf, Overlaps
<1>6. B \subseteq 0..Len(b) /\ B # {}
  BY <1>1, <1>2 DEF BufferOf
<1>7. j \in B /\ \A y \in B : y <= j
  <2> HIDE DEF B
  <2> QED BY <1>2, <1>6, Greatest
<1>8. j \in 1..Len(b) /\ x \in Bytes(b[j].ml) /\ j # k
  BY <1>2, <1>5, <1>7 DEF BufferOf
<1> HIDE DEF r, j
<1>9. i \in 1..Len(b) - 1 /\ r[i] = b[j]
  <2>1. CASE j < k
    BY <1>2, <1>3, <1>8, <2>1
  <2>2. CASE j > k
    BY <1>2, <1>3, <1>8, <2>2
  <2> QED BY <1>8, <2>1, <2>2
<1>10. i \in C
  BY <1>4, <1>8, <1>9 DEF BufferOf
<1>11. C \subseteq 0..Len(b) /\ C # {}
  BY <1>2, <1>4, <1>10 DEF BufferOf
<1>12. Max(C) \in C /\ \A y \in C : y <= Max(C)
  <2> HIDE DEF C
  <2> QED BY <1>2, <1>11, Greatest
<1>13. ASSUME NEW y \in C PROVE y <= i
  <2> DEFINE z == IF y < k THEN y ELSE y + 1
  <2>1. y \in 1..Len(b) - 1 /\ x \in Bytes(r[y].ml) /\ r[y] = b[z]
    BY <1>3, <1>4 DEF BufferOf
  <2>2. z \in 1..Len(b)
    BY <1>2, <2>1
  <2>3. z \in B
    BY <1>2, <2>1, <2>2 DEF BufferOf
  <2>4. z <= j
    BY <1>7, <2>3
  <2> QED BY <1>2, <1>8, <2>1, <2>4
<1>14. Max(C) = i
  BY <1>2, <1>9, <1>10, <1>11, <1>12, <1>13
<1>15. r[Max(C)].ml # ml
  BY <1>1, <1>9, <1>14 DEF j
<1> QED BY <1>1, <1>11, <1>15 DEF Readable, r

(* A store that reaches memory leaves the reason of every other thread in     *)
(* place or wakes it.                                                         *)
LEMMA FlushWaits ==
  ASSUME NEW m, NEW t \in DOMAIN m.thr, NEW n, NEW rest, Flushed(m, t, n, rest),
         Model = "SC" => rest = <<>>,
         NEW u \in DOMAIN m.thr, u \notin n.wake, NEW i, Waits(m, u, i),
         u = t /\ WaitsFence(m.thr[t], i) => WaitsFence(n.thr[t], i),
         u = t /\ WaitsLoad(m.thr[t], i) => WaitsLoad(n.thr[t], i)
  PROVE  Waits(n, u, i)
<1>1. /\ n.thr[u].live = m.thr[u].live /\ n.thr[u].waiting = m.thr[u].waiting
      /\ n.thr[u].pendingLock = m.thr[u].pendingLock
  BY DEF Flushed
<1>2. CASE Stopped(m, u)
  BY <1>1, <1>2 DEF Stopped, Waits
<1>3. CASE WaitsJoin(m, u, i)
  <2>1. WaitsJoin(n, u, i)
    BY <1>3 DEF WaitsJoin, Flushed
  <2> QED BY <2>1 DEF Waits
<1>4. CASE WaitsMutex(m, u, i)
  <2>1. WaitsMutex(n, u, i)
    BY <1>1, <1>4 DEF WaitsMutex, NeedsMutex, Flushed
  <2> QED BY <2>1 DEF Waits
<1>5. CASE WaitsFence(m.thr[u], i) \/ WaitsLoad(m.thr[u], i)
  <2>1. WaitsFence(n.thr[u], i) \/ WaitsLoad(n.thr[u], i)
    BY <1>5 DEF Flushed
  <2> QED BY <2>1 DEF Waits
<1> QED BY <1>2, <1>3, <1>4, <1>5 DEF Waits

(* Under TSO the thread itself is woken when the store it waits for has left  *)
(* its buffer.                                                                *)
LEMMA TsoBufferWaits ==
  ASSUME Model = "TSO", NEW m, WellFormed(m), NEW t \in DOMAIN m.thr, m.thr[t].buf # <<>>,
         t \notin Flush(m, t).wake, NEW i
  PROVE  /\ WaitsFence(m.thr[t], i) => WaitsFence(Flush(m, t).thr[t], i)
         /\ WaitsLoad(m.thr[t], i) => WaitsLoad(Flush(m, t).thr[t], i)
<1> DEFINE b == m.thr[t].buf
           th == Flush(m, t).thr[t]
           k == NewestOverlap(b, i.ml)
<1>1. IsBuffer(b) /\ IsMachine(m)
  BY DEF WellFormed
<1>2. /\ IsBuffer(Tail(b)) /\ Len(Tail(b)) = Len(b) - 1
      /\ Len(b) \in Nat /\ Len(b) # 0
  BY <1>1, BufferDrains, BufferShape
<1>3. th.buf = Tail(b) /\ th.partialFlush = m.thr[t].partialFlush
  BY <1>1, FlushEffect DEF Flushed
<1>4. ~ (Len(Tail(b)) <= m.thr[t].partialFlush)
  BY <1>1, FlushEffect
<1>5. ASSUME WaitsFence(m.thr[t], i) PROVE WaitsFence(th, i)
  <2>1. m.thr[t].partialFlush = 0 /\ i.op \in FenceOps
    BY <1>5 DEF WaitsFence
  <2>2. Tail(b) # <<>>
    <3> HIDE DEF b
    <3>1. Len(Tail(b)) # 0
      BY <1>2, <1>4, <2>1
    <3>2. Tail(b) = <<>> <=> Len(Tail(b)) = 0
      BY <1>2, BufferShape
    <3> QED BY <3>1, <3>2
  <2> HIDE DEF th
  <2> QED BY <1>3, <2>1, <2>2 DEF WaitsFence
<1>6. ASSUME WaitsLoad(m.thr[t], i) PROVE WaitsLoad(th, i)
  <2>1. /\ i.op = "load" /\ k # 0 /\ b[k].ml # i.ml
        /\ m.thr[t].partialFlush = Len(b) - k
    BY <1>6 DEF WaitsLoad
  <2>2. k \in 0..Len(b)
    BY <1>1, NewestOverlapIs
  <2>3. k > 1
    BY <1>2, <1>4, <2>1, <2>2
  <2>4. NewestOverlap(Tail(b), i.ml) = k - 1 /\ Tail(b)[k - 1] = b[k]
    BY <1>1, <2>3, NewestOverlapShifts
  <2>5. Len(Tail(b)) - (k - 1) = Len(b) - k /\ k - 1 # 0
    BY <1>2, <2>2, <2>3
  <2> HIDE DEF th, b, k
  <2> QED BY <1>3, <2>1, <2>4, <2>5 DEF WaitsLoad
<1> QED BY <1>5, <1>6

(* The same under PSO.                                                        *)
LEMMA PsoBufferWaits ==
  ASSUME Model = "PSO", NEW m, WellFormed(m), NEW t \in DOMAIN m.thr,
         NEW k \in 1..Len(m.thr[t].buf), NEW x, Min(BufferOf(m.thr[t].buf, x)) = k,
         t \notin PsoFlush(m, t, x).wake, NEW i
  PROVE  /\ WaitsFence(m.thr[t], i) => WaitsFence(PsoFlush(m, t, x).thr[t], i)
         /\ WaitsLoad(m.thr[t], i) => WaitsLoad(PsoFlush(m, t, x).thr[t], i)
<1> DEFINE b == m.thr[t].buf
           rest == RemoveAt(b, k)
           th == PsoFlush(m, t, x).thr[t]
<1>1. IsBuffer(b) /\ IsMachine(m)
  BY DEF WellFormed
<1>2. /\ th.buf = rest
      /\ th.flush = m.thr[t].flush /\ th.flushMl = m.thr[t].flushMl
      /\ ~FlushDone(m.thr[t], b[k].ml, rest)
  BY <1>1, PsoFlushEffect DEF Flushed
<1> HIDE DEF th, rest
<1>3. ASSUME WaitsFence(m.thr[t], i) PROVE WaitsFence(th, i)
  BY <1>2, <1>3 DEF WaitsFence, FlushDone
<1>4. ASSUME WaitsLoad(m.thr[t], i) PROVE WaitsLoad(th, i)
  <2>1. /\ i.op = "load" /\ ~Readable(b, i.ml)
        /\ m.thr[t].flush = "partial" /\ m.thr[t].flushMl = i.ml
    BY <1>4 DEF WaitsLoad
  <2>2. CASE Overlaps(b[k].ml, i.ml)
    BY <1>2, <2>1, <2>2 DEF FlushDone, WaitsLoad
  <2>3. CASE ~Overlaps(b[k].ml, i.ml)
    <3>1. ~Readable(rest, i.ml)
      BY <1>1, <2>1, <2>3, StaysUnreadable DEF rest
    <3> QED BY <1>2, <2>1, <3>1 DEF WaitsLoad
  <2> QED BY <2>2, <2>3
<1> QED BY <1>3, <1>4 DEF th

(* A flush leaves the machine well formed.                                    *)
LEMMA FlushWellFormed ==
  ASSUME NEW m, WellFormed(m), NEW t \in DOMAIN m.thr, NEW n, NEW rest, Flushed(m, t, n, rest),
         IsBuffer(rest), Model # "SC"
  PROVE  WellFormed(n)
BY DEF Flushed, WellFormed

(* What runAux does, under either model, to its thread and to the others.     *)
FlushGives(m, t, n, rest) ==
  /\ Flushed(m, t, n, rest) /\ IsBuffer(rest) /\ Model # "SC"
  /\ t \notin n.wake =>
       \A i : /\ WaitsFence(m.thr[t], i) => WaitsFence(n.thr[t], i)
              /\ WaitsLoad(m.thr[t], i) => WaitsLoad(n.thr[t], i)

(* Every flush has that effect.                                               *)
LEMMA FlushThreadEffect ==
  ASSUME Model \in {"SC", "TSO", "PSO"}, Inv, NEW t \in Threads, FlushThread(t)
  PROVE  \E rest : FlushGives(mach, t, mach', rest)
<1> DEFINE b == mach.thr[t].buf
<1>0. WellFormed(mach) /\ IsMachine(mach) /\ IsBuffer(b) /\ (Model = "SC" => b = <<>>)
  BY DEF Inv, WellFormed, Threads
<1>1. CASE Model # "PSO"
  <2>1. Model = "TSO" /\ b # <<>> /\ mach' = Flush(mach, t)
    BY <1>0, <1>1 DEF FlushThread, Flushes, CanFlush
  <2>2. Flushed(mach, t, mach', Tail(b)) /\ IsBuffer(Tail(b))
    BY <1>0, <2>1, FlushEffect, BufferDrains DEF Threads
  <2>3. ASSUME t \notin mach'.wake, NEW i
        PROVE  /\ WaitsFence(mach.thr[t], i) => WaitsFence(mach'.thr[t], i)
               /\ WaitsLoad(mach.thr[t], i) => WaitsLoad(mach'.thr[t], i)
    BY <1>0, <2>1, <2>3, TsoBufferWaits DEF Threads
  <2> QED BY <2>1, <2>2, <2>3 DEF FlushGives
<1>2. CASE Model = "PSO"
  <2>1. PICK k \in Flushable(b) : mach' = PsoFlush(mach, t, b[k].ml.addr)
    BY <1>2 DEF FlushThread, Flushes
  <2> DEFINE x == b[k].ml.addr
  <2>2. k \in 1..Len(b) /\ b[k].ml.addr \in Bytes(b[k].ml)
    <3>1. k \in 1..Len(b)
      BY <1>0, BufferShape DEF Flushable
    <3>2. IsLocation(b[k].ml)
      BY <1>0, <3>1, ElementOfSeq DEF IsBuffer
    <3> HIDE DEF b
    <3> QED BY <3>1, <3>2 DEF IsLocation, Bytes
  <2>3. Min(BufferOf(b, x)) = k
    BY <2>2 DEF Flushable
  <2> HIDE DEF x
  <2>4. Flushed(mach, t, mach', RemoveAt(b, k)) /\ IsBuffer(RemoveAt(b, k))
    BY <1>0, <2>1, <2>2, <2>3, PsoFlushEffect, BufferRemoves DEF Threads, x
  <2>5. ASSUME t \notin mach'.wake, NEW i
        PROVE  /\ WaitsFence(mach.thr[t], i) => WaitsFence(mach'.thr[t], i)
               /\ WaitsLoad(mach.thr[t], i) => WaitsLoad(mach'.thr[t], i)
    BY <1>0, <1>2, <2>1, <2>2, <2>3, <2>5, PsoBufferWaits DEF Threads, x
  <2> QED BY <1>2, <2>4, <2>5 DEF FlushGives
<1> QED BY <1>1, <1>2

(* A store that reaches memory preserves the invariant.                       *)
LEMMA FlushThreadInv ==
  ASSUME Model \in {"SC", "TSO", "PSO"}, Inv, NEW t \in Threads, FlushThread(t)
  PROVE  Inv'
<1> DEFINE b == mach.thr[t].buf
<1>1. WellFormed(mach) /\ IsMachine(mach) /\ IsBuffer(b) /\ (Model = "SC" => b = <<>>)
  BY DEF Inv, WellFormed, Threads
<1>2. PICK rest : FlushGives(mach, t, mach', rest)
  BY FlushThreadEffect
<1>3. WellFormed(mach)'
  BY <1>1, <1>2, FlushWellFormed DEF FlushGives, Threads, WellFormed
<1>4. ASSUME NEW u \in Threads' \ avail' PROVE Waits(mach', u, Instruction(u)')
  <2>1. u \in Threads \ avail /\ u \notin mach'.wake
    BY <1>2 DEF FlushGives, Flushed, FlushThread, Threads
  <2>2. Waits(mach, u, Instruction(u))
    BY <2>1 DEF Inv, Remembered
  <2>3. Instruction(u)' = Instruction(u)
    BY <1>2, <2>1 DEF FlushGives, Flushed, Instruction, NextInstr, Threads
  <2>4. Waits(mach', u, Instruction(u))
    BY <1>2, <2>1, <2>2, FlushWaits DEF FlushGives, Threads
  <2> QED BY <2>3, <2>4
<1> QED BY <1>3, <1>4 DEF Inv, Remembered

(* -------------------------------- refusals ------------------------------- *)

(* Who is refused is noted as waiting, and nobody else's notes are lost.      *)
NotesKept(m, t, n) ==
  /\ IsMachine(n) /\ DOMAIN n.thr = DOMAIN m.thr /\ n.own = m.own
  /\ \A u \in DOMAIN m.thr :
       /\ n.thr[u].pc = m.thr[u].pc /\ n.thr[u].buf = m.thr[u].buf
       /\ n.thr[u].live = m.thr[u].live /\ n.thr[u].waiting = m.thr[u].waiting
       /\ n.thr[u].assumeBlocked = m.thr[u].assumeBlocked
       /\ n.thr[u].pendingLock = m.thr[u].pendingLock
       /\ m.thr[u].awaitingJoin \subseteq n.thr[u].awaitingJoin
       /\ u # t => /\ n.thr[u].partialFlush = m.thr[u].partialFlush
                   /\ n.thr[u].flush = m.thr[u].flush /\ n.thr[u].flushMl = m.thr[u].flushMl
  /\ \A a \in DOMAIN m.own : m.queue[a] \subseteq n.queue[a]

(* A refused pthread_join is noted with the thread it is to join with.        *)
LEMMA JoinNoted ==
  ASSUME NEW m, IsMachine(m), NEW t, NEW w \in DOMAIN m.thr
  PROVE  LET n == [m EXCEPT !.wake = {}, !.thr[w].awaitingJoin = @ \cup {t}]
         IN  NotesKept(m, t, n) /\ t \in n.thr[w].awaitingJoin
BY DEF NotesKept, IsMachine, MachineFields, ThreadFields

(* A refused pthread_mutex_lock is noted in the queue of the mutex.           *)
LEMMA QueueNoted ==
  ASSUME NEW m, IsMachine(m), NEW t, NEW A, NEW n,
         n = [m EXCEPT !.wake = {},
                !.queue = [a \in DOMAIN @ |-> IF a \in A THEN @[a] \cup {t} ELSE @[a]]]
  PROVE  NotesKept(m, t, n) /\ \A a \in A \cap DOMAIN m.own : t \in n.queue[a]
BY DEF NotesKept, IsMachine, MachineFields, ThreadFields

(* Whatever a thread is refused for, checkRefuse notes the reason.            *)
LEMMA RefusalNotes ==
  ASSUME Model \in {"SC", "TSO", "PSO"}, NEW m, WellFormed(m), NEW t \in DOMAIN m.thr,
         NEW i, Allowed(m, t, i), IsRefused(m, t, i)
  PROVE  NotesKept(m, t, Refusal(m, t, i)) /\ Waits(Refusal(m, t, i), t, i)
<1> DEFINE n == Refusal(m, t, i)
           b == m.thr[t].buf
           Joining == IF Model = "PSO" THEN PsoJoinRefused(m, i) ELSE JoinRefused(Model, m, i)
           Fencing == IF Model = "PSO" THEN PsoFenceRefused(m, t, i) ELSE FenceRefused(Model, m, t, i)
           Loading == IF Model = "PSO" THEN PsoLoadRefused(m, t, i) ELSE LoadRefused(Model, m, t, i)
<1>0. IsMachine(m) /\ (Model = "SC" => \A u \in DOMAIN m.thr : m.thr[u].buf = <<>>)
  BY DEF WellFormed
<1>1. CASE Joining
  <2>1. i.op = "join" /\ i.to \in DOMAIN m.thr
    BY <1>1 DEF JoinRefused, PsoJoinRefused, Allowed
  <2>2. n = [m EXCEPT !.wake = {}, !.thr[i.to].awaitingJoin = @ \cup {t}]
    BY <1>1 DEF Refusal, Refuse, PsoRefuse
  <2>3. \/ m.thr[i.to].live \/ m.thr[i.to].assumeBlocked
        \/ Model # "SC" /\ m.thr[i.to].buf # <<>>
    BY <1>1 DEF JoinRefused, PsoJoinRefused
  <2> HIDE DEF n
  <2>4. NotesKept(m, t, n) /\ t \in n.thr[i.to].awaitingJoin
    BY <1>0, <2>1, <2>2, JoinNoted
  <2>5. WaitsJoin(n, t, i)
    BY <2>1, <2>3, <2>4 DEF WaitsJoin, NotesKept
  <2> QED BY <2>4, <2>5 DEF Waits, n
<1>2. CASE ~Joining /\ Fencing
  <2>1. i.op \in FenceOps /\ b # <<>> /\ Model \in {"TSO", "PSO"}
    BY <1>2 DEF FenceRefused, PsoFenceRefused
  <2>2. /\ Model = "PSO" => n = [m EXCEPT !.wake = {}, !.thr[t].flush = "full"]
        /\ Model # "PSO" => n = [m EXCEPT !.wake = {}, !.thr[t].partialFlush = 0]
    BY <1>2 DEF Refusal, Refuse, PsoRefuse
  <2> HIDE DEF n
  <2>3. NotesKept(m, t, n) /\ IF Model = "PSO" THEN n.thr[t].flush = "full"
                                             ELSE n.thr[t].partialFlush = 0
    <3>1. CASE Model = "PSO"
      <4>1. n = [m EXCEPT !.wake = {}, !.thr[t].flush = "full"]
        BY <2>2, <3>1
      <4>2. NotesKept(m, t, n) /\ n.thr[t].flush = "full"
        BY <1>0, <4>1 DEF NotesKept, IsMachine, MachineFields, ThreadFields
      <4> QED BY <3>1, <4>2
    <3>2. CASE Model # "PSO"
      <4>1. n = [m EXCEPT !.wake = {}, !.thr[t].partialFlush = 0]
        BY <2>2, <3>2
      <4>2. NotesKept(m, t, n) /\ n.thr[t].partialFlush = 0
        BY <1>0, <4>1 DEF NotesKept, IsMachine, MachineFields, ThreadFields
      <4> QED BY <3>2, <4>2
    <3> QED BY <3>1, <3>2
  <2>4. WaitsFence(n.thr[t], i)
    BY <2>1, <2>3 DEF WaitsFence, NotesKept
  <2> QED BY <2>3, <2>4 DEF Waits, n
<1>3. CASE ~Joining /\ ~Fencing /\ Loading
  <2> DEFINE k == NewestOverlap(b, i.ml)
             v == Len(b) - k
  <2>1. /\ i.op = "load" /\ Model \in {"TSO", "PSO"}
        /\ IF Model = "PSO" THEN ~Readable(b, i.ml) ELSE k # 0 /\ b[k].ml # i.ml
    BY <1>3 DEF LoadRefused, PsoLoadRefused
  <2>2. /\ Model = "PSO" =>
              n = [m EXCEPT !.wake = {}, !.thr[t].flush = "partial", !.thr[t].flushMl = i.ml]
        /\ Model # "PSO" => n = [m EXCEPT !.wake = {}, !.thr[t].partialFlush = v]
    BY <1>3 DEF Refusal, Refuse, PsoRefuse
  <2> HIDE DEF n, v
  <2>3. NotesKept(m, t, n) /\ IF Model = "PSO"
                              THEN n.thr[t].flush = "partial" /\ n.thr[t].flushMl = i.ml
                              ELSE n.thr[t].partialFlush = v
    <3>1. CASE Model = "PSO"
      <4>1. n = [m EXCEPT !.wake = {}, !.thr[t].flush = "partial", !.thr[t].flushMl = i.ml]
        BY <2>2, <3>1
      <4>2. NotesKept(m, t, n) /\ n.thr[t].flush = "partial" /\ n.thr[t].flushMl = i.ml
        BY <1>0, <4>1 DEF NotesKept, IsMachine, MachineFields, ThreadFields
      <4> QED BY <3>1, <4>2
    <3>2. CASE Model # "PSO"
      <4>1. n = [m EXCEPT !.wake = {}, !.thr[t].partialFlush = v]
        BY <2>2, <3>2
      <4>2. NotesKept(m, t, n) /\ n.thr[t].partialFlush = v
        BY <1>0, <4>1 DEF NotesKept, IsMachine, MachineFields, ThreadFields
      <4> QED BY <3>2, <4>2
    <3> QED BY <3>1, <3>2
  <2>4. n.thr[t].buf = b
    BY <2>3 DEF NotesKept
  <2>5. WaitsLoad(n.thr[t], i)
    BY <2>1, <2>3, <2>4 DEF WaitsLoad, v
  <2> QED BY <2>3, <2>5 DEF Waits, n
<1>4. CASE ~Joining /\ ~Fencing /\ ~Loading
  <2> DEFINE A == NeedsMutex(m, t, i)
  <2>1. PICK a \in A : m.own[a] # NoTid
    BY <1>4 DEF IsRefused, Refused, PsoRefused, MutexRefused
  <2>2. a \in DOMAIN m.own
    BY <2>1 DEF NeedsMutex, WellFormed, Allowed
  <2>3. n = [m EXCEPT !.wake = {},
               !.queue = [z \in DOMAIN @ |-> IF z \in A THEN @[z] \cup {t} ELSE @[z]]]
    <3>1. CASE Model # "PSO"
      BY <1>4, <3>1 DEF Refusal, Refuse
    <3>2. CASE Model = "PSO"
      <4>1. n = Refuse("PSO", m, t, i)
        BY <1>4, <3>2 DEF Refusal, PsoRefuse
      <4>2. ~JoinRefused("PSO", m, i) /\ ~FenceRefused("PSO", m, t, i) /\ ~LoadRefused("PSO", m, t, i)
        BY <1>4, <3>2 DEF JoinRefused, PsoJoinRefused, FenceRefused, LoadRefused
      <4> QED BY <4>1, <4>2 DEF Refuse
    <3> QED BY <3>1, <3>2
  <2> HIDE DEF n
  <2>4. NotesKept(m, t, n) /\ \A z \in A \cap DOMAIN m.own : t \in n.queue[z]
    <3> HIDE DEF A
    <3> QED BY <1>0, <2>3, QueueNoted
  <2>5. NeedsMutex(n, t, i) = A
    BY <2>4 DEF NeedsMutex, NotesKept
  <2>6. n.own[a] # NoTid /\ a \in DOMAIN n.own /\ t \in n.queue[a]
    BY <2>1, <2>2, <2>4 DEF NotesKept
  <2>7. WaitsMutex(n, t, i)
    BY <2>1, <2>5, <2>6 DEF WaitsMutex
  <2> QED BY <2>4, <2>7 DEF Waits, n
<1> QED BY <1>1, <1>2, <1>3, <1>4

(* The notes of the other threads stay.                                       *)
LEMMA NotesWait ==
  ASSUME NEW m, NEW n, NEW t, NotesKept(m, t, n),
         NEW u \in DOMAIN m.thr \ {t}, NEW i, Waits(m, u, i)
  PROVE  Waits(n, u, i)
<1>1. CASE Stopped(m, u)
  BY <1>1 DEF Waits, Stopped, NotesKept
<1>2. CASE WaitsJoin(m, u, i)
  <2>1. WaitsJoin(n, u, i)
    BY <1>2 DEF WaitsJoin, NotesKept
  <2> QED BY <2>1 DEF Waits
<1>3. CASE WaitsMutex(m, u, i)
  <2>1. WaitsMutex(n, u, i)
    BY <1>3 DEF WaitsMutex, NeedsMutex, NotesKept
  <2> QED BY <2>1 DEF Waits
<1>4. CASE WaitsFence(m.thr[u], i)
  <2>1. WaitsFence(n.thr[u], i)
    BY <1>4 DEF WaitsFence, NotesKept
  <2> QED BY <2>1 DEF Waits
<1>5. CASE WaitsLoad(m.thr[u], i)
  <2>1. WaitsLoad(n.thr[u], i)
    BY <1>5 DEF WaitsLoad, NotesKept
  <2> QED BY <2>1 DEF Waits
<1> QED BY <1>1, <1>2, <1>3, <1>4, <1>5 DEF Waits

(* A refusal preserves the invariant.                                         *)
LEMMA RefuseThreadInv ==
  ASSUME Model \in {"SC", "TSO", "PSO"}, Inv, NEW t \in Threads, RefuseThread(t)
  PROVE  Inv'
<1>1. /\ WellFormed(mach) /\ t \in DOMAIN mach.thr
      /\ Allowed(mach, t, Instruction(t)) /\ IsRefused(mach, t, Instruction(t))
      /\ mach' = Refusal(mach, t, Instruction(t)) /\ avail' = avail \ {t}
  BY DEF Inv, RefuseThread, Scheduled, Threads
<1>2. NotesKept(mach, t, mach') /\ Waits(mach', t, Instruction(t))
  BY <1>1, RefusalNotes
<1>3. WellFormed(mach)'
  BY <1>1, <1>2 DEF NotesKept, WellFormed
<1>4. ASSUME NEW u \in Threads' \ avail' PROVE Waits(mach', u, Instruction(u)')
  <2>1. u \in Threads /\ (u = t \/ u \notin avail)
    BY <1>1, <1>2 DEF NotesKept, Threads
  <2>2. Instruction(u)' = Instruction(u)
    BY <1>2, <2>1 DEF NotesKept, Instruction, NextInstr, Threads
  <2>3. CASE u = t
    BY <1>2, <2>2, <2>3
  <2>4. CASE u # t
    <3>1. Waits(mach, u, Instruction(u))
      BY <2>1, <2>4 DEF Inv, Remembered
    <3>2. Waits(mach', u, Instruction(u))
      BY <1>2, <2>1, <2>4, <3>1, NotesWait DEF Threads
    <3> QED BY <2>2, <3>2
  <2> QED BY <2>3, <2>4
<1> QED BY <1>3, <1>4 DEF Inv, Remembered

(* An instruction preserves the invariant.                                    *)
LEMMA RunThreadInv ==
  ASSUME Model \in {"SC", "TSO", "PSO"}, Inv, NEW t \in Threads, RunThread(t)
  PROVE  Inv'
<1> DEFINE i == Instruction(t)
<1>1. /\ WellFormed(mach) /\ IsMachine(mach) /\ t \in DOMAIN mach.thr /\ t # NoTid
      /\ Allowed(mach, t, i) /\ mach.thr[t].live
  BY DEF Inv, WellFormed, RunThread, Scheduled, Threads, NoTid
<1>2. PICK alt : mach' = Execute(Model, mach, t, i, alt)
  BY PsoExecuteSame DEF RunThread, Ran
<1>3. StepKeeps(Model, mach, t, mach')
  BY <1>1, <1>2, ExecuteKeeps DEF Allowed
<1>5. WellFormed(mach)'
  BY <1>1, <1>3, StepWellFormed
<1>6. ASSUME NEW u \in Threads' \ avail' PROVE Waits(mach', u, Instruction(u)')
  <2>1. u \in Threads /\ u \notin mach'.wake /\ u \in DOMAIN mach.thr
    BY DEF RunThread, Threads
  <2>2. CASE u = t
    <3>1. Stopped(mach', t)
      BY <2>1, <2>2 DEF RunThread, Scheduled
    <3> QED BY <2>2, <3>1 DEF Waits, Stopped
  <2>3. CASE u # t
    <3>1. Waits(mach, u, Instruction(u))
      BY <2>1, <2>3 DEF RunThread, Inv, Remembered
    <3>2. mach'.thr[u] = mach.thr[u] /\ Waits(mach', u, Instruction(u))
      BY <1>1, <1>3, <2>1, <2>3, <3>1, StepWaits
    <3>3. Instruction(u)' = Instruction(u)
      BY <3>2 DEF Instruction, NextInstr
    <3> QED BY <3>2, <3>3
  <2> QED BY <2>2, <2>3
<1> QED BY <1>5, <1>6 DEF Inv, Remembered

(* ------------------------------ every state ------------------------------ *)

(* It holds at the start.                                                     *)
LEMMA InitInv ==
  ASSUME Init
  PROVE  Inv
<1>1. /\ DOMAIN mach = MachineFields /\ DOMAIN mach.thr = {0} /\ mach.thr[0] = NewThread
      /\ DOMAIN mach.queue = DOMAIN mach.own
  BY DEF Init, NewMachine, MachineFields
<1>2. DOMAIN NewThread = ThreadFields /\ NewThread.buf = <<>> /\ NewThread.pendingLock = NoTid
  BY DEF NewThread, ThreadFields
<1>3. IsBuffer(<<>>) /\ NoTid # 0
  BY EmptyBuffer DEF NoTid
<1>4. WellFormed(mach)
  BY <1>1, <1>2, <1>3 DEF WellFormed, IsMachine
<1>5. Remembered
  BY <1>1 DEF Remembered, Threads, Init
<1> QED BY <1>4, <1>5 DEF Inv

(* The invariant holds in every state of every program.                       *)
LEMMA AlwaysInv ==
  ASSUME Model \in {"SC", "TSO", "PSO"}
  PROVE  Spec => []Inv
<1>1. Init => Inv
  BY InitInv
<1>2. Inv /\ [Next]_<<mach, avail>> => Inv'
  <2> SUFFICES ASSUME Inv, [Next]_<<mach, avail>> PROVE Inv'
    OBVIOUS
  <2>1. CASE Next
    BY <2>1, RefuseThreadInv, RunThreadInv, FlushThreadInv DEF Next
  <2>2. CASE UNCHANGED <<mach, avail>>
    BY <2>2 DEF Inv, Remembered, Threads, Instruction
  <2> QED BY <2>1, <2>2
<1> QED BY <1>1, <1>2, PTL DEF Spec

(* Under SC, TSO and PSO, for every program, every number of threads and      *)
(* every schedule: no thread is left unavailable that could take its next     *)
(* step. It is about mark_unavailable in checkRefuse and run(), and about     *)
(* every mark_available of runAux, terminate, the mutexes and the condition   *)
(* variables.                                                                 *)
THEOREM NobodyForgotten ==
  ASSUME Model \in {"SC", "TSO", "PSO"}
  PROVE  Spec => []NoneForgotten
<1>1. Inv => NoneForgotten
  BY WaitsCannotGoOn
<1> QED BY <1>1, AlwaysInv, PTL

(* ------------------ loads see their thread's own stores ------------------ *)

(* What thread t itself must see in byte x: the newest of its own stores that *)
(* covers the byte and has not reached memory, or memory.                     *)
Newest(m, t, x) ==
  LET S == BufferOf(m.thr[t].buf, x)
  IN  IF S = {} THEN m.mem[x]
      ELSE [val |-> m.thr[t].buf[Max(S)].val, by |-> m.thr[t].buf[Max(S)].id]

(* A load that is not refused finds in each byte what its thread stored there *)
(* last, or memory if no such store is pending. TSOInterpreter and            *)
(* PSOInterpreter::visitLoadInst look for a buffered store to the very        *)
(* location (ROWE) and read memory if there is none, so this rests on         *)
(* checkRefuse to hold back every load that the buffer covers otherwise.      *)
OwnStoresRead ==
  \A t \in Threads : LET i == Instruction(t) IN
    i.op = "load" /\ IsLocation(i.ml) /\ MayStep(Prog, Model, mach, t) =>
      \A j \in 1 .. i.ml.size : Found(mach, t, i.ml)[j] = Newest(mach, t, i.ml.addr + j - 1)

(* Each entry of a buffer is a store to a location.                           *)
LEMMA BufferEntry ==
  ASSUME NEW b, IsBuffer(b)
  PROVE  /\ Len(b) \in Nat /\ DOMAIN b = 1..Len(b)
         /\ \A k \in 1..Len(b) : IsLocation(b[k].ml)
<1>1. PICK S : b \in Seq(S) /\ \A z \in S : IsLocation(z.ml)
  BY DEF IsBuffer
<1>2. \A k \in 1..Len(b) : b[k] \in S
  BY <1>1, ElementOfSeq
<1> QED BY <1>1, <1>2, BufferShape

(* Max of a set of entries.                                                   *)
LEMMA GreatestIn ==
  ASSUME NEW b, IsBuffer(b), NEW S, S \subseteq DOMAIN b
  PROVE  /\ S # {} => Max(S) \in S /\ \A k \in S : k <= Max(S)
         /\ Max({0} \cup S) = IF S = {} THEN 0 ELSE Max(S)
<1>1. Len(b) \in Nat /\ S \subseteq 0..Len(b) /\ S \subseteq 1..Len(b)
  BY BufferShape
<1>2. S # {} => Max(S) \in S /\ \A k \in S : k <= Max(S)
  BY <1>1, Greatest
<1>3. Max({0} \cup S) \in {0} \cup S /\ \A k \in {0} \cup S : k <= Max({0} \cup S)
  <2> DEFINE T == {0} \cup S
  <2>1. T \subseteq 0..Len(b) /\ T # {}
    BY <1>1
  <2> HIDE DEF T
  <2>2. Max(T) \in T /\ \A k \in T : k <= Max(T)
    BY <1>1, <2>1, Greatest
  <2> QED BY <2>2 DEF T
<1>4. CASE S = {}
  BY <1>2, <1>3, <1>4
<1>5. CASE S # {}
  <2> DEFINE g == Max({0} \cup S)
             h == Max(S)
  <2>1. h \in S /\ h \in 1..Len(b) /\ \A k \in S : k <= h
    BY <1>1, <1>2, <1>5
  <2>2. g \in {0} \cup S /\ h <= g
    BY <1>3, <2>1
  <2> HIDE DEF g, h
  <2>3. g \in S /\ g \in 1..Len(b)
    BY <1>1, <2>1, <2>2
  <2>4. g = h
    BY <1>1, <2>1, <2>2, <2>3
  <2> QED BY <1>2, <1>5, <2>4 DEF g, h
<1> QED BY <1>2, <1>4, <1>5

(* One load, by cases: no entry overlaps the location, or the newest in each  *)
(* of its bytes is a store to that very location.                             *)
LEMMA FoundIsNewest ==
  ASSUME Model \in {"SC", "TSO", "PSO"}, NEW m, WellFormed(m), NEW t \in DOMAIN m.thr,
         NEW i, i.op = "load", IsLocation(i.ml), ~IsRefused(m, t, i),
         NEW j \in 1 .. i.ml.size
  PROVE  Found(m, t, i.ml)[j] = Newest(m, t, i.ml.addr + j - 1)
<1> DEFINE b == m.thr[t].buf
           x == i.ml.addr + j - 1
           S == BufferOf(b, x)
           A == BufferOf(b, i.ml.addr)
           F == {k \in DOMAIN b : b[k].ml.addr = i.ml.addr}
           O == {k \in DOMAIN b : Overlaps(b[k].ml, i.ml)}
<1>1. IsBuffer(b) /\ (Model = "SC" => b = <<>>)
  BY DEF WellFormed
<1>2. /\ Len(b) \in Nat /\ DOMAIN b = 1..Len(b)
      /\ \A k \in 1..Len(b) : IsLocation(b[k].ml)
  BY <1>1, BufferEntry
<1>3. Found(m, t, i.ml)[j] =
        IF Forwarding(m, t, i.ml) # 0
        THEN [val |-> b[Forwarding(m, t, i.ml)].val, by |-> b[Forwarding(m, t, i.ml)].id]
        ELSE m.mem[x]
  BY DEF Found
<1>4. /\ Forwarding(m, t, i.ml) = IF F = {} THEN 0 ELSE Max(F)
      /\ F # {} => Max(F) \in F /\ \A k \in F : k <= Max(F)
  <2>1. F \subseteq DOMAIN b
    OBVIOUS
  <2> HIDE DEF F
  <2>2. Forwarding(m, t, i.ml) = Max({0} \cup F)
    BY DEF Forwarding, F
  <2> QED BY <1>1, <2>1, <2>2, GreatestIn
<1>5. S # {} => Max(S) \in S /\ \A k \in S : k <= Max(S)
  <2>1. S \subseteq DOMAIN b
    BY DEF BufferOf
  <2> HIDE DEF S
  <2> QED BY <1>1, <2>1, GreatestIn
<1>6. x \in Bytes(i.ml) /\ i.ml.addr \in Bytes(i.ml)
  BY DEF Bytes, IsLocation
<1>7. \A k \in 1..Len(b) : b[k].ml.addr \in Bytes(b[k].ml)
  <2> HIDE DEF b
  <2> QED BY <1>2 DEF Bytes, IsLocation
<1>8. F \subseteq A /\ \A k \in DOMAIN b : b[k].ml = i.ml => k \in S \cap F
  <2> HIDE DEF x
  <2> QED BY <1>2, <1>6, <1>7 DEF BufferOf
<1>9. CASE S = {} /\ F = {}
  BY <1>3, <1>4, <1>9 DEF Newest
<1>10. ASSUME S # {} \/ F # {}
       PROVE  S # {} /\ F # {} /\ Max(S) = Max(F)
  <2>1. PICK k \in DOMAIN b : /\ b[k].ml = i.ml
                              /\ \A z \in S \cup F : z <= k
    <3>1. CASE Model = "TSO"
      <4>1. ~LoadRefused("TSO", m, t, i)
        BY <3>1 DEF IsRefused, Refused
      <4>2. O \subseteq DOMAIN b /\ NewestOverlap(b, i.ml) = Max({0} \cup O)
        BY DEF NewestOverlap
      <4>3. S \cup F \subseteq O
        BY <1>2, <1>6, <1>8 DEF BufferOf, Overlaps
      <4>4. O # {} /\ Max(O) \in O /\ (\A z \in O : z <= Max(O)) /\ NewestOverlap(b, i.ml) = Max(O)
        <5>1. O # {}
          BY <1>10, <4>3
        <5> HIDE DEF O
        <5> QED BY <1>1, <4>2, <5>1, GreatestIn
      <4>5. b[Max(O)].ml = i.ml
        <5> HIDE DEF O
        <5>1. Max(O) # 0
          BY <1>2, <4>2, <4>4
        <5> QED BY <4>1, <4>4, <5>1 DEF LoadRefused
      <4> HIDE DEF O, S, F
      <4> QED BY <4>2, <4>3, <4>4, <4>5
    <3>2. CASE Model = "PSO"
      <4>1. Readable(b, i.ml)
        BY <3>2 DEF IsRefused, PsoRefused, PsoLoadRefused
      <4>2. A \subseteq DOMAIN b /\ (A # {} => Max(A) \in A /\ \A z \in A : z <= Max(A))
        <5>1. A \subseteq DOMAIN b
          BY DEF BufferOf
        <5> HIDE DEF A
        <5> QED BY <1>1, <5>1, GreatestIn
      <4>3. A # {} => b[Max(A)].ml = i.ml
        BY <1>6, <4>1 DEF Readable
      <4>4. S # {} => b[Max(S)].ml = i.ml
        BY <1>6, <4>1 DEF Readable
      <4>5. S \subseteq DOMAIN b
        BY DEF BufferOf
      <4> HIDE DEF A, S, F
      <4>6. S # {} => Max(S) \in A
        BY <1>5, <1>8, <4>4, <4>5
      <4>7. A # {} => Max(A) \in S
        BY <1>8, <4>2, <4>3
      <4>8. A # {} /\ S # {}
        BY <1>8, <1>10, <4>6, <4>7
      <4>9. Max(A) = Max(S)
        BY <1>2, <1>5, <4>2, <4>5, <4>6, <4>7, <4>8
      <4> QED BY <1>5, <1>8, <4>2, <4>3, <4>8, <4>9
    <3>3. CASE Model = "SC"
      <4>1. DOMAIN b = {}
        BY <1>1, <1>2, <3>3, BufferShape
      <4> QED BY <1>10, <4>1 DEF BufferOf
    <3> QED BY <3>1, <3>2, <3>3
  <2>2. S \subseteq DOMAIN b /\ F \subseteq DOMAIN b
    BY DEF BufferOf
  <2> HIDE DEF S, F, x
  <2>3. k \in S /\ k \in F
    BY <1>8, <2>1
  <2>4. Max(S) = k /\ Max(F) = k
    BY <1>2, <1>4, <1>5, <2>1, <2>2, <2>3
  <2> QED BY <2>3, <2>4
<1>11. CASE S # {} \/ F # {}
  <2>1. S # {} /\ F # {} /\ Max(S) = Max(F)
    BY <1>10, <1>11
  <2>2. Forwarding(m, t, i.ml) = Max(S) /\ Max(S) # 0
    <3>1. S \subseteq DOMAIN b
      BY DEF BufferOf
    <3> HIDE DEF S, F
    <3> QED BY <1>2, <1>4, <1>5, <2>1, <3>1
  <2> QED BY <1>3, <2>1, <2>2 DEF Newest
<1> QED BY <1>9, <1>11

(* Under SC, TSO and PSO no thread misses a store of its own, for stores and  *)
(* loads of every size that overlap in every way.                             *)
THEOREM LoadsSeeOwnStores ==
  ASSUME Model \in {"SC", "TSO", "PSO"}
  PROVE  Spec => []OwnStoresRead
<1>1. Inv => OwnStoresRead
  <2> SUFFICES ASSUME Inv, NEW t \in Threads, Instruction(t).op = "load",
                      IsLocation(Instruction(t).ml), MayStep(Prog, Model, mach, t),
                      NEW j \in 1 .. Instruction(t).ml.size
               PROVE  Found(mach, t, Instruction(t).ml)[j] =
                        Newest(mach, t, Instruction(t).ml.addr + j - 1)
    BY DEF OwnStoresRead
  <2>1. ~IsRefused(mach, t, Instruction(t))
    BY DEF MayStep, CanStep, PsoCanStep, IsRefused, Instruction
  <2>2. WellFormed(mach) /\ t \in DOMAIN mach.thr
    BY DEF Inv, Threads
  <2> QED BY <2>1, <2>2, FoundIsNewest
<1> QED BY <1>1, AlwaysInv, PTL

(* ---------------------------- mutual exclusion --------------------------- *)

(* The one case in which a thread takes a mutex unseen: pthread_mutex_lock as *)
(* the first instruction after a pthread_cond_wait. isPthreadMutexLock then   *)
(* looks at the mutex of the wait alone, and callPthreadMutexLock only        *)
(* asserts that the other one is unlocked.                                    *)
LocksAfterWaiting(t) == mach.thr[t].pendingLock # NoTid /\ Instruction(t).op = "lock"

(* A mutex that is held changes hands in no other way than by its owner's     *)
(* pthread_mutex_unlock or pthread_cond_wait, but for LocksAfterWaiting.      *)
HeldUntilReleased ==
  [][\A a \in DOMAIN mach.own : mach.own[a] # NoTid /\ mach'.own[a] # mach.own[a] =>
       \E t \in Threads :
         /\ RunThread(t)
         /\ \/ mach.own[a] = t /\ mach'.own[a] = NoTid
            \/ LocksAfterWaiting(t)]_<<mach, avail>>

(* Nothing but the four calls on mutexes changes who holds one.               *)
LEMMA AccessOwns ==
  ASSUME NEW m, IsMachine(m), NEW t, NEW mm, NEW i, NEW alt,
         i.op \notin {"lock", "trylock", "unlock", "wait"}
  PROVE  Visit(mm, m, t, i, alt).own = m.own
<1>1. ASSUME NEW n, DOMAIN n = MachineFields
      PROVE  DOMAIN Advance(n, t) = MachineFields /\ Advance(n, t).own = n.own
  BY <1>1 DEF Advance, MachineFields
<1>2. ASSUME NEW n, DOMAIN n = MachineFields, NEW ml, NEW val, NEW id
      PROVE  DOMAIN WriteMem(n, ml, val, id) = MachineFields /\ WriteMem(n, ml, val, id).own = n.own
  BY <1>2 DEF WriteMem, MachineFields
<1>3. ASSUME NEW ml
      PROVE  DOMAIN ReadMem(m, t, ml) = MachineFields /\ ReadMem(m, t, ml).own = m.own
  BY DEF ReadMem, IsMachine, MachineFields
<1>4. DOMAIN m = MachineFields
  BY DEF IsMachine
<1>5. CASE i.op \in {"xstore", "load", "rmw", "cas"}
  <2>1. AtomicStore(m, t, i).own = m.own /\ Load(m, t, i).own = m.own
    BY <1>1, <1>2, <1>3, <1>4 DEF AtomicStore, Load
  <2>2. AtomicRMW(m, t, i).own = m.own
    BY <1>1, <1>2, <1>3, <1>4 DEF AtomicRMW
  <2>3. AtomicCmpXchg(m, t, i).own = m.own
    BY <1>1, <1>2, <1>3, <1>4 DEF AtomicCmpXchg
  <2> QED BY <1>5, <2>1, <2>2, <2>3 DEF Visit
<1>6. CASE i.op = "store"
  <2>1. Store(mm, m, t, i).own = m.own
    <3>1. CASE mm = "SC"
      BY <1>1, <1>2, <1>4, <3>1 DEF Store
    <3>2. CASE mm # "SC"
      BY <1>1, <1>4, <3>2 DEF Store, MachineFields
    <3> QED BY <3>1, <3>2
  <2> QED BY <1>6, <2>1 DEF Visit
<1>7. CASE i.op \in {"spawn", "extern", "malloc", "assume", "branch", "ret"}
  <2>1. Spawn(m, t, i).own = m.own /\ External(m, t).own = m.own /\ Malloc(m, t, alt).own = m.own
    BY <1>1, <1>4 DEF Spawn, External, Malloc, MachineFields
  <2>2. Assume(m, t, i).own = m.own /\ Branch(m, t, i).own = m.own /\ Return(m, t).own = m.own
    BY <1>1, <1>4 DEF Assume, Branch, Return, MachineFields
  <2> QED BY <1>7, <2>1, <2>2 DEF Visit
<1>8. CASE i.op \in {"calc", "switch", "ibr"}
  <2>1. Calculate(m, t, i).own = m.own
    BY <1>1, <1>4 DEF Calculate, MachineFields
  <2>2. Jump(m, t, i).own = m.own
    BY <1>4 DEF Jump, SwitchToNewBasicBlock, MachineFields
  <2> QED BY <1>8, <2>1, <2>2 DEF Visit
<1>9. CASE i.op \in {"minit", "mdestroy", "cdestroy"}
  <2>1. MutexInit(m, t, i).own = m.own /\ CondDestroy(m, t, i).own = m.own
    BY <1>1, <1>4 DEF MutexInit, CondDestroy, MachineFields
  <2> QED BY <1>9, <2>1 DEF Visit
<1>10. CASE i.op \in {"signal", "bcast"}
  <2>1. CondSignal(m, t, i, alt).own = m.own
    BY <1>1, <1>4 DEF CondSignal, MachineFields
  <2>2. CondBroadcast(m, t, i).own = m.own
    BY <1>1, <1>4 DEF CondBroadcast, MachineFields
  <2> QED BY <1>10, <2>1, <2>2 DEF Visit
<1>11. CASE i.op \notin {"spawn", "store", "xstore", "load", "rmw", "cas", "extern", "malloc",
                         "assume", "branch", "calc", "switch", "ibr", "minit", "mdestroy",
                         "signal", "bcast", "cdestroy", "ret"}
  <2>1. Visit(mm, m, t, i, alt) = Advance(m, t)
    BY <1>11 DEF Visit
  <2> QED BY <1>1, <1>4, <2>1
<1> QED BY <1>5, <1>6, <1>7, <1>8, <1>9, <1>10, <1>11

(* A held mutex that changes hands is locked, or released, by this            *)
(* instruction.                                                               *)
LEMMA VisitOwns ==
  ASSUME NEW m, IsMachine(m), NEW t \in DOMAIN m.thr, t # NoTid, NEW mm, NEW i, NEW alt,
         i.op \in {"lock", "trylock", "unlock", "wait"} => i.mutex \in DOMAIN m.own,
         NEW a \in DOMAIN m.own, m.own[a] # NoTid,
         Visit(mm, m, t, i, alt).own[a] # m.own[a]
  PROVE  \/ i.op = "lock" /\ i.mutex = a
         \/ i.op \in {"unlock", "wait"} /\ i.mutex = a /\ Visit(mm, m, t, i, alt).own[a] = NoTid
<1>1. DOMAIN m = MachineFields
  BY DEF IsMachine
<1>2. CASE i.op = "lock"
  <2>1. Lock(m, t, i).own = [m.own EXCEPT ![i.mutex] = t]
    BY <1>1 DEF Lock, Acquire, Advance, MachineFields
  <2>2. Visit(mm, m, t, i, alt) = Lock(m, t, i)
    BY <1>2 DEF Visit
  <2> QED BY <1>2, <2>1, <2>2
<1>3. CASE i.op = "trylock"
  <2>1. TryLock(m, t, i).own = [m.own EXCEPT ![i.mutex] = IF m.own[i.mutex] = NoTid THEN t ELSE @]
    BY <1>1 DEF TryLock, Advance, MachineFields
  <2>2. Visit(mm, m, t, i, alt) = TryLock(m, t, i)
    BY <1>3 DEF Visit
  <2> QED BY <1>3, <2>1, <2>2
<1>4. Release(m, t, i.mutex).own = [m.own EXCEPT ![i.mutex] = NoTid]
  BY <1>1 DEF Release, Advance, MachineFields
<1>5. CASE i.op = "unlock"
  <2>1. Visit(mm, m, t, i, alt) = Release(m, t, i.mutex)
    BY <1>5 DEF Visit, Unlock
  <2> QED BY <1>4, <1>5, <2>1
<1>6. CASE i.op = "wait"
  <2>1. DOMAIN Release(m, t, i.mutex) = MachineFields
    BY <1>1 DEF Release, Advance, MachineFields
  <2>2. CondWait(m, t, i).own = Release(m, t, i.mutex).own
    BY <2>1 DEF CondWait, MachineFields
  <2>3. Visit(mm, m, t, i, alt) = CondWait(m, t, i)
    BY <1>6 DEF Visit
  <2> QED BY <1>4, <1>6, <2>2, <2>3
<1>7. CASE i.op \notin {"lock", "trylock", "unlock", "wait"}
  BY <1>7, AccessOwns
<1> QED BY <1>2, <1>3, <1>5, <1>6, <1>7

(* The release is its owner's own, and the lock was not refused.              *)
LEMMA RunThreadOwns ==
  ASSUME Model \in {"SC", "TSO", "PSO"}, Inv, NEW t \in Threads, RunThread(t),
         NEW a \in DOMAIN mach.own, mach.own[a] # NoTid, mach'.own[a] # mach.own[a]
  PROVE  \/ mach.own[a] = t /\ mach'.own[a] = NoTid
         \/ LocksAfterWaiting(t)
<1> DEFINE i == Instruction(t)
           c == CondAwake(mach, t)
<1>1. /\ IsMachine(mach) /\ t \in DOMAIN mach.thr /\ t # NoTid
      /\ mach.thr[t].pendingLock \in DOMAIN mach.own \cup {NoTid}
      /\ Allowed(mach, t, i)
  BY DEF Inv, WellFormed, RunThread, Scheduled, Threads, NoTid
<1>2. ~MutexRefused(mach, t, i)
  BY DEF RunThread, IsRefused, Refused, PsoRefused
<1>3. PICK alt : mach' = Visit(Model, c, t, i, alt)
  BY PsoExecuteSame DEF RunThread, Ran, Execute
<1>4. Plain(mach, t, c)
  BY <1>1, CondAwakePlain
<1>5. c.own[a] = mach.own[a]
  <2>1. CASE mach.thr[t].pendingLock = NoTid
    BY <2>1 DEF CondAwake
  <2>2. CASE mach.thr[t].pendingLock # NoTid
    <3>1. mach.own[mach.thr[t].pendingLock] = NoTid
      BY <1>2, <2>2 DEF MutexRefused, NeedsMutex
    <3>2. c.own = [mach.own EXCEPT ![mach.thr[t].pendingLock] = t]
      BY <1>1, <2>2 DEF CondAwake, Acquire, IsMachine, MachineFields
    <3> QED BY <3>1, <3>2
  <2> QED BY <2>1, <2>2
<1>6. \/ i.op = "lock" /\ i.mutex = a
      \/ i.op \in {"unlock", "wait"} /\ i.mutex = a /\ mach'.own[a] = NoTid
  <2> HIDE DEF c, i
  <2>1. IsMachine(c) /\ t \in DOMAIN c.thr /\ a \in DOMAIN c.own
        /\ (i.op \in {"lock", "trylock", "unlock", "wait"} => i.mutex \in DOMAIN c.own)
    BY <1>1, <1>4 DEF Plain, Allowed
  <2> QED BY <1>1, <1>3, <1>5, <2>1, VisitOwns
<1>7. CASE i.op = "lock" /\ i.mutex = a
  BY <1>2, <1>7 DEF MutexRefused, NeedsMutex, LocksAfterWaiting
<1>8. CASE i.op \in {"unlock", "wait"} /\ i.mutex = a /\ mach'.own[a] = NoTid
  BY <1>1, <1>5, <1>8 DEF Allowed
<1> QED BY <1>6, <1>7, <1>8

(* Under SC, TSO and PSO mutual exclusion holds for every program, with that  *)
(* one exception. It is about checkRefuse, callPthreadMutexLock, TryLock and  *)
(* Unlock, callPthreadCondWait and doPthreadCondAwake.                        *)
THEOREM MutexesAreHeld ==
  ASSUME Model \in {"SC", "TSO", "PSO"}
  PROVE  Spec => HeldUntilReleased
<1> DEFINE Kept == \A a \in DOMAIN mach.own : mach.own[a] # NoTid /\ mach'.own[a] # mach.own[a] =>
                     \E t \in Threads :
                       /\ RunThread(t)
                       /\ \/ mach.own[a] = t /\ mach'.own[a] = NoTid
                          \/ LocksAfterWaiting(t)
<1>1. Inv /\ [Next]_<<mach, avail>> => [Kept]_<<mach, avail>>
  <2> SUFFICES ASSUME Inv, Next, NEW a \in DOMAIN mach.own,
                      mach.own[a] # NoTid, mach'.own[a] # mach.own[a]
               PROVE  \E t \in Threads :
                        /\ RunThread(t)
                        /\ \/ mach.own[a] = t /\ mach'.own[a] = NoTid
                           \/ LocksAfterWaiting(t)
    OBVIOUS
  <2>1. PICK t \in Threads : RefuseThread(t) \/ RunThread(t) \/ FlushThread(t)
    BY DEF Next
  <2>2. CASE RefuseThread(t)
    <3>1. NotesKept(mach, t, mach')
      BY <2>2, RefusalNotes DEF Inv, RefuseThread, Scheduled, Threads
    <3> QED BY <3>1 DEF NotesKept
  <2>3. CASE RunThread(t)
    BY <2>3, RunThreadOwns
  <2>4. CASE FlushThread(t)
    <3>1. PICK rest : FlushGives(mach, t, mach', rest)
      BY <2>4, FlushThreadEffect
    <3> QED BY <3>1 DEF FlushGives, Flushed
  <2> QED BY <2>1, <2>2, <2>3, <2>4
<1>2. Spec => []Inv
  BY AlwaysInv
<1> QED BY <1>1, <1>2, PTL DEF Spec, HeldUntilReleased

(* ------------------------------ instructions ----------------------------- *)

(* Floats, as LLVMInstructions has them.                                      *)
Float == [nan : BOOLEAN, val : Int]

(* How two floats compare: one of four outcomes.                              *)
Comparison(a, b) ==
  IF a.nan \/ b.nan THEN "unordered"
  ELSE IF a.val = b.val THEN "equal"
  ELSE IF a.val > b.val THEN "greater" ELSE "less"

(* The predicates: the ordered and the unordered ones.                        *)
OrderedPredicates == {"oeq", "one", "ole", "oge", "olt", "ogt"}
UnorderedPredicates == {"ueq", "une", "ule", "uge", "ult", "ugt"}

(* The outcomes a predicate accepts, by the four bits of its encoding in      *)
(* LLVM: unordered, less, greater, equal.                                     *)
Accepted(pred) ==
  CASE pred = "false" -> {}
    [] pred = "true" -> {"unordered", "equal", "greater", "less"}
    [] pred = "ord" -> {"equal", "greater", "less"}
    [] pred = "uno" -> {"unordered"}
    [] pred = "oeq" -> {"equal"}
    [] pred = "one" -> {"greater", "less"}
    [] pred = "ole" -> {"equal", "less"}
    [] pred = "oge" -> {"equal", "greater"}
    [] pred = "olt" -> {"less"}
    [] pred = "ogt" -> {"greater"}
    [] pred = "ueq" -> {"unordered", "equal"}
    [] pred = "une" -> {"unordered", "greater", "less"}
    [] pred = "ule" -> {"unordered", "equal", "less"}
    [] pred = "uge" -> {"unordered", "equal", "greater"}
    [] pred = "ult" -> {"unordered", "less"}
    [] pred = "ugt" -> {"unordered", "greater"}

(* All sixteen.                                                               *)
FCmpPredicates == {"false", "true", "ord", "uno"} \cup OrderedPredicates \cup UnorderedPredicates

(* What FEq, FLess and IsNaN, the comparisons of C++, say of the four         *)
(* outcomes.                                                                  *)
LEMMA FloatsCompare ==
  ASSUME NEW a \in Float, NEW b \in Float
  PROVE  /\ Comparison(a, b) \in {"unordered", "equal", "greater", "less"}
         /\ AnyNaN(a, b) <=> Comparison(a, b) = "unordered"
         /\ FEq(a, b) <=> Comparison(a, b) = "equal"
         /\ FLess(a, b) <=> Comparison(a, b) = "less"
         /\ FLess(b, a) <=> Comparison(a, b) = "greater"
<1>1. a.nan \in BOOLEAN /\ b.nan \in BOOLEAN /\ a.val \in Int /\ b.val \in Int
  BY DEF Float
<1>2. CASE a.nan = TRUE \/ b.nan = TRUE
  <2>1. Comparison(a, b) = "unordered"
    BY <1>2 DEF Comparison
  <2> QED BY <1>2, <2>1 DEF AnyNaN, IsNaN, FEq, FLess
<1>3. CASE a.nan = FALSE /\ b.nan = FALSE
  <2>0. ~AnyNaN(a, b)
    BY <1>3 DEF AnyNaN, IsNaN, FEq
  <2>1. CASE a.val = b.val
    <3>1. Comparison(a, b) = "equal"
      BY <1>3, <2>1 DEF Comparison
    <3> QED BY <1>1, <1>3, <2>0, <2>1, <3>1 DEF FEq, FLess
  <2>2. CASE a.val < b.val
    <3>1. Comparison(a, b) = "less"
      BY <1>1, <1>3, <2>2 DEF Comparison
    <3> QED BY <1>1, <1>3, <2>0, <2>2, <3>1 DEF FEq, FLess
  <2>3. CASE a.val > b.val
    <3>1. Comparison(a, b) = "greater"
      BY <1>1, <1>3, <2>3 DEF Comparison
    <3> QED BY <1>1, <1>3, <2>0, <2>3, <3>1 DEF FEq, FLess
  <2> QED BY <1>1, <2>1, <2>2, <2>3
<1> QED BY <1>1, <1>2, <1>3

(* executeFCMP_OEQ .. OGT.                                                    *)
LEMMA OrderedExact ==
  ASSUME NEW a \in Float, NEW b \in Float, NEW pred \in OrderedPredicates
  PROVE  OrderedHolds(pred, a, b) <=> Comparison(a, b) \in Accepted(pred)
<1> DEFINE c == Comparison(a, b)
<1>1. /\ c \in {"unordered", "equal", "greater", "less"}
      /\ AnyNaN(a, b) <=> c = "unordered"
      /\ FEq(a, b) <=> c = "equal"
      /\ FLess(a, b) <=> c = "less"
      /\ FLess(b, a) <=> c = "greater"
  BY FloatsCompare
<1> HIDE DEF c
<1>2. CASE pred = "oeq"
  BY <1>1, <1>2 DEF OrderedHolds, Accepted, c
<1>3. CASE pred = "one"
  BY <1>1, <1>3 DEF OrderedHolds, Accepted, c
<1>4. CASE pred = "ole"
  <2>1. OrderedHolds(pred, a, b) <=> FLess(a, b) \/ FEq(a, b)
    BY <1>4 DEF OrderedHolds
  <2> QED BY <1>1, <1>4, <2>1 DEF Accepted, c
<1>5. CASE pred = "oge"
  <2>1. OrderedHolds(pred, a, b) <=> FLess(b, a) \/ FEq(a, b)
    BY <1>5 DEF OrderedHolds
  <2> QED BY <1>1, <1>5, <2>1 DEF Accepted, c
<1>6. CASE pred = "olt"
  <2>1. OrderedHolds(pred, a, b) <=> FLess(a, b)
    BY <1>6 DEF OrderedHolds
  <2> QED BY <1>1, <1>6, <2>1 DEF Accepted, c
<1>7. CASE pred = "ogt"
  <2>1. OrderedHolds(pred, a, b) <=> FLess(b, a)
    BY <1>7 DEF OrderedHolds
  <2> QED BY <1>1, <1>7, <2>1 DEF Accepted, c
<1> QED BY <1>2, <1>3, <1>4, <1>5, <1>6, <1>7 DEF OrderedPredicates

(* A number equals itself; NaN does not.                                      *)
LEMMA SelfEqual ==
  ASSUME NEW a \in Float, NEW b \in Float
  PROVE  (FEq(a, a) /\ FEq(b, b)) <=> ~AnyNaN(a, b)
BY DEF AnyNaN, IsNaN

(* visitFCmpInst answers every predicate as LLVM defines it, with NaN as with *)
(* numbers. The code negates and combines C++ comparisons, of which only !=   *)
(* holds of NaN, so that one missing NaN check (executeFCMP_ONE, the          *)
(* executeFCMP_U..) would give a wrong branch.                                *)
THEOREM FCmpExact ==
  ASSUME NEW a \in Float, NEW b \in Float, NEW pred \in FCmpPredicates
  PROVE  FCmpHolds(pred, a, b) <=> Comparison(a, b) \in Accepted(pred)
<1> DEFINE c == Comparison(a, b)
<1>1. /\ c \in {"unordered", "equal", "greater", "less"}
      /\ AnyNaN(a, b) <=> c = "unordered"
  BY FloatsCompare
<1> HIDE DEF c
<1>2. CASE pred = "false"
  <2>1. FCmpHolds(pred, a, b) <=> FALSE
    <3>1. pred \notin {"true", "ord", "uno"} /\ pred \notin DOMAIN OrderedOf
      BY <1>2 DEF OrderedOf
    <3> QED BY <1>2, <3>1 DEF FCmpHolds
  <2>2. c \in Accepted(pred) <=> FALSE
    BY <1>1, <1>2 DEF Accepted
  <2> QED BY <1>1, <2>1, <2>2, SelfEqual DEF c
<1>3. CASE pred = "true"
  <2>1. FCmpHolds(pred, a, b) <=> TRUE
    <3>1. pred \notin {"false", "ord", "uno"} /\ pred \notin DOMAIN OrderedOf
      BY <1>3 DEF OrderedOf
    <3> QED BY <1>3, <3>1 DEF FCmpHolds
  <2>2. c \in Accepted(pred) <=> TRUE
    BY <1>1, <1>3 DEF Accepted
  <2> QED BY <1>1, <2>1, <2>2, SelfEqual DEF c
<1>4. CASE pred = "ord"
  <2>1. FCmpHolds(pred, a, b) <=> FEq(a, a) /\ FEq(b, b)
    <3>1. pred \notin {"false", "true", "uno"} /\ pred \notin DOMAIN OrderedOf
      BY <1>4 DEF OrderedOf
    <3> QED BY <1>4, <3>1 DEF FCmpHolds
  <2>2. c \in Accepted(pred) <=> c # "unordered"
    BY <1>1, <1>4 DEF Accepted
  <2> QED BY <1>1, <2>1, <2>2, SelfEqual DEF c
<1>5. CASE pred = "uno"
  <2>1. FCmpHolds(pred, a, b) <=> ~FEq(a, a) \/ ~FEq(b, b)
    <3>1. pred \notin {"false", "true", "ord"} /\ pred \notin DOMAIN OrderedOf
      BY <1>5 DEF OrderedOf
    <3> QED BY <1>5, <3>1 DEF FCmpHolds
  <2>2. c \in Accepted(pred) <=> c = "unordered"
    BY <1>1, <1>5 DEF Accepted
  <2> QED BY <1>1, <2>1, <2>2, SelfEqual DEF c
<1>6. CASE pred \in OrderedPredicates
  <2>1. FCmpHolds(pred, a, b) <=> OrderedHolds(pred, a, b)
    <3>1. pred \notin {"false", "true", "ord", "uno"} /\ pred \notin DOMAIN OrderedOf
      BY <1>6 DEF OrderedPredicates, OrderedOf
    <3> QED BY <3>1 DEF FCmpHolds
  <2> QED BY <1>6, <2>1, OrderedExact
<1>7. CASE pred \in UnorderedPredicates
  <2>1. FCmpHolds(pred, a, b) <=> UnorderedHolds(pred, a, b)
    <3>1. pred \notin {"false", "true", "ord", "uno"} /\ pred \in DOMAIN OrderedOf
      BY <1>7 DEF UnorderedPredicates, OrderedOf
    <3> QED BY <3>1 DEF FCmpHolds
  <2>2. OrderedOf[pred] \in OrderedPredicates
    BY <1>7 DEF OrderedOf, OrderedPredicates, UnorderedPredicates
  <2>3. Accepted(pred) = {"unordered"} \cup Accepted(OrderedOf[pred])
    BY <1>7 DEF Accepted, OrderedOf, UnorderedPredicates
  <2>4. UnorderedHolds(pred, a, b) <=>
          AnyNaN(a, b) \/ Comparison(a, b) \in Accepted(OrderedOf[pred])
    BY <2>2, OrderedExact DEF UnorderedHolds
  <2> QED BY <1>1, <2>1, <2>3, <2>4 DEF c
<1> QED BY <1>2, <1>3, <1>4, <1>5, <1>6, <1>7 DEF FCmpPredicates

(* getShiftAmount shifts by less than the width of the value, whatever amount *)
(* the program asks for: the mask it takes for amounts that are too large      *)
(* belongs to the next power of two above width - 1, which is the width itself *)
(* for the widths of C's integers. (With 24 bits the mask is 31, and a shift   *)
(* by 25 stays one by 25.)                                                     *)
THEOREM ShiftsStayInside ==
  ASSUME NEW w \in PowersOfTwo, NEW n \in Nat
  PROVE  getShiftAmount(n, w) \in 0 .. w - 1
<1>0. PowersOfTwo \subseteq Nat \ {0}
  BY DEF PowersOfTwo
<1>1. NextPowerOf2(w - 1) = w
  <2> DEFINE Least(p) == p > w - 1 /\ \A q \in PowersOfTwo : q > w - 1 => p <= q
  <2>1. Least(w)
    BY <1>0
  <2>2. \A p \in PowersOfTwo : Least(p) => p = w
    BY <1>0
  <2> QED BY <2>1, <2>2 DEF NextPowerOf2
<1> QED BY <1>0, <1>1 DEF getShiftAmount
===============================================================================
