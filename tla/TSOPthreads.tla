------------------------------ MODULE TSOPthreads -----------------------------
(* The registration methods of src/src/TSOTraceBuilder.cpp for threads,       *)
(* mutexes, condition variables and nondeterministic choices.                 *)
EXTENDS TSORegistration

(* fence(): under SC and TSO alike, after the thread's last update.           *)
RegFence(b) ==
  IF b.dryrun THEN b ELSE HappensAfterThread(b, CurPid(b) + 1)

(* spawn(), with the fence of callPthreadCreate before it.                    *)
RegSpawn(b, t) ==
  LET c == MayConflict(RegFence(b))
  IN  Record([c EXCEPT !.thr = @ @@ (2 * t :> NewBuilderThread(b.idx, TRUE))
                                 @@ (2 * t + 1 :> NewBuilderThread(b.idx, FALSE))],
             SymThread("SPAWN", t))

\* Faulty variant of RegJoin: only after what the thread's buffer did.
RegJoinBuffer(b, t) ==
  LET c == Record(RegFence(b), SymThread("JOIN", t))
  IN  IF b.dryrun THEN c ELSE HappensAfterThread(MayConflict(c), 2 * t + 1)

(* join(), with the fence of callPthreadJoin before it: after all the thread  *)
(* and its buffer did.                                                        *)
RegJoin(b, t) ==
  LET c == Record(RegFence(b), SymThread("JOIN", t))
  IN  IF b.dryrun THEN c
      ELSE HappensAfterThread(HappensAfterThread(MayConflict(c), 2 * t), 2 * t + 1)

(* What the mutex and condition variable methods share: record the operation; *)
(* when not dry-run, fence and wake those with a pending access to the object.*)
Touch(b, kind, a) ==
  LET r == Record(b, SymObject(kind, a))
  IN  IF b.dryrun THEN DryWrites(r, {a})
      ELSE WakeByWrites(MayConflict(RegFence(r)), {a})

(* mutex_lock: races with the lock it follows, across the unlock in between.  *)
RegLock(b, a) ==
  LET c == Touch(b, "M_LOCK", a)
      m == b.mtx[a]
      d == IF m.lock = 0 THEN See(c, {m.access, c.full})
           ELSE See(AddRace(c, Race("LOCK_SUC", m.lock, c.idx, 0, 0, m.access)),
                    {c.full})
  IN  IF b.dryrun THEN c
      ELSE [d EXCEPT !.mtx[a] = [access |-> c.idx, lock |-> c.idx, locked |-> TRUE]]

(* mutex_lock_fail: the attempt has no event; remember whom it was up against.*)
RegLockFail(b, a) ==
  LET r(k) == Race("LOCK_FAIL", k, b.idx, CurPid(b), CurEv(b).index, 0)
  IN  [b EXCEPT !.fails = @ \o <<r(b.mtx[a].lock)>>
                            \o (IF b.full # 0 THEN <<r(b.full)>> ELSE <<>>)]

RegTryLock(b, a) ==
  LET c == Touch(b, "M_LOCK", a)
      m == b.mtx[a]
  IN  IF b.dryrun THEN c
      ELSE [See(c, {m.access, c.full}) EXCEPT
              !.mtx[a] = [access |-> c.idx, locked |-> TRUE,
                          lock |-> IF m.locked THEN m.lock ELSE c.idx]]

RegUnlock(b, a) ==
  LET c == Touch(b, "M_UNLOCK", a)
  IN  IF b.dryrun THEN c
      ELSE [See(c, {b.mtx[a].access, c.full}) EXCEPT
              !.mtx[a].access = c.idx, !.mtx[a].locked = FALSE]

(* mutex_init wakes nobody.                                                   *)
RegMutexInit(b, a) ==
  LET r == Record(b, SymObject("M_INIT", a))
  IN  IF b.dryrun THEN DryWrites(r, {a})
      ELSE [See(MayConflict(RegFence(r)), {b.mtx[a].access, b.full}) EXCEPT
              !.mtx[a].access = b.idx]

RegMutexDestroy(b, a) ==
  LET c == Touch(b, "M_DELETE", a)
  IN  IF b.dryrun THEN c
      ELSE [See(c, {b.mtx[a].access, c.full}) EXCEPT !.mtx[a] = NoMutex]

(* --------------------------- condition variables -------------------------- *)

(* cond_init wakes nobody.                                                    *)
RegCondInit(b, a) ==
  LET r == Record(b, SymObject("C_INIT", a))
  IN  IF b.dryrun THEN DryWrites(r, {a})
      ELSE [See(MayConflict(RegFence(r)), {b.full}) EXCEPT
              !.cnd[a] = [known |-> TRUE, signal |-> b.idx, waiters |-> <<>>]]

(* register_alternatives: the event can be repeated with every other choice.  *)
RegAlternatives(b, n) ==
  LET r == Record(MayConflict(b), SymNondet(n))
  IN  IF CurEv(b).alt # 0 THEN r
      ELSE FoldLeft(LAMBDA s, k : AddRace(s, Race("NONDET", b.idx, 0, 0, 0, k)),
                    r, [k \in 1..(n - 1) |-> k])

WakeWaiter(b, k) ==
  [b EXCEPT !.thr[b.prefix[k].pid].available = TRUE]

\* Faulty variant of RegSignal: the first waiter is woken, always.
RegSignalFirst(b, a) ==
  LET c  == Touch(b, "C_SIGNAL", a)
      ws == b.cnd[a].waiters
  IN  IF b.dryrun THEN c
      ELSE IF ws = <<>>
      THEN See([c EXCEPT !.cnd[a].signal = b.idx], {b.full})
      ELSE See([WakeWaiter(c, ws[1]) EXCEPT
                  !.cnd[a].waiters = Tail(@), !.cnd[a].signal = b.idx],
               {b.full, ws[1]})

(* cond_signal: the branch's alternative picks the waiter.                    *)
RegSignal(b, a) ==
  LET c  == Touch(b, "C_SIGNAL", a)
      ws == b.cnd[a].waiters
      d  == IF Len(ws) > 1 THEN RegAlternatives(c, Len(ws)) ELSE c
      n  == CurEv(b).alt + 1
      e  == Assert1(d, "signal picks a waiter", ws = <<>> \/ n <= Len(ws))
  IN  IF b.dryrun THEN c
      ELSE IF n > Len(ws)
      THEN See([e EXCEPT !.cnd[a].signal = b.idx], {b.full})
      ELSE See([WakeWaiter(e, ws[n]) EXCEPT
                  !.cnd[a].waiters = RemoveAt(@, n), !.cnd[a].signal = b.idx],
               {b.full, ws[n]})

RegBroadcast(b, a) ==
  LET c  == Touch(b, "C_BRDCST", a)
      ws == b.cnd[a].waiters
  IN  IF b.dryrun THEN c
      ELSE See([FoldLeft(WakeWaiter, c, ws) EXCEPT
                  !.cnd[a].waiters = <<>>, !.cnd[a].signal = b.idx],
               {b.full} \cup ToSet(ws))

(* cond_wait: unlock the mutex, then wait; waiting reads the condition        *)
(* variable.                                                                  *)
RegWait(b, a, mutex) ==
  LET u == RegUnlock(b, mutex)
      r == Record(u, SymObject("C_WAIT", a))
      c == MayConflict(RegFence(r))
      d == WakeByRead(c, a)
  IN  IF b.dryrun THEN DryReads(r, {a})
      ELSE See([d EXCEPT !.cnd[a].waiters = Append(@, b.idx),
                         !.thr[CurPid(b)].available = FALSE],
               {b.full, b.cnd[a].signal})

(* cond_awake: after the signal, take the mutex back.                         *)
RegAwake(b, a, mutex) ==
  LET h == IF b.dryrun THEN b ELSE HappensAfter(b, b.cnd[a].signal)
      c == Record(RegLock(h, mutex), SymObject("C_AWAKE", a))
  IN  IF b.dryrun THEN c ELSE MayConflict(c)

RegCondDestroy(b, a) ==
  LET c == Touch(b, "C_DELETE", a)
  IN  IF b.dryrun THEN c
      ELSE [See(c, {b.cnd[a].signal, b.full} \cup ToSet(b.cnd[a].waiters))
              EXCEPT !.cnd[a] = NoCond]

(* -------------------------- one whole instruction ------------------------- *)

(* What the interpreter registers while it executes instruction i of a thread *)
(* in machine m.                                                              *)
RegVisit(mm, m, b, i) ==
  CASE i.op = "store" /\ mm = "SC"  -> RegAtomicStore(b, i.ml, i.val)
    [] i.op = "store" /\ mm = "TSO" -> RegStore(b, i.ml)
    [] i.op = "xstore"  -> RegAtomicStore(b, i.ml, i.val)
    [] i.op = "load"    -> RegLoad(b, i.ml)
    [] i.op = "rmw"     -> RegAtomicRMW(b, i.ml, NewVal(m, i))
    [] i.op = "cas"     -> RegCompareExchange(b, i.ml, i.val, i.exp,
                                              CasSucceeds(m, i))
    [] i.op = "extern"  -> RegFullMemoryConflict(RegFence(b))
    [] i.op = "fence"   -> RegFence(b)
    [] i.op = "spawn"   -> RegSpawn(b, i.to)
    [] i.op = "join"    -> RegJoin(b, i.to)
    [] i.op = "lock"    -> RegLock(b, i.mutex)
    [] i.op = "trylock" -> RegTryLock(b, i.mutex)
    [] i.op = "unlock"  -> RegUnlock(b, i.mutex)
    [] i.op = "minit"   -> RegMutexInit(b, i.mutex)
    [] i.op = "mdestroy" -> RegMutexDestroy(b, i.mutex)
    [] i.op = "cdestroy" -> RegCondDestroy(b, i.cond)
    [] i.op = "cinit"   -> RegCondInit(b, i.cond)
    [] i.op = "signal"  -> RegSignal(b, i.cond)
    [] i.op = "bcast"   -> RegBroadcast(b, i.cond)
    [] i.op = "wait"    -> RegWait(b, i.cond, i.mutex)
    [] i.op = "malloc"  -> RegAlternatives(b, 2)
    [] OTHER            -> b                    \* assume, branch, local, ret

(* A thread woken from pthread_cond_wait takes its mutex back in the event of *)
(* its next instruction.                                                      *)
RegExecute(mm, m, b, t, i) ==
  LET th == m.thr[t]
  IN  RegVisit(mm, m,
               IF th.pendingLock = NoTid THEN b
               ELSE RegAwake(b, th.pendingCond, th.pendingLock), i)
===============================================================================
