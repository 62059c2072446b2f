---------------------------- MODULE PSORegistration ---------------------------
(* The registration methods of src/src/PSOTraceBuilder.cpp.  Unlike the       *)
(* builder for TSO this one keeps the vector clocks of the events while they  *)
(* happen, and plans a branch for a race as soon as it is seen.  The state b  *)
(* of the builder is a record like that of TSORegistration, with              *)
(*   thr  - per thread identifier, given out in the order of creation: the    *)
(*          machine's thread it belongs to (`proc`); for an auxiliary thread  *)
(*          the byte its stores begin with (`byte`) and its real thread       *)
(*          (`parent`); for a real one its pending stores (`buf`), its        *)
(*          auxiliary threads and the join of their clocks                    *)
(*   real - the identifier of each thread of the machine (proc_to_ipid)       *)
(* and no wakeup tree.  Events have their clock, and the set of their         *)
(* branches <<thread, alternative>>.                                          *)
EXTENDS TSOAnalysis, PSOMachine

NoAddr == -1        \* `byte` of a real thread

(* ------------------------------ vector clocks ----------------------------- *)

(* A clock maps the threads it has seen something of to numbers of steps.     *)
Time(c, p) == IF p \in DOMAIN c THEN c[p] ELSE 0
SeenBy(c, d) == \A p \in DOMAIN c : c[p] <= Time(d, p)
Join2(c, d) ==
  [p \in DOMAIN c \cup DOMAIN d |-> Max({Time(c, p), Time(d, p)})]
Joined(cs) == FoldSet(Join2, <<>>, cs)

ClockOf(b, k) == b.prefix[k].clock
CurClock(b) == CurEv(b).clock

(* The current event and its thread come after c.                             *)
Learn(b, c) ==
  [b EXCEPT !.prefix[b.idx].clock = Join2(@, c),
            !.thr[CurPid(b)].clock = Join2(@, c)]

NewPsoThread(proc, byte, parent, clock) ==
  [proc |-> proc, byte |-> byte, parent |-> parent, clock |-> clock,
   available |-> TRUE, buf |-> <<>>, aux |-> {}, auxClock |-> <<>>,
   sleeping |-> FALSE, accR |-> {}, accW |-> {}, accAll |-> FALSE]

IsAuxiliary(b, p) == b.thr[p].byte # NoAddr
RealThread(b, p) == IF IsAuxiliary(b, p) THEN b.thr[p].parent ELSE p

(* -------------------------- races and branches ---------------------------- *)

\* Faulty variant of SleepSetAt: those who woke in between stay in the set.
SleepSetOnce(b, i) == UNION {ToSet(b.prefix[k].sleep) : k \in 1..i}

(* sleep_set_at: who sleeps when event i begins.                              *)
SleepSetAt(b, i) ==
  FoldLeft(LAMBDA s, k : (s \cup ToSet(b.prefix[k].sleep)) \ b.prefix[k].wakeup,
           {}, [k \in 1..(i - 1) |-> k])
  \cup ToSet(b.prefix[i].sleep)

(* The events that can come first when j is to happen before i: each thread's *)
(* first event after i, up to j, unless it comes after i or after another of  *)
(* them.                                                                      *)
FirstEvents(b, i, j) ==
  LET Step(acc, k) ==
        LET e == b.prefix[k]
        IN  IF \/ \E c \in ToSet(acc) : c.pid = e.pid \/ c.index <= Time(e.clock, c.pid)
               \/ k # j /\ SeenBy(ClockOf(b, i), e.clock)
            THEN acc ELSE Append(acc, [pid |-> e.pid, index |-> e.index])
  IN  FoldLeft(Step, <<>>, [n \in 1..(j - i) |-> i + n])

(* add_branch: unless one of them is planned at i already, or asleep there,   *)
(* plan the last.                                                             *)
AddBranch(b, i, j) ==
  LET first == FirstEvents(b, i, j)
  IN  IF \E c \in ToSet(first) : \/ <<c.pid, 0>> \in b.prefix[i].branch
                                 \/ c.pid \in SleepSetAt(b, i)
      THEN b
      ELSE [b EXCEPT !.prefix[i].branch = @ \cup {<<Last(first).pid, 0>>}]

(* see_events: the current event comes after those of ks; with those that no  *)
(* other of them, nor what is known already, comes after, it is in a race.    *)
SeeEvents(b, ks) ==
  LET seen  == ks \ {0}
      races == {i \in seen : /\ ~SeenBy(ClockOf(b, i), CurClock(b))
                             /\ ~\E j \in seen \ {i} :
                                   SeenBy(ClockOf(b, i), ClockOf(b, j))}
  IN  FoldLeft(LAMBDA s, i : AddBranch(s, i, b.idx),
               Learn(b, Joined({ClockOf(b, k) : k \in seen})), Ascending(races))

(* A race with event i alone, which is not ordered by itself.                 *)
RaceWith(b, i) ==
  IF i = 0 \/ SeenBy(ClockOf(b, i), CurClock(b)) THEN b ELSE AddBranch(b, i, b.idx)

(* ---------------------------- waking sleepers ----------------------------- *)

Sleepers(b) == {p \in DOMAIN b.thr : b.thr[p].sleeping}
OtherProc(b, p) == b.thr[p].proc # b.thr[CurPid(b)].proc
PendingOn(b, p, x) == BufferOf(b.thr[p].buf, x) # {}

(* wakeup: the threads whose next step, as the dry run showed it, conflicts   *)
(* with an access to byte x, or with one to all memory.                       *)
PsoWokenByRead(b, x) ==
  {p \in Sleepers(b) : \/ b.thr[p].accAll
                       \/ OtherProc(b, p) /\ x \in b.thr[p].accW}
PsoWokenByWrite(b, x) ==
  {p \in Sleepers(b) :
     \/ b.thr[p].accAll
     \/ /\ OtherProc(b, p)
        /\ x \in b.thr[p].accW \/ (x \in b.thr[p].accR /\ ~PendingOn(b, p, x))}
PsoWokenByAll(b) ==
  {p \in Sleepers(b) : \/ b.thr[p].accAll \/ b.thr[p].accW # {}
                       \/ \E x \in b.thr[p].accR : ~PendingOn(b, p, x)}

PsoWake(b, ps) ==
  [b EXCEPT !.prefix[b.idx].wakeup = @ \cup ps,
            !.thr = [p \in DOMAIN @ |->
               IF p \in ps
               THEN [@[p] EXCEPT !.sleeping = FALSE, !.accR = {}, !.accW = {},
                                 !.accAll = FALSE]
               ELSE @[p]]]

PsoWakeByReads(b, xs)  ==
  FoldLeft(LAMBDA s, x : PsoWake(s, PsoWokenByRead(s, x)), b, Ascending(xs))
PsoWakeByWrites(b, xs) ==
  FoldLeft(LAMBDA s, x : PsoWake(s, PsoWokenByWrite(s, x)), b, Ascending(xs))

(* ------------------------------ memory access ----------------------------- *)

AuxOf(b, q, x) == {p \in b.thr[q].aux : b.thr[p].byte = x}

(* store(): the first store to an address creates the auxiliary thread that   *)
(* will flush it; any store makes it available.                               *)
PsoRegStore(b, ml) ==
  LET q    == CurPid(b)
      th   == b.thr[q]
      new  == Cardinality(DOMAIN b.thr)
      c    == [b EXCEPT !.thr[q].buf = Append(@, [ml |-> ml, clock |-> th.clock,
                                                  lastRowe |-> 0])]
  IN  IF b.dryrun THEN b
      ELSE IF AuxOf(b, q, ml.addr) = {}
      THEN [c EXCEPT !.thr = [@ EXCEPT ![q].aux = @ \cup {new}]
                             @@ (new :> NewPsoThread(th.proc, ml.addr, q, th.clock))]
      ELSE [c EXCEPT !.thr = [p \in DOMAIN @ |->
                 IF p \in AuxOf(b, q, ml.addr)
                 THEN [@[p] EXCEPT !.available = TRUE] ELSE @[p]]]

(* Where an atomic store comes from: an update follows its store, an atomic   *)
(* store of a real thread all that thread's updates.                          *)
OrderOrigin(b, q, front) ==
  IF IsAuxiliary(b, CurPid(b))
  THEN [Learn(b, front.clock) EXCEPT
          !.prefix[b.idx].origin = [pid |-> q, index |-> front.clock[q]]]
  ELSE Learn(b, Joined({b.thr[p].clock : p \in b.thr[q].aux}))

UpdateOf(b, x) == b.bytes[x].update
UpdatedBy(b, x) ==
  IF UpdateOf(b, x) = 0 THEN NoTid ELSE RealThread(b, b.prefix[UpdateOf(b, x)].pid)

(* What an update of ml by real thread q sees: other threads' last updates    *)
(* and reads of the bytes.  It is ordered after its own without a race.       *)
SeenUpdating(b, ml, q) ==
  {UpdateOf(b, x) : x \in {y \in Bytes(ml) : UpdatedBy(b, y) # q}}
  \cup {k \in UNION {Reads(b.bytes[x]) : x \in Bytes(ml)} :
          k # 0 /\ b.prefix[k].pid # q}
OwnUpdates(b, ml, q) ==
  {ClockOf(b, UpdateOf(b, x)) : x \in {y \in Bytes(ml) : UpdatedBy(b, y) = q}}

(* The update becomes the last one; a load that forwarded from the buffer     *)
(* counts as a read of it.                                                    *)
Updated(b, ml, q, rowe) ==
  LET new(byte) == [byte EXCEPT !.update = b.idx, !.updateMl = ml]
  IN  [b EXCEPT !.bytes = [x \in DOMAIN @ |->
         IF x \notin Bytes(ml) THEN @[x]
         ELSE IF rowe > 0 THEN SetRead(new(@[x]), b.thr[q].proc, rowe)
         ELSE new(@[x])]]

(* The update leaves the store buffer.  Its auxiliary thread is made          *)
(* unavailable as soon as one of the bytes' buffers is empty.                 *)
Popped(b, q, k) ==
  LET ml   == b.thr[q].buf[k].ml
      rest == RemoveAt(b.thr[q].buf, k)
  IN  [b EXCEPT !.thr[q].buf = rest,
                !.thr[q].auxClock = Join2(@, CurClock(b)),
                !.thr[CurPid(b)].available =
                   @ /\ \A x \in Bytes(ml) : BufferOf(rest, x) # {}]

(* The pending store auxiliary thread p of q flushes.                         *)
FrontOf(b, q, p) == Min(BufferOf(b.thr[q].buf, b.thr[p].byte))

PsoRegAtomicStore(b, ml) ==
  LET u   == CurPid(b)
      q   == RealThread(b, u)
      aux == IsAuxiliary(b, u)
      k   == FrontOf(b, q, u)
      o   == OrderOrigin(MayConflict(b), q,
                         IF aux THEN b.thr[q].buf[k] ELSE [clock |-> <<>>])
      c   == SeeEvents(Learn(o, Joined(OwnUpdates(b, ml, q))),
                       SeenUpdating(b, ml, q) \cup {b.full})
      w   == PsoWakeByWrites(
               Updated(c, ml, q, IF aux THEN b.thr[q].buf[k].lastRowe ELSE 0),
               Bytes(ml))
  IN  IF b.dryrun THEN DryWrites(b, Bytes(ml))
      ELSE IF aux THEN Popped(w, q, k) ELSE w

(* After an own update that covered other bytes than the load, the load had   *)
(* to wait for it; other threads' updates are seen.                           *)
LoadMemory(b, ml) ==
  LET q == CurPid(b)
      waited == {x \in Bytes(ml) : UpdatedBy(b, x) = q /\ b.bytes[x].updateMl # ml}
      c == SeeEvents(Learn(b, Joined({ClockOf(b, UpdateOf(b, x)) : x \in waited})),
                     {UpdateOf(b, x) : x \in {y \in Bytes(ml) : UpdatedBy(b, y) # q}}
                     \cup {b.full})
  IN  PsoWakeByReads([c EXCEPT !.bytes = [x \in DOMAIN @ |->
                        IF x \in Bytes(ml) THEN SetRead(@[x], b.thr[q].proc, b.idx)
                        ELSE @[x]]],
                     Bytes(ml))

PsoRegLoad(b, ml) ==
  LET pending == BufferOf(b.thr[CurPid(b)].buf, ml.addr)
  IN  IF b.dryrun THEN DryReads(b, Bytes(ml))
      ELSE IF pending # {}
      THEN [MayConflict(b) EXCEPT !.thr[CurPid(b)].buf[Max(pending)].lastRowe = b.idx]
      ELSE LoadMemory(MayConflict(b), ml)

PsoRegCompareExchange(b, ml, ok) ==
  IF ok THEN PsoRegAtomicStore(b, ml) ELSE PsoRegLoad(b, ml)

(* full_memory_conflict: sees every last access to bytes and mutexes.         *)
PsoRegFullMemoryConflict(b) ==
  LET seen == UNION {{UpdateOf(b, x)} \cup Reads(b.bytes[x]) : x \in DOMAIN b.bytes}
              \cup {b.mtx[a].access : a \in DOMAIN b.mtx} \cup {b.full}
      c == SeeEvents(MayConflict(b), seen)
  IN  IF b.dryrun THEN [b EXCEPT !.thr[Sleeper(b)].accAll = TRUE]
      ELSE [PsoWake(c, PsoWokenByAll(c)) EXCEPT
              !.full = b.idx, !.bytes = [x \in DOMAIN @ |-> NoByte]]

(* -------- threads, mutexes, condition variables and choices --------------- *)

(* fence(): after all updates the thread's auxiliary threads made.            *)
PsoRegFence(b) ==
  IF b.dryrun THEN b ELSE Learn(b, b.thr[CurPid(b)].auxClock)

(* spawn(), with the fence of callPthreadCreate before it.  Neither it nor a  *)
(* choice is ever dry-run: nothing races with them.                           *)
PsoRegSpawn(b, t) ==
  LET c   == PsoRegFence(b)
      new == Cardinality(DOMAIN b.thr)
  IN  [c EXCEPT !.thr = @ @@ (new :> NewPsoThread(t, NoAddr, CurPid(b),
                                                  c.thr[CurPid(b)].clock)),
                !.real = @ @@ (t :> new)]

(* join(): after everything the thread and its auxiliary threads did.         *)
PsoRegJoin(b, t) ==
  LET c == PsoRegFence(b)
      j == b.thr[b.real[t]]
  IN  IF b.dryrun THEN b ELSE Learn(c, Join2(j.clock, j.auxClock))

(* What the methods for mutexes and condition variables begin with.           *)
PsoTouch(b, a) ==
  IF b.dryrun THEN DryWrites(b, {a})
  ELSE PsoWakeByWrites(MayConflict(PsoRegFence(b)), {a})

(* mutex_lock: races with the last lock, not with the unlock in between,      *)
(* which it comes after anyhow.                                               *)
PsoRegLock(b, a) ==
  LET c   == PsoTouch(b, a)
      mtx == b.mtx[a]
      d   == IF mtx.lock = 0 THEN SeeEvents(c, {mtx.access, c.full})
             ELSE SeeEvents(Learn(RaceWith(c, mtx.lock), ClockOf(c, mtx.access)),
                            {c.full})
  IN  IF b.dryrun THEN c
      ELSE [d EXCEPT !.mtx[a] = [access |-> c.idx, lock |-> c.idx, locked |-> TRUE]]

\* Faulty variant of PsoRegLockFail: the race with the lock is not seen.
PsoRegLockFailSilent(b, a) == RaceWith(b, b.full)

PsoRegLockFail(b, a) == RaceWith(RaceWith(b, b.mtx[a].lock), b.full)

PsoRegTryLock(b, a) ==
  LET c   == PsoTouch(b, a)
      mtx == b.mtx[a]
  IN  IF b.dryrun THEN c
      ELSE [SeeEvents(c, {mtx.access, c.full}) EXCEPT
              !.mtx[a] = [access |-> c.idx, locked |-> TRUE,
                          lock |-> IF mtx.locked THEN mtx.lock ELSE c.idx]]

PsoRegUnlock(b, a) ==
  LET c == PsoTouch(b, a)
  IN  IF b.dryrun THEN c
      ELSE [SeeEvents(c, {b.mtx[a].access, c.full}) EXCEPT
              !.mtx[a].access = c.idx, !.mtx[a].locked = FALSE]

(* mutex_init and cond_init wake nobody.                                      *)
PsoRegMutexInit(b, a) ==
  IF b.dryrun THEN DryWrites(b, {a})
  ELSE [SeeEvents(MayConflict(PsoRegFence(b)), {b.mtx[a].access, b.full}) EXCEPT
          !.mtx[a].access = b.idx]

PsoRegMutexDestroy(b, a) ==
  LET c == PsoTouch(b, a)
  IN  IF b.dryrun THEN c
      ELSE [SeeEvents(c, {b.mtx[a].access, c.full}) EXCEPT !.mtx[a] = NoMutex]

(* --------------------------- condition variables -------------------------- *)

PsoRegCondInit(b, a) ==
  IF b.dryrun THEN DryWrites(b, {a})
  ELSE [SeeEvents(MayConflict(PsoRegFence(b)), {b.full}) EXCEPT
          !.cnd[a] = [known |-> TRUE, signal |-> b.idx, waiters |-> <<>>]]

(* register_alternatives: the first time, plan the other choices right here.  *)
PsoRegAlternatives(b, n) ==
  LET c == MayConflict(b)
  IN  IF CurEv(b).alt # 0 THEN c
      ELSE [c EXCEPT !.prefix[b.idx].branch =
                        @ \cup {<<CurPid(b), k>> : k \in 1..(n - 1)}]

(* The thread that waits since event k goes on after the current event.       *)
PsoWakeWaiter(b, k) ==
  [b EXCEPT !.thr[b.prefix[k].pid].available = TRUE,
            !.thr[b.prefix[k].pid].clock = Join2(@, CurClock(b))]

PsoRegSignal(b, a) ==
  LET c  == PsoTouch(b, a)
      ws == b.cnd[a].waiters
      d  == IF Len(ws) > 1 THEN PsoRegAlternatives(c, Len(ws)) ELSE c
      n  == CurEv(b).alt + 1
      e  == Assert1(d, "signal picks a waiter", ws = <<>> \/ n <= Len(ws))
  IN  IF b.dryrun THEN c
      ELSE IF n > Len(ws)
      THEN SeeEvents([e EXCEPT !.cnd[a].signal = b.idx], {b.full})
      ELSE SeeEvents([PsoWakeWaiter(e, ws[n]) EXCEPT
                        !.cnd[a].waiters = RemoveAt(@, n), !.cnd[a].signal = b.idx],
                     {b.full, ws[n]})

PsoRegBroadcast(b, a) ==
  LET c  == PsoTouch(b, a)
      ws == b.cnd[a].waiters
  IN  IF b.dryrun THEN c
      ELSE SeeEvents([FoldLeft(PsoWakeWaiter, c, ws) EXCEPT
                        !.cnd[a].waiters = <<>>, !.cnd[a].signal = b.idx],
                     {b.full} \cup ToSet(ws))

(* cond_wait: unlock the mutex, then wait.                                    *)
PsoRegWait(b, a, mutex) ==
  LET u == PsoRegUnlock(b, mutex)
      c == PsoWakeByReads(MayConflict(PsoRegFence(u)), {a})
  IN  IF b.dryrun THEN DryReads(u, {a})
      ELSE SeeEvents([c EXCEPT !.cnd[a].waiters = Append(@, b.idx),
                               !.thr[CurPid(b)].available = FALSE],
                     {b.full, b.cnd[a].signal})

(* cond_awake: take the mutex back.                                           *)
PsoRegAwake(b, mutex) == PsoRegLock(b, mutex)

PsoRegCondDestroy(b, a) ==
  LET c == PsoTouch(b, a)
  IN  IF b.dryrun THEN c
      ELSE [SeeEvents(c, {b.cnd[a].signal, b.full} \cup ToSet(b.cnd[a].waiters))
              EXCEPT !.cnd[a] = NoCond]

(* -------------------------- one whole instruction ------------------------- *)

PsoRegVisit(m, b, i) ==
  CASE i.op = "store"   -> PsoRegStore(b, i.ml)
    [] i.op = "xstore"  -> PsoRegAtomicStore(b, i.ml)
    [] i.op = "load"    -> PsoRegLoad(b, i.ml)
    [] i.op = "rmw"     -> PsoRegAtomicStore(PsoRegLoad(b, i.ml), i.ml)
    [] i.op = "cas"     -> PsoRegCompareExchange(b, i.ml, CasSucceeds(m, i))
    [] i.op = "extern"  -> PsoRegFullMemoryConflict(PsoRegFence(b))
    [] i.op = "fence"   -> PsoRegFence(b)
    [] i.op = "spawn"   -> PsoRegSpawn(b, i.to)
    [] i.op = "join"    -> PsoRegJoin(b, i.to)
    [] i.op = "lock"    -> PsoRegLock(b, i.mutex)
    [] i.op = "trylock" -> PsoRegTryLock(b, i.mutex)
    [] i.op = "unlock"  -> PsoRegUnlock(b, i.mutex)
    [] i.op = "minit"   -> PsoRegMutexInit(b, i.mutex)
    [] i.op = "mdestroy" -> PsoRegMutexDestroy(b, i.mutex)
    [] i.op = "cdestroy" -> PsoRegCondDestroy(b, i.cond)
    [] i.op = "cinit"   -> PsoRegCondInit(b, i.cond)
    [] i.op = "signal"  -> PsoRegSignal(b, i.cond)
    [] i.op = "bcast"   -> PsoRegBroadcast(b, i.cond)
    [] i.op = "wait"    -> PsoRegWait(b, i.cond, i.mutex)
    [] i.op = "malloc"  -> PsoRegAlternatives(b, 2)
    [] OTHER            -> b                    \* assume, branch, local, ret

PsoRegExecute(m, b, t, i) ==
  PsoRegVisit(m, IF m.thr[t].pendingLock = NoTid THEN b
                 ELSE PsoRegAwake(b, m.thr[t].pendingLock), i)
===============================================================================
