------------------------------ MODULE RFSCEvents ------------------------------
(* One execution under the trace builder of src/src/RFSCTraceBuilder.cpp:     *)
(* what schedule() lets run, what the interpreter registers of it, and the    *)
(* events this leaves in the prefix.  An execution x is a record:             *)
(*   prefix  - the events; replay: the first of them are prescribed           *)
(*   at      - prefix_idx: the event that is being run                        *)
(*   point   - replay_point: how many events were prescribed                  *)
(*   seen    - the event being run has had its effect                         *)
(*   thr     - the threads in the order they were spawned; an IPid is the     *)
(*             position less one, cpid the machine's name for the thread      *)
(*   last    - per byte the event that wrote it                               *)
(*   mtx     - per mutex the last access, the last lock, and if it is held    *)
(*   dead    - mutex_deadlocks: per mutex the threads that were refused it    *)
(*   error   - a replayed event had another effect, or could not run          *)
(*   broken  - the assertions that failed                                     *)
(* Positions in the prefix count from 1; 0 stands for the initial value, or   *)
(* for no event.                                                              *)
EXTENDS TSOMachine

NoRead == -1
NoSym == [kind |-> "NONE"]

XThread(t, spawn) ==
  [cpid |-> t, available |-> TRUE, spawn |-> spawn, idx |-> <<>>]

(* node is the path to the event's decision node, <<>> if it is no decision.  *)
XEvent(p, index) ==
  [pid |-> p, index |-> index, size |-> 1, sym |-> NoSym, rf |-> NoRead,
   may |-> FALSE, pinned |-> FALSE, node |-> <<>>, after |-> {}, unf |-> 0]

XAssert(x, what, holds) ==
  IF holds THEN x ELSE [x EXCEPT !.broken = @ \cup {what}]
XAbort(x, what) == [x EXCEPT !.broken = @ \cup {what}, !.error = TRUE, !.run = -1]

XEv(x) == x.prefix[x.at]
XMidEvent(x) ==
  /\ x.at > 0
  /\ Len(x.thr[XEv(x).pid + 1].idx) < XEv(x).index + XEv(x).size - 1

(* reset(): what is left of an execution when the next one replays `prefix`.  *)
StartExecution(prog, prefix) ==
  [prefix |-> prefix, at |-> 0, point |-> Len(prefix), replay |-> TRUE,
   seen |-> FALSE, run |-> -1, thr |-> <<XThread(0, 0)>>,
   last |-> [a \in prog.bytes |-> 0],
   mtx  |-> [a \in prog.mutexes |-> [access |-> 0, lock |-> 0, locked |-> FALSE]],
   dead |-> [a \in prog.mutexes |-> <<>>],
   error |-> FALSE, broken |-> {}]

(* -------------------------------- schedule -------------------------------- *)

XRunning(x, p) == [x EXCEPT !.thr[p + 1].idx = Append(@, x.at), !.run = p]

XCanRun(x, p) == p < Len(x.thr) /\ x.thr[p + 1].available

ContinueReplayed(x) ==
  IF XCanRun(x, XEv(x).pid) THEN XRunning(x, XEv(x).pid)
  ELSE XAbort(x, "replayed threads are available")

(* An event that is over had the effect it was prescribed, if any.            *)
EffectSeen(x) ==
  XAssert(x, "replayed effects are seen", x.at = 0 \/ (XEv(x).sym # NoSym <=> x.seen))

ReplayNext(x) ==
  LET p == x.prefix[x.at + 1].pid
      y == [EffectSeen(x) EXCEPT !.at = @ + 1, !.seen = FALSE]
  IN  IF XCanRun(x, p) THEN XRunning(y, p)
      ELSE XAbort(x, "replayed threads are available")

(* The last event is merged into the one before it when it is by the same     *)
(* thread and can conflict with nothing.                                      *)
XMerged(x) ==
  LET n == Len(x.prefix)
      p == x.prefix[n].pid
  IN  IF n > 1 /\ x.prefix[n - 1].pid = p /\ ~x.prefix[n].may
      THEN XAssert([x EXCEPT !.prefix = [Front(@) EXCEPT ![n - 1].size = @ + 1],
                             !.at = @ - 1,
                             !.thr[p + 1].idx = Append(Front(@), n - 1)],
                   "merged events have no effect", x.prefix[n].sym = NoSym)
      ELSE x

(* The oldest thread that is available.                                       *)
ScheduleNewEvent(x) ==
  LET ready == {p \in 0 .. Len(x.thr) - 1 : x.thr[p + 1].available}
      p == Min(ready)
  IN  IF ready = {} THEN [x EXCEPT !.run = -1]
      ELSE XRunning([x EXCEPT
             !.prefix = Append(@, XEvent(p, Len(x.thr[p + 1].idx) + 1)),
             !.at = @ + 1, !.seen = FALSE], p)

(* schedule(): x.run is the thread to run, -1 if the execution is over.       *)
Scheduled(x) ==
  IF x.replay /\ XMidEvent(x) THEN ContinueReplayed(x)
  ELSE IF x.replay /\ x.at < Len(x.prefix) THEN ReplayNext(x)
  ELSE LET y == IF x.replay THEN [EffectSeen(x) EXCEPT !.replay = FALSE] ELSE x
       IN  ScheduleNewEvent(XMerged(y))

(* refuse_schedule()                                                          *)
XRefused(x) ==
  LET p == XEv(x).pid
  IN  IF x.at = Len(x.prefix) /\ XEv(x).size = 1 /\ ~XEv(x).may
      THEN [x EXCEPT !.prefix = Front(@), !.at = @ - 1,
                     !.thr[p + 1].idx = Front(@), !.thr[p + 1].available = FALSE]
      ELSE XAbort(x, "only a new event is refused")

(* ------------------------------ registration ------------------------------ *)

TryKinds == {"M_TRYLOCK", "M_TRYLOCK_FAIL"}

(* SymEv::is_compatible_with: the same operation on the same object.          *)
XCompatible(s, r) ==
  /\ s.kind = r.kind \/ {s.kind, r.kind} \subseteq TryKinds
  /\ "addr" \in DOMAIN s => s.addr = r.addr
  /\ "num" \in DOMAIN s => s.num = r.num

(* record_symbolic(): a replayed event must do what it did before.            *)
XRecord(x, sym) ==
  IF x.replay /\ ~XCompatible(XEv(x).sym, sym) THEN [x EXCEPT !.error = TRUE]
  ELSE XAssert([x EXCEPT !.prefix[x.at].sym = sym, !.seen = TRUE],
               "one effect per event", ~x.seen)

SymAccess(kind, a, val, exp) == [kind |-> kind, addr |-> a, val |-> val, exp |-> exp]
SymOn(kind, a) == [kind |-> kind, addr |-> a]
SymOf(kind, p) == [kind |-> kind, num |-> p]

XReads(x, from) == [x EXCEPT !.prefix[x.at].may = TRUE, !.prefix[x.at].rf = from]

XSpawn(x, t) ==
  LET y == [x EXCEPT !.thr = Append(@, XThread(t, x.at)), !.prefix[x.at].may = TRUE]
  IN  XRecord(y, SymOf("SPAWN", Len(x.thr)))

XStore(x, a) == [x EXCEPT !.prefix[x.at].may = TRUE, !.last[a] = x.at]
XLoad(x, a) == XReads(x, x.last[a])

(* join(): after the last event of the thread.                                *)
XJoin(x, t) ==
  LET p == (CHOOSE k \in DOMAIN x.thr : x.thr[k].cpid = t) - 1
      idx == x.thr[p + 1].idx
  IN  [XRecord(x, SymOf("JOIN", p)) EXCEPT
         !.prefix[x.at].may = TRUE,
         !.prefix[x.at].after = @ \cup (IF idx = <<>> THEN {} ELSE {Last(idx)})]

XMutex(x, kind, a, lock, locked) ==
  [XReads(XRecord(x, SymOn(kind, a)), x.mtx[a].access) EXCEPT
     !.mtx[a] = [access |-> x.at, lock |-> lock, locked |-> locked]]

XLock(x, a) == XMutex(x, "M_LOCK", a, x.at, TRUE)

(* The attempt of a refused thread leaves no event.                           *)
XLockFail(x, a) ==
  LET p == XEv(x).pid
  IN  XAssert([x EXCEPT !.dead[a] = Append(@, p)], "a thread is refused once",
              x.mtx[a].lock > 0 /\ x.mtx[a].locked /\ p \notin ToSet(x.dead[a]))

XTryLock(x, a) ==
  IF x.mtx[a].locked THEN XMutex(x, "M_TRYLOCK_FAIL", a, x.mtx[a].lock, TRUE)
  ELSE XMutex(x, "M_TRYLOCK", a, x.at, TRUE)

XUnlock(x, a) ==
  XAssert([XMutex(x, "M_UNLOCK", a, x.mtx[a].lock, FALSE) EXCEPT !.dead[a] = <<>>],
          "an unlocked mutex was locked", x.mtx[a].access > 0)

XMutexInit(x, a) ==
  XAssert([XReads(XRecord(x, SymOn("M_INIT", a)), 0) EXCEPT
             !.mtx[a] = [access |-> x.at, lock |-> 0, locked |-> FALSE]],
          "a mutex is initialised once", x.mtx[a].access = 0)
XMutexDestroy(x, a) == XMutex(x, "M_DELETE", a, x.mtx[a].lock, FALSE)

(* What the interpreter registers of instruction i in machine m.              *)
XRegister(m, x, i) ==
  CASE i.op \in {"store", "xstore"} ->
         XStore(XRecord(x, SymAccess("STORE", i.ml.addr, i.val, 0)), i.ml.addr)
    [] i.op = "load" -> XLoad(XRecord(x, SymOn("LOAD", i.ml.addr)), i.ml.addr)
    [] i.op = "rmw" ->
         LET a == i.ml.addr
         IN  XStore(XLoad(XRecord(x, SymAccess("RMW", a, NewVal(m, i), 0)), a), a)
    [] i.op = "cas" /\ CasSucceeds(m, i) ->
         LET a == i.ml.addr
         IN  XStore(XLoad(XRecord(x, SymAccess("CMPXHG", a, i.val, i.exp)), a), a)
    [] i.op = "cas" /\ ~CasSucceeds(m, i) ->
         XLoad(XRecord(x, SymAccess("CMPXHGFAIL", i.ml.addr, i.val, i.exp)), i.ml.addr)
    [] i.op = "spawn"    -> XSpawn(x, i.to)
    [] i.op = "join"     -> XJoin(x, i.to)
    [] i.op = "minit"    -> XMutexInit(x, i.mutex)
    [] i.op = "mdestroy" -> XMutexDestroy(x, i.mutex)
    [] i.op = "lock"     -> XLock(x, i.mutex)
    [] i.op = "trylock"  -> XTryLock(x, i.mutex)
    [] i.op = "unlock"   -> XUnlock(x, i.mutex)
    [] OTHER             -> x

(* ---------------------------- one whole execution ------------------------- *)

(* The threads a step marks available, and the one that has come to its end.  *)
XMarked(x, m2, t) ==
  [x EXCEPT !.thr = [k \in DOMAIN @ |->
     LET u == x.thr[k].cpid
     IN  [@[k] EXCEPT !.available = IF u = t THEN m2.thr[t].live ELSE @ \/ u \in m2.wake]]]

(* The interpreter's loop: from machine m until no thread can be scheduled or *)
(* a replay goes wrong.  (TLC tabulates the two sides of @@; adding nothing   *)
(* with it keeps the threads from being evaluated anew at every step.)        *)
RECURSIVE RunOn(_, _, _)
RunOn(prog, x, m) ==
  LET s == Scheduled(x)
      t == s.thr[s.run + 1].cpid
      i == NextInstr(prog, m, t)
      r == XRegister(m, s, i)
      f == IF MutexRefused(m, t, i) /\ ~JoinRefused("SC", m, i)
           THEN XLockFail(s, i.mutex) ELSE s
      m2 == [Execute("SC", m, t, i, 0) EXCEPT !.thr = @ @@ <<>>]
  IN  IF x.error THEN [x |-> x, m |-> m]
      ELSE IF s.run = -1 THEN [x |-> s, m |-> m]
      ELSE IF Refused("SC", m, t, i) THEN RunOn(prog, XRefused(f), Refuse("SC", m, t, i))
      ELSE IF r.error THEN [x |-> r, m |-> m]
      ELSE RunOn(prog, XMarked(r, m2, t), m2)

RunExecution(prog, prefix) == RunOn(prog, StartExecution(prog, prefix), NewMachine(prog))
===============================================================================
