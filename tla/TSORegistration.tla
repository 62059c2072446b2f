---------------------------- MODULE TSORegistration ---------------------------
(* The registration methods of src/src/TSOTraceBuilder.cpp: what the trace    *)
(* builder writes down about the event the interpreter is executing.  Each is *)
(* an operator on the builder state b of one execution, a record:             *)
(*   prefix, ahead   - the events of the execution, each with the branches    *)
(*                     still to try at its place (`later`), and the wakeup    *)
(*                     tree below the last of them                            *)
(*   thr             - per thread identifier p; 2t is real thread t, 2t+1 the *)
(*                     auxiliary thread that flushes its store buffer         *)
(*   bytes, mtx, cnd - the last accesses to each byte, mutex and condition    *)
(*                     variable (mem, mutexes, cond_vars)                     *)
(*   full            - the last full memory conflict                          *)
(*   idx, symIdx     - the current event and its next symbolic event          *)
(*   dry, dryrun     - dry-run sleepers so far; is this a dry run             *)
(*   replay          - are we following the prefix of an earlier execution    *)
(*   fails           - failed attempts to lock (lock_fail_races)              *)
(*   alg             - SOURCE or OPTIMAL                                      *)
(*   broken          - the names of assertions of the code that failed        *)
(* Positions in prefix count from 1; 0 stands for the code's -1.              *)
EXTENDS TSOWakeupTree

Ascending(S) == SetToSortSeq(S, LAMBDA x, y : x < y)

Assert1(b, name, holds) == IF holds THEN b ELSE [b EXCEPT !.broken = @ \cup {name}]

CurEv(b)  == b.prefix[b.idx]
CurPid(b) == CurEv(b).pid
Sleeper(b) == b.prefix[b.idx + 1].sleep[b.dry]

NewBuilderThread(spawnEvent, available) ==
  [available |-> available, spawnEvent |-> spawnEvent, idx |-> <<>>,
   buf |-> <<>>, sleeping |-> FALSE, sleepSym |-> <<>>,
   accR |-> {}, accW |-> {}, accAll |-> FALSE]

NoByte  == [update |-> 0, updateMl |-> NoMl, reads |-> <<>>]
NoMutex == [access |-> 0, lock |-> 0, locked |-> FALSE]
NoCond  == [known |-> FALSE, signal |-> 0, waiters |-> <<>>]

(* last_read is indexed by real thread; a function from threads to positions. *)
SetRead(byte, t, k) == [byte EXCEPT !.reads = (t :> k) @@ @]
Reads(byte) == {byte.reads[t] : t \in DOMAIN byte.reads}

(* ------------------------- recording what happened ------------------------ *)

MayConflict(b) == [b EXCEPT !.prefix[b.idx].may = TRUE]

(* record_symbolic: a dry run describes the sleeper's next event, a replayed  *)
(* event has to do what it did before, a new one is written down.             *)
Record(b, e) ==
  IF b.dryrun
  THEN [b EXCEPT !.prefix[b.idx + 1].sleepEv[b.dry] = Append(@, e),
                 !.thr[Sleeper(b)].sleepSym = Append(@, e)]
  ELSE IF ~b.replay
  THEN [b EXCEPT !.prefix[b.idx].sym = Append(@, e), !.symIdx = @ + 1]
  ELSE IF b.symIdx < Len(CurEv(b).sym) /\ Compatible(CurEv(b).sym[b.symIdx + 1], e)
  THEN [b EXCEPT !.prefix[b.idx].sym[b.symIdx + 1] = e, !.symIdx = @ + 1]
  ELSE Assert1(b, "deterministic replay", FALSE)

Race(kind, first, second, pid, index, aux) ==
  [kind |-> kind, first |-> first, second |-> second,
   pid |-> pid, index |-> index, aux |-> aux]

AddRace(b, r) == [b EXCEPT !.prefix[b.idx].races = Append(@, r)]

(* add_noblock_race, which drops an immediate repetition and asserts that the *)
(* two events conflict.                                                       *)
AddNoblockRace(b, k) ==
  LET races == CurEv(b).races
      r == Race("NONBLOCK", k, b.idx, 0, 0, 0)
  IN  IF races # <<>> /\ Last(races) = r THEN b
      ELSE Assert1(AddRace(b, r), "races are conflicts",
                   EventsConflict(b.prefix[k].pid, b.prefix[k].sym,
                                  CurPid(b), CurEv(b).sym))

(* see_events.                                                                *)
See(b, ks) == FoldLeft(AddNoblockRace, b, Ascending(ks \ {0, b.idx}))

HappensAfter(b, k) == [b EXCEPT !.prefix[b.idx].after = @ \cup {k}]
HappensAfterThread(b, p) ==
  IF b.thr[p].idx = <<>> THEN b ELSE HappensAfter(b, Last(b.thr[p].idx))

(* ---------------------------- waking sleepers ----------------------------- *)

HasPendingStore(b, p, byte) ==
  \E k \in DOMAIN b.thr[p].buf : byte \in Bytes(b.thr[p].buf[k].ml)

\* Faulty variant of WokenByRead: a read wakes no store.
WokenByReadAll(b, byte) == {p \in DOMAIN b.thr : b.thr[p].accAll}

(* The threads an access wakes: a thread never wakes its own store buffer by  *)
(* reading, nor is it woken by it.                                            *)
WokenByRead(b, byte) ==
  {p \in DOMAIN b.thr : \/ b.thr[p].accAll
                        \/ p # CurPid(b) + 1 /\ byte \in b.thr[p].accW}
WokenByWrite(b, byte) ==
  {p \in DOMAIN b.thr :
     \/ b.thr[p].accAll
     \/ /\ p + 1 # CurPid(b)
        /\ \/ byte \in b.thr[p].accW
           \/ byte \in b.thr[p].accR /\ ~HasPendingStore(b, p, byte)}
WokenByAll(b) ==
  {p \in DOMAIN b.thr :
     \/ b.thr[p].accAll \/ b.thr[p].accW # {}
     \/ \E byte \in b.thr[p].accR : ~HasPendingStore(b, p, byte)}

(* wakeup: the threads of ps wake.  With Optimal-DPOR they have to be those   *)
(* whose recorded next event conflicts with the access ev.                    *)
Woken(b, ps) ==
  [b EXCEPT !.prefix[b.idx].wakeup = @ \cup ps,
            !.thr = [p \in DOMAIN @ |->
               IF p \in ps
               THEN [@[p] EXCEPT !.sleeping = FALSE, !.sleepSym = <<>>,
                                 !.accR = {}, !.accW = {}, !.accAll = FALSE]
               ELSE @[p]]]

Wake(b, ps, ev) ==
  Assert1(Assert1(Woken(b, ps), "only sleepers wake",
                  \A p \in ps : b.thr[p].sleeping),
          "sleepers wake on conflicts",
          b.alg = "SOURCE" \/
            \A p \in {q \in DOMAIN b.thr : b.thr[q].sleeping} :
               p \in ps <=> EventsConflict(CurPid(b), <<ev>>, p, b.thr[p].sleepSym))

WakeByRead(b, x)  == Wake(b, WokenByRead(b, x), SymLoad(At(x)))
WakeByWrite(b, x) == Wake(b, WokenByWrite(b, x), SymStore(At(x), 1))
WakeByWrites(b, bs) == FoldLeft(WakeByWrite, b, Ascending(bs))

DryReads(b, bs)  == [b EXCEPT !.thr[Sleeper(b)].accR = @ \cup bs]
DryWrites(b, bs) == [b EXCEPT !.thr[Sleeper(b)].accW = @ \cup bs]

(* ------------------------------ memory access ----------------------------- *)

(* store(): the store enters the buffer, whose auxiliary thread may now run.  *)
RegStore(b, ml) ==
  IF b.dryrun THEN b
  ELSE [MayConflict(b) EXCEPT
          !.thr[CurPid(b)].buf =
             Append(@, [ml |-> ml, storeEvent |-> b.idx, lastRowe |-> 0]),
          !.thr[CurPid(b) + 1].available = TRUE]

IsAux(p) == p % 2 = 1
RealOf(p) == 2 * (p \div 2)

\* Faulty variant of SeenByWrite: reads of what is overwritten are not seen.
SeenUpdates(b, ml, q) ==
  {b.bytes[x].update : x \in {y \in Bytes(ml) :
      b.bytes[y].update # 0 /\ RealOf(b.prefix[b.bytes[y].update].pid) # q}}

(* What an update of ml by (the buffer of) real thread q races with: the last *)
(* update of each byte by another thread, and the last reads by other threads.*)
SeenByWrite(b, ml, q) ==
  LET upd(x) == b.bytes[x].update
  IN  {upd(x) : x \in {y \in Bytes(ml) :
                         upd(y) # 0 /\ RealOf(b.prefix[upd(y)].pid) # q}}
      \cup {k \in UNION {Reads(b.bytes[x]) : x \in Bytes(ml)} :
              k # 0 /\ b.prefix[k].pid # q}

(* An update reaches memory: it is ordered after its store (or, for an atomic *)
(* store, after the thread's last update), sees what it races with, becomes   *)
(* the last update, and the last load that forwarded from the buffer entry    *)
(* counts as a read of it.                                                    *)
UpdateMemory(b, ml, q) ==
  LET aux   == IsAux(CurPid(b))
      rowe  == IF aux THEN Head(b.thr[q].buf).lastRowe ELSE 0
      new(byte) == [byte EXCEPT !.update = b.idx, !.updateMl = ml]
  IN  [b EXCEPT
        !.bytes = [x \in DOMAIN @ |->
                     IF x \notin Bytes(ml) THEN @[x]
                     ELSE IF rowe > 0 THEN SetRead(new(@[x]), q \div 2, rowe)
                     ELSE new(@[x])]]

(* The update leaves the store buffer; an empty buffer has nothing to flush.  *)
PopBuffer(b, q) ==
  IF ~IsAux(CurPid(b)) THEN b
  ELSE [b EXCEPT !.thr[q].buf = Tail(@),
                 !.thr[q + 1].available = @ /\ Len(b.thr[q].buf) > 1]

OrderUpdate(b, q) ==
  IF IsAux(CurPid(b)) THEN HappensAfter(b, Head(b.thr[q].buf).storeEvent)
  ELSE HappensAfterThread(b, q + 1)

DoAtomicStore(b, ml) ==
  IF b.dryrun THEN DryWrites(b, Bytes(ml))
  ELSE LET q    == RealOf(CurPid(b))
           seen == SeenByWrite(b, ml, q) \cup {b.full}
           c    == UpdateMemory(OrderUpdate(MayConflict(b), q), ml, q)
       IN  See(PopBuffer(WakeByWrites(c, Bytes(ml)), q), seen)

(* do_load(ByteInfo): a read sees the last update unless its own thread made  *)
(* it.                                                                        *)
SeeUpdate(b, byte) ==
  LET u == byte.update
  IN  IF u # 0 /\ RealOf(b.prefix[u].pid) # CurPid(b) THEN See(b, {u}) ELSE b

(* One byte of a load from memory.  After an update by the own thread that    *)
(* covered other bytes than this load, the load had to wait for it.           *)
LoadByte(b, ml, x) ==
  LET u == b.bytes[x].update
      own == u # 0 /\ RealOf(b.prefix[u].pid) = CurPid(b) /\ u # b.idx
      c == IF own /\ ml # b.bytes[x].updateMl THEN HappensAfter(b, u) ELSE b
      d == [SeeUpdate(c, b.bytes[x]) EXCEPT
              !.bytes[x] = SetRead(@, CurPid(b) \div 2, b.idx)]
  IN  WakeByRead(d, x)

NewestBuffered(b, ml) ==
  Max({0} \cup {k \in DOMAIN b.thr[CurPid(b)].buf :
                  b.thr[CurPid(b)].buf[k].ml.addr = ml.addr})

DoLoad(b, ml) ==
  IF b.dryrun THEN DryReads(b, Bytes(ml))
  ELSE LET c == MayConflict(b)
           k == NewestBuffered(b, ml)
       IN  IF k # 0 THEN [c EXCEPT !.thr[CurPid(b)].buf[k].lastRowe = b.idx]
           ELSE See(FoldLeft(LAMBDA s, x : LoadByte(s, ml, x), c,
                             Ascending(Bytes(ml))), {b.full})

RegAtomicStore(b, ml, v) == DoAtomicStore(Record(b, SymStore(ml, v)), ml)
RegLoad(b, ml) == DoLoad(Record(b, SymLoad(ml)), ml)
RegAtomicRMW(b, ml, v) == RegAtomicStore(RegLoad(b, ml), ml, v)

RegCompareExchange(b, ml, v, exp, ok) ==
  LET c == DoLoad(Record(b, SymCas(ok, ml, v, exp)), ml)
  IN  IF ok THEN DoAtomicStore(c, ml) ELSE c

(* full_memory_conflict: sees every last access there is, and makes them all  *)
(* obsolete.                                                                  *)
RegFullMemoryConflict(b) ==
  LET r == Record(b, SymFullmem)
      c == FoldLeft(LAMBDA s, x : SeeUpdate(s, b.bytes[x]), MayConflict(r),
                    Ascending(DOMAIN b.bytes))
      seen == UNION {Reads(b.bytes[x]) : x \in DOMAIN b.bytes}
              \cup {b.mtx[a].access : a \in DOMAIN b.mtx} \cup {b.full}
  IN  IF b.dryrun THEN [r EXCEPT !.thr[Sleeper(b)].accAll = TRUE]
      ELSE See([Wake(c, WokenByAll(c), SymFullmem) EXCEPT
                  !.full = b.idx,
                  !.bytes = [x \in DOMAIN @ |-> NoByte]], seen)
===============================================================================
