------------------------------ MODULE PSOMachine ------------------------------
(* The machine of TSOMachine under PSO, as src/src/PSOInterpreter.cpp runs    *)
(* it.  There is a store buffer for each byte; a store waits in those of all  *)
(* the bytes it covers, and may reach memory once it is the oldest in each of *)
(* them.  Here `buf` has all stores of a thread that are pending, in program  *)
(* order; the buffer of byte x consists of those that cover x.  An auxiliary  *)
(* thread is known by the first byte of the stores it flushes (aux_to_byte).  *)
EXTENDS TSOMachine

BufferOf(buf, x) == {k \in DOMAIN buf : x \in Bytes(buf[k].ml)}

(* readable: for each byte that is buffered the newest store covers what is   *)
(* read and no more.                                                          *)
Readable(buf, ml) ==
  \A x \in Bytes(ml) :
    BufferOf(buf, x) # {} => buf[Max(BufferOf(buf, x))].ml = ml

(* The stores that may reach memory.                                          *)
Flushable(buf) ==
  {k \in DOMAIN buf : \A x \in Bytes(buf[k].ml) : Min(BufferOf(buf, x)) = k}

(* ------------------------- refused instructions --------------------------- *)

(* A thread that failed an assumption is never joined with: that refusal is   *)
(* the interpreter's own, whatever the memory model.                          *)
PsoJoinRefused(m, i) ==
  /\ i.op = "join"
  /\ \/ m.thr[i.to].live
     \/ m.thr[i.to].assumeBlocked
     \/ m.thr[i.to].buf # <<>>

PsoFenceRefused(m, t, i) == i.op \in FenceOps /\ m.thr[t].buf # <<>>
PsoLoadRefused(m, t, i) == i.op = "load" /\ ~Readable(m.thr[t].buf, i.ml)

PsoRefused(m, t, i) ==
  \/ PsoJoinRefused(m, i) \/ PsoFenceRefused(m, t, i)
  \/ PsoLoadRefused(m, t, i) \/ MutexRefused(m, t, i)

(* checkRefuse: remember what the thread waits for.                           *)
PsoRefuse(m, t, i) ==
  IF PsoJoinRefused(m, i)
  THEN [m EXCEPT !.wake = {}, !.thr[i.to].awaitingJoin = @ \cup {t}]
  ELSE IF PsoFenceRefused(m, t, i)
  THEN [m EXCEPT !.wake = {}, !.thr[t].flush = "full"]
  ELSE IF PsoLoadRefused(m, t, i)
  THEN [m EXCEPT !.wake = {}, !.thr[t].flush = "partial", !.thr[t].flushMl = i.ml]
  ELSE Refuse("PSO", m, t, i)

(* ------------------------------ instructions ------------------------------ *)

PsoStore(m, t, i) ==
  [Advance(m, t) EXCEPT
     !.thr[t].buf = Append(@, [ml |-> i.ml, val |-> i.val, id |-> Id(m, t)])]

(* A load takes its value from the buffer if there is a pending store.        *)
PsoLoad(m, t, i) == Advance(ReadMem(m, t, i.ml), t)

(* terminate: those waiting to join are woken once every buffer is empty.     *)
PsoReturn(m, t) ==
  [Advance(m, t) EXCEPT !.thr[t].live = FALSE,
     !.wake = IF m.thr[t].buf = <<>> THEN m.thr[t].awaitingJoin ELSE {}]

PsoVisit(m, t, i, alt) ==
  CASE i.op = "store" -> PsoStore(m, t, i)
    [] i.op = "load"  -> PsoLoad(m, t, i)
    [] i.op = "ret"   -> PsoReturn(m, t)
    [] OTHER          -> Visit("PSO", m, t, i, alt)

PsoExecute(m, t, i, alt) == PsoVisit(CondAwake(m, t), t, i, alt)

(* What a thread waits for has come true when `rest` is left of its buffer    *)
(* after a store to ml has reached memory.                                    *)
FlushDone(th, ml, rest) ==
  \/ th.flush = "full" /\ rest = <<>>
  \/ /\ th.flush = "partial"
     /\ Overlaps(ml, th.flushMl) /\ Readable(rest, th.flushMl)

(* runAux: the oldest store in the buffer of byte x reaches memory; the       *)
(* thread may be woken, and when nothing is left to flush, those who wait to  *)
(* join with it.                                                              *)
PsoFlush(m, t, x) ==
  LET k    == Min(BufferOf(m.thr[t].buf, x))
      st   == m.thr[t].buf[k]
      rest == RemoveAt(m.thr[t].buf, k)
      due  == FlushDone(m.thr[t], st.ml, rest)
  IN  [WriteMem(m, st.ml, st.val, st.id) EXCEPT
         !.thr[t].buf = rest,
         !.thr[t].flush = IF due THEN "no" ELSE @,
         !.wake = (IF due THEN {t} ELSE {})
                  \cup (IF rest = <<>> /\ ~m.thr[t].live
                        THEN m.thr[t].awaitingJoin ELSE {})]

PsoCanStep(prog, m, t) ==
  /\ m.thr[t].live /\ ~m.thr[t].waiting
  /\ ~PsoRefused(m, t, NextInstr(prog, m, t))

(* ------------------- what can happen next, under any model ----------------- *)

(* malloc fails or not, a signal wakes any of those who wait.                 *)
Alternatives(m, i) ==
  CASE i.op = "malloc" -> {0, 1}
    [] i.op = "signal" -> {0} \cup {k - 1 : k \in DOMAIN m.cond[i.cond]}
    [] OTHER           -> {0}

(* A thread's next instruction, or one of its stores reaching memory.         *)
MayStep(prog, mm, m, t) ==
  IF mm = "PSO" THEN PsoCanStep(prog, m, t) ELSE CanStep(prog, mm, m, t)

Ran(mm, m, t, i, alt) ==
  IF mm = "PSO" THEN PsoExecute(m, t, i, alt) ELSE Execute(mm, m, t, i, alt)

Flushes(mm, m, t) ==
  IF mm = "PSO"
  THEN {PsoFlush(m, t, m.thr[t].buf[k].ml.addr) : k \in Flushable(m.thr[t].buf)}
  ELSE IF CanFlush(m, t) THEN {Flush(m, t)} ELSE {}
===============================================================================
