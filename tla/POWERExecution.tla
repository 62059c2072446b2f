----------------------------- MODULE POWERExecution ----------------------------
(* How the interpreter of src/src/POWERExecution.cpp runs a program under     *)
(* POWER or ARM.  Each thread fetches instructions in program order up to the *)
(* next branch, whether or not their operands are there; local instructions   *)
(* run when their operands arrive; loads, stores and calls that access memory *)
(* are events that the trace builder commits when it chooses to.  A register  *)
(* is named by the instruction that computes it.  Function calls are inlined, *)
(* and every variable is one byte.                                            *)
(*                                                                            *)
(* An operand [r, c] is register r, or the constant c when r = 0; values are  *)
(* those of LLVMInstructions.  The fields of an instruction: `a` the operand  *)
(* with its address (for a join the thread number), `d` the one with its data *)
(* or condition, `args` the operands of a local instruction.                  *)
(*                                                                            *)
(* A state s has the builder `c` (see POWEREvents), the program's `code`, for *)
(* each thread `thr` its code, its next instruction, the jump that led to the *)
(* block it is in (`prevBB`), whether it has a stack, what it fetched (`fi`)  *)
(* and the event that created it, and `local`, the local instructions that    *)
(* can run.                                                                   *)
EXTENDS POWEREvents, LLVMInstructions

StatusOf(t) == 100 + t        \* 0 not started, 1 running, 2 terminated

(* ---------------------------- local instructions -------------------------- *)

(* POWERExecution.cpp has a copy of what Execution.cpp computes, with the     *)
(* operands taken from the fetched instruction instead of the stack frame.    *)
(* Each group below is one part of that copy.                                 *)
PowerICmp(i, v) == visitICmpInst(i, v)
PowerOrderedFCmp(i, v) == visitFCmpInst(i, v)
PowerUnorderedFCmp(i, v) == visitFCmpInst(i, v)
PowerFCmp(i, v) ==
  IF i.pred \in DOMAIN OrderedOf THEN PowerUnorderedFCmp(i, v) ELSE PowerOrderedFCmp(i, v)
PowerCmp(i, v) == executeCmpInst(i, v)
PowerBinary(i, v) == visitBinaryOperator(i, v)
PowerSelect(v) == visitSelectInst(v)
PowerShift(i, v) == visitShift(i, v)

PowerIntResize(i, v) == visitCast(i, v)
PowerFloatCast(i, v) == visitCast(i, v)
PowerPointerCast(i, v) == visitCast(i, v)
PowerBitCast(i, v) == executeBitCastInst(v[1], i.ty, i.to, i.little)
PowerCast(i, v) ==
  CASE i.f \in {"trunc", "sext", "zext"}  -> PowerIntResize(i, v)
    [] i.f \in {"ptrtoint", "inttoptr"}   -> PowerPointerCast(i, v)
    [] i.f = "bitcast"                     -> PowerBitCast(i, v)
    [] OTHER                               -> PowerFloatCast(i, v)

PowerElement(i, v) ==
  CASE i.f = "extractelement" -> visitExtractElementInst(v)
    [] i.f = "insertelement"  -> visitInsertElementInst(v)
    [] i.f = "shufflevector"  -> visitShuffleVectorInst(v)
PowerMember(i, v) ==
  IF i.f = "extractvalue" THEN visitExtractValueInst(i, v) ELSE visitInsertValueInst(i, v)

getConstantOperandValue(i, v) ==
  CASE i.f \in CastOps -> PowerCast(i, v)
    [] i.f \in {"icmp", "fcmp"} -> PowerCmp(i, v)
    [] i.f = "select"  -> PowerSelect(v)
    [] OTHER           -> ConstantBinary(i, v)

(* A phi node has the value of the one operand that fetch left it.            *)
LocalValue(i, v) ==
  CASE i.f = "phi"    -> v[1]
    [] i.f = "icmp"   -> PowerICmp(i, v)
    [] i.f = "fcmp"   -> PowerFCmp(i, v)
    [] i.f \in IntOps \cup FloatOps -> PowerBinary(i, v)
    [] i.f = "select" -> PowerSelect(v)
    [] i.f \in ShiftOps -> PowerShift(i, v)
    [] i.f \in CastOps  -> PowerCast(i, v)
    [] i.f \in {"extractelement", "insertelement", "shufflevector"} -> PowerElement(i, v)
    [] i.f \in {"extractvalue", "insertvalue"} -> PowerMember(i, v)

(* --------------------------------- fetching -------------------------------- *)

(* The instruction at pc.  Of the operands of a phi node fetch keeps the one  *)
(* that belongs to the block the thread came from.                            *)
RetInstr == [op |-> "ret"]
PrevBB(s, t, pc) ==
  IF pc \in DOMAIN s.thr[t].fi THEN s.thr[t].fi[pc].prevBB ELSE s.thr[t].prevBB
Incoming(i, prevBB) == [op |-> "calc", f |-> "phi", args |-> <<i.incoming[prevBB]>>]
InstrAt(s, t, pc) ==
  LET code == s.code[s.thr[t].code]
      i == IF pc \in DOMAIN code THEN code[pc] ELSE RetInstr
  IN  IF i.op = "phi" THEN Incoming(i, PrevBB(s, t, pc)) ELSE i

LoadCount == [load |-> 1, join |-> 1, lock |-> 1] @@ [o \in {"store", "create", "minit", "unlock"} |-> 0]
StoreCount == [load |-> 0, join |-> 0, create |-> 2] @@ [o \in {"store", "lock", "minit", "unlock"} |-> 1]
IsEventOp(i) == i.op \in DOMAIN LoadCount
IsBranchOp(i) == i.op \in {"br", "assume", "join", "lock"}

(* Fetching stops after a branch, a terminator or a call that is no event;    *)
(* when it is committed, fetching goes on.                                    *)
(* A switch or an indirect jump is a terminator, but no branch: what comes    *)
(* after it does not depend on it.                                            *)
Resumes(i) == i.op \in {"br", "switch", "ibr", "assume", "ret", "fence", "mdestroy"}
StopsFetching(i) == IsBranchOp(i) \/ Resumes(i)

FenceBefore(i) ==
  CASE i.op = "fence" -> i.kind [] i.op = "create" -> "lwsync"
    [] i.op = "unlock" -> "sync" [] OTHER -> "none"
FenceAfter(i) ==
  CASE i.op = "join" -> "lwsync" [] i.op = "lock" -> "sync" [] OTHER -> "none"
Fenced(c, t, kind) == IF kind = "none" THEN c ELSE FetchFence(c, t, kind)

RegsOf(i, fields) == {i[f].r : f \in fields \cap DOMAIN i} \ {0}
RegsRead(i) ==
  RegsOf(i, {"a", "d"})
  \cup (IF i.op = "calc" THEN {i.args[k].r : k \in DOMAIN i.args} \ {0} ELSE {})

(* The events that register r depends on: the load that computes it, or what  *)
(* the local instruction that computes it depends on.                         *)
DepsOn(s, t, regs) ==
  UNION {LET f == s.thr[t].fi[r] IN IF f.ev # 0 THEN {f.ev} ELSE f.deps : r \in regs}

(* getOperandValue, and that of an operand that is no vector.                 *)
Operand(s, t, opnd) ==
  CASE opnd.r # 0 -> s.thr[t].fi[opnd.r].val
    [] opnd.r = 0 /\ "f" \in DOMAIN opnd -> getConstantOperandValue(opnd, opnd.args)
    [] OTHER -> opnd.c
Val(s, t, opnd) == Operand(s, t, opnd)[1]
Computed(s, t, i) == LocalValue(i, [k \in DOMAIN i.args |-> Operand(s, t, i.args[k])])

(* registerOperand.                                                           *)
RegisterOperand(c, x, i, f, v) ==
  CASE f = "d" -> RegisterData(c, x, 1, v)
    [] i.op = "join" -> RegisterLoadRequirement(RegisterAddr(c, x, 1, StatusOf(v)), x, 1, 2)
    [] i.op = "lock" ->
         RegisterLoadRequirement(RegisterAddr(RegisterAddr(c, x, 1, v), x, 2, v), x, 1, 0)
    [] OTHER -> RegisterAddr(c, x, 1, v)

(* The data operand of a store comes before its address.                      *)
RegisterAll(s, t, x, i, fields) ==
  FoldLeft(LAMBDA c, f : RegisterOperand(c, x, i, f, Val(s, t, i[f])), s.c,
           SelectSeq(<<"d", "a">>, LAMBDA f : f \in fields \cap DOMAIN i))

(* What the interpreter itself stores: the number of a new thread and that it *)
(* has started, the state of a mutex.                                         *)
RegisterExtra(c, x, i, new) ==
  CASE i.op = "create" ->
         RegisterAddr(RegisterData(RegisterData(c, x, 1, new), x, 2, 1), x, 2, StatusOf(new))
    [] i.op = "lock" -> RegisterData(c, x, 2, 1)
    [] i.op \in {"minit", "unlock"} -> RegisterData(c, x, 1, 0)
    [] OTHER -> c

NewStack(k, create) ==
  [code |-> k, pc |-> 1, prevBB |-> 0, live |-> FALSE, fi |-> <<>>, create |-> create]

(* fetch: one instruction i of thread t.  First what it adds to the events:   *)
(* the fence before it, its own event, a control dependency for those after.  *)
Registers(i) == IF IsEventOp(i) THEN RegsOf(i, {"a"}) ELSE {}
AddrDeps(s, t, i) == DepsOn(s, t, Registers(i))
DataDeps(s, t, i) == DepsOn(s, t, RegsRead(i) \ Registers(i))
EventOf(s, t, i) == IF IsEventOp(i) THEN Len(s.c.fch[t]) + 1 ELSE 0

EventFetched(s, t, i, c) ==
  IF IsEventOp(i)
  THEN FetchEvent(c, t, LoadCount[i.op], StoreCount[i.op], AddrDeps(s, t, i), DataDeps(s, t, i))
  ELSE c
CtrlFetched(s, t, i, c) ==
  IF ~IsBranchOp(i) THEN c
  ELSE FetchCtrl(c, t, IF IsEventOp(i) THEN {EventOf(s, t, i)} ELSE DataDeps(s, t, i))

(* Then the operands that are there, and a new thread.                        *)
OperandsGiven(s, t, i, missing) ==
  IF ~IsEventOp(i) THEN s.c
  ELSE RegisterAll(s, t, <<t, Len(s.c.fch[t])>>, i,
                   {f \in {"a", "d"} \cap DOMAIN i : i[f].r \notin missing})
ThreadSpawned(i, c) == IF i.op = "create" THEN SpawnThread(c) ELSE c
ExtraGiven(s, t, i, c) == IF IsEventOp(i) THEN RegisterExtra(c, <<t, Len(c.fch[t])>>, i, Len(s.thr) + 1) ELSE c

FetchInstr(s, t) ==
  LET pc == s.thr[t].pc
      i  == InstrAt(s, t, pc)
      missing == {r \in RegsRead(i) : ~s.thr[t].fi[r].done}
      ev == EventOf(s, t, i)
      fetched == CtrlFetched(s, t, i, EventFetched(s, t, i, Fenced(s.c, t, FenceBefore(i))))
      known == ThreadSpawned(i, OperandsGiven([s EXCEPT !.c = fetched], t, i, missing))
      thr == IF i.op = "create" THEN Append(s.thr, NewStack(i.to, <<t, ev>>)) ELSE s.thr
  IN  [s EXCEPT
         !.c = Fenced(ExtraGiven(s, t, i, known), t, FenceAfter(i)),
         !.thr = [thr EXCEPT
           ![t].pc = @ + 1,
           ![t].fi = @ @@ pc :> [ev |-> ev, deps |-> DataDeps(s, t, i), val |-> <<0>>, done |-> FALSE,
                                 prevBB |-> s.thr[t].prevBB, missing |-> missing]],
         !.local = IF ev = 0 /\ missing = {} THEN Append(@, pc) ELSE @]

RECURSIVE FetchAll(_, _), FetchMore(_, _, _), CommitInstr(_, _, _), CommitAllLocal(_, _, _)

FetchAll(s, t) ==
  IF s.thr[t].live THEN FetchMore(FetchInstr(s, t), t, StopsFetching(InstrAt(s, t, s.thr[t].pc))) ELSE s
FetchMore(s, t, stop) == IF stop THEN s ELSE FetchAll(s, t)

(* commitAllLocal and commitLocalAndFetchAll.                                 *)
CommitAllLocal(s, t, more) ==
  IF s.local = <<>>
  THEN IF more THEN CommitAllLocal(FetchAll(s, t), t, FALSE) ELSE s
  ELSE LET pc == Last(s.local)
       IN  CommitAllLocal(CommitInstr([s EXCEPT !.local = Front(@)], t, pc), t,
                          more \/ Resumes(InstrAt(s, t, pc)))

(* callPthreadCreate: the new thread waits until its creator has stored that  *)
(* it is running; everything in it comes after that.                          *)
StartsWaiting(c, n) ==
  LET known == RegisterAddr(FetchEvent(c, n, 1, 0, {}, {}), <<n, 1>>, 1, StatusOf(n))
  IN  FetchFence(RegisterLoadRequirement(known, <<n, 1>>, 1, 1), n, "lwsync")
StartThread(s, t, ev) ==
  LET n == CHOOSE q \in DOMAIN s.thr : s.thr[q].create = <<t, ev>>
      s2 == [s EXCEPT !.c = StartsWaiting(@, n), !.thr[n].live = TRUE]
  IN  CommitAllLocal(FetchAll(s2, n), n, FALSE)

(* visitReturnInst of the outermost function, with fetchThreadExit.           *)
ExitThread(s, t) ==
  LET x == <<t, Len(s.c.fch[t]) + 1>>
      c == FetchEvent(FetchFence(s.c, t, "lwsync"), t, 0, 1, {}, {})
  IN  [s EXCEPT !.c = RegisterData(RegisterAddr(c, x, 1, StatusOf(t)), x, 1, 2),
                !.thr[t].live = FALSE]

(* SwitchToNewBasicBlock: phi nodes are fetched like other instructions.      *)
SwitchTo(s, t, pc, dest) == [s EXCEPT !.thr[t].pc = dest, !.thr[t].prevBB = pc]

VisitBr(s, t, pc, i, d) == SwitchTo(s, t, pc, IF d = <<0>> THEN pc + 1 + i.skip ELSE pc + 1)
VisitSwitch(s, t, pc, i, d) ==
  LET hits == {k \in DOMAIN i.cases :
                 PowerICmp([pred |-> "eq", ty |-> i.ty], <<d, i.cases[k].is>>) # <<0>>}
  IN  SwitchTo(s, t, pc, IF hits = {} THEN i.default.pc ELSE i.cases[Min(hits)].to.pc)
VisitIndirectBr(s, t, pc, d) == SwitchTo(s, t, pc, d[1])

VisitWith(s, t, pc, i, d) ==
  CASE i.op = "calc" -> [s EXCEPT !.thr[t].fi[pc].val = Computed(s, t, i)]
    [] i.op = "br" -> VisitBr(s, t, pc, i, d)
    [] i.op = "switch" -> VisitSwitch(s, t, pc, i, d)
    [] i.op = "ibr" -> VisitIndirectBr(s, t, pc, d)
    [] i.op = "assume" /\ d = <<0>> -> [s EXCEPT !.thr[t].live = FALSE]
    [] i.op = "ret" -> ExitThread(s, t)
    [] i.op = "create" -> StartThread(s, t, s.thr[t].fi[pc].ev)
    [] OTHER -> s
Visit1(s, t, pc) ==
  LET i == InstrAt(s, t, pc)
  IN  VisitWith(s, t, pc, i, Operand(s, t, i.d))

(* commit: run the instruction, hand its value to those that wait for it.     *)
Supplied(s, t, pc) ==
  LET waiting == {j \in DOMAIN s.thr[t].fi : pc \in s.thr[t].fi[j].missing}
      Supply(acc, j) ==
        LET i == InstrAt(acc, t, j)
            f == acc.thr[t].fi[j]
            now == {g \in {"a", "d"} \cap DOMAIN i : i[g].r = pc}
        IN  [acc EXCEPT
               !.c = IF f.ev = 0 THEN @ ELSE RegisterAll(acc, t, <<t, f.ev>>, i, now),
               !.thr[t].fi[j].missing = @ \ {pc},
               !.local = IF f.ev = 0 /\ f.missing = {pc} THEN Append(@, j) ELSE @]
  IN  FoldLeft(Supply, s, SetToSortSeq(waiting, <))
CommitInstr(s, t, pc) ==
  Supplied([Visit1(s, t, pc) EXCEPT !.thr[t].fi[pc].done = TRUE], t, pc)

(* run: what follows when the builder has committed event x, with the value   *)
(* it loads.  The first event of a thread but main and the last one of each   *)
(* belong to no instruction.                                                  *)
LoadedBy(s, t, pc, v) ==
  IF InstrAt(s, t, pc).op = "load" THEN [s EXCEPT !.thr[t].fi[pc].val = <<v>>] ELSE s
FetchAfter(s, t, i) == IF IsBranchOp(i) THEN FetchAll(s, t) ELSE s
RunEvent(s, x, v) ==
  LET t == x[1]
      pcs == {pc \in DOMAIN s.thr[t].fi : s.thr[t].fi[pc].ev = x[2]}
      pc == CHOOSE k \in pcs : TRUE
      run == CommitInstr(LoadedBy(s, t, pc, v), t, pc)
  IN  IF pcs = {} THEN s ELSE CommitAllLocal(FetchAfter(run, t, InstrAt(s, t, pc)), t, FALSE)

(* run: before anything is committed.                                         *)
StartRun(code, c) ==
  LET s == [c |-> c, code |-> code, local |-> <<>>,
            thr |-> <<[NewStack(1, NullIid) EXCEPT !.live = TRUE]>>]
  IN  CommitAllLocal(FetchAll(s, 1), 1, FALSE)
===============================================================================
