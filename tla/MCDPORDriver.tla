----------------------------- MODULE MCDPORDriver -----------------------------
(* The programs the trace builders are checked on: those of RegressionTests,  *)
(* and whole families of small ones.                                          *)
EXTENDS RegressionTests, Bitwise

On(progs, modes) ==
  {[prog |-> p, alg |-> md[1], mm |-> md[2]] : p \in progs, md \in modes}
AllModes == {<<"SOURCE", "SC">>, <<"OPTIMAL", "SC">>, <<"SOURCE", "TSO">>}
Source == {<<"SOURCE", "SC">>, <<"SOURCE", "TSO">>}

One(A) == {<<a>> : a \in A}
Two(A) == {<<a, e>> : a, e \in A}

(* Two threads with two accesses each (store buffering, message passing, load *)
(* buffering, 2+2W and all else of that size), and three with less.           *)
Acc == {W(x,1), W(y,1), R(x), R(y)}
Mem2 == {Par(<<>>, o, <<t>>) : o, t \in Two(Acc)}
Mem3 == {Par(<<>>, <<a>>, <<<<e>>, u>>) : a \in {R(x), W(x,1)},
           e \in {R(x), R(y), W(y,1)}, u \in {<<R(y), R(x)>>, <<W(x,1), R(y)>>}}

(* Read-modify-writes, fences and sequentially consistent stores; loads that  *)
(* overlap a buffered store without being covered by it.                      *)
RmwAcc == {Add(x,1), Cas(x,0,2), Cas(x,1,2), R(x), W(x,1)}
RmwMix == {Par(<<>>, <<q>>, <<<<o>>, <<t>>>>) : q, o, t \in RmwAcc}
Sync == {Par(<<>>, <<W(x,1), f, R(y)>>, <<<<W(y,1), g, R(x)>>>>) :
           f, g \in {Fence, Local, X(z,1), Add(z,1), Extern}}
Wide == {Par(<<>>, o, <<<<t>>>>) : o \in Two({W2(x,1), R2(x), W(y,2), R(y)}),
           t \in {W2(x,1), R2(x), W(x,2)}}
Ext == {Par(<<>>, <<Extern, o>>, <<<<t, u>>>>) :
          o \in {R(x), W(y,1)}, t, u \in {R(x), W(y,1), Extern}}

(* Control that depends on what is read; threads that are never joined        *)
(* because an assumption failed; a malloc that may fail.                      *)
Ctl == {<<R(x), Unless(1,1), W(y,1)>>, <<R(y), AssumeIs(1), W(x,1)>>,
        <<W(x,1), R(y), AssumeIs(0), W(y,1)>>, <<W(x,1), Local, Local, R(y)>>}
Control == {Par(<<>>, o \o <<Jn(1)>>, <<t>>) : o, t \in Ctl}
Nondet == {Par(<<>>, o, <<t>>) : o \in Ctl,
             t \in {<<Malloc0, Unless(1,1), W(x,1)>>, <<W(x,1), Malloc0, W(y,1)>>}}
Join == {Par(<<>>, <<o, Jn(2), R(x)>>, <<<<t>>, <<Jn(1), W(y,1)>>>>) :
           o \in {R(x), W(x,1)}, t \in {W(x,1), R(y), W(y,2)}}

(* Critical sections, with and without the lock; trylock.                     *)
Crit == {<<Lk(l), R(x), W(x,1), Ul(l)>>, <<Lk(l), Ul(l)>>, <<R(x), Lk(l), Ul(l)>>,
         <<TL(l), Unless(0,2), W(x,1), Ul(l)>>, <<Lk(l)>>}
Lock2 == {Par(<<MI(l)>>, o, <<t>>) : o, t \in Crit}
Lock3 == {Par(<<MI(l)>>, <<>>, <<<<Lk(l), Ul(l)>>, t, u>>) : t, u \in Crit}

(* One waiter and one who signals; two waiters and a broadcast.               *)
Inits == <<MI(l), CI(cv)>>
Waiter == <<Lk(l), Wt(cv,l), Ul(l)>>
WaitFor == <<Lk(l), R(x), Unless(0,1), Wt(cv,l), Ul(l)>>
Signals == {<<Sg(cv)>>, <<Bc(cv)>>, <<Lk(l), Sg(cv), Ul(l)>>,
            <<Lk(l), W(x,1), Ul(l), Sg(cv)>>}
Cond2 == {Par(Inits, o, <<w>>) : w \in {Waiter, WaitFor}, o \in Signals}
Destroy == {Par(Inits, o \o <<Jn(1), CD(cv), MD(l)>>, <<w>>) :
              o \in {<<Lk(l), Sg(cv), Ul(l)>>, <<Lk(l), W(x,1), Bc(cv), Ul(l)>>},
              w \in {Waiter, WaitFor}}
Cond3 == {Par(Inits, <<Lk(l), W(x,1), Bc(cv), Ul(l)>>, <<w, v>>) :
            w, v \in {Waiter, WaitFor}}

(* Under PSO: stores of one thread to different bytes reach memory in either  *)
(* order.                                                                     *)
StPair == Two({W(x,1), W(y,1)})
Buffers == {Par(<<>>, <<>>, <<o \o <<e>>, t>>) :
              o \in StPair, e \in {W(y,2), R(x)}, t \in Two(Acc)}
PsoSync == {Par(<<>>, <<W(x,1), f, R(y)>>, <<<<W(y,1), g, R(x)>>>>) :
              f, g \in {Fence, Local, X(z,1), Extern}}
PSOSetups ==
  On(Mem2 \cup Mem3 \cup RmwMix \cup PsoSync \cup Buffers \cup Wide \cup Ext \cup Control
     \cup Nondet \cup Join \cup Lock2 \cup Lock3 \cup Destroy \cup Cond2 \cup Cond3,
     {<<"SOURCE", "PSO">>})

(* For RFSC: what it has operations for (no condition variables and no        *)
(* accesses that overlap), by one worker with and without the prefix          *)
(* heuristic, and by two workers.                                             *)
RFSC(progs, ws, hs) ==
  {[prog |-> p, alg |-> "RFSC", mm |-> "SC", workers |-> n, heuristic |-> h] :
     p \in progs, n \in ws, h \in hs}

Shared == {Par(<<>>, <<R(x), R(y)>>, <<<<W(y,1), W(x,1)>>>>),
           Par(<<>>, <<R(x)>>, <<<<W(x,1)>>, <<R(x), W(x,2)>>>>),
           Par(<<>>, <<Add(x,1)>>, <<<<Cas(x,0,2)>>>>),
           Par(<<MI(l)>>, <<Lk(l), Ul(l)>>, <<<<Lk(l), Ul(l)>>>>)}

RFSCSetups ==
  RFSC(Mem2 \cup Mem3 \cup RmwMix \cup Control \cup Join \cup Lock2 \cup Lock3, {1}, {TRUE})
  \cup RFSC(Mem3 \cup RmwMix \cup Lock2, {1}, {FALSE})
  \cup RFSC(Shared, {2}, {TRUE})

(* Under POWER and ARM: instructions with operands.  Two accesses of a thread *)
(* are connected by program order, a fence, or a dependency; n instructions   *)
(* come before them.                                                          *)
Rd(a) == <<"R", a, 0>>
Wr(a, v) == <<"W", a, v>>
Pair(n, d, conn, e) ==
  <<PAcc(d)>> \o
  CASE conn = "po"       -> <<PAcc(e)>>
    [] conn = "addr"     -> <<Zero(e[2], n + 1), PAccAt(e, Reg(n + 2))>>
    [] conn = "data"     -> <<Zero(e[3], n + 1), PSt(Reg(n + 2), Const(e[2]))>>
    [] conn = "ctrl"     -> <<PBr(n + 1, 0), PAcc(e)>>
    [] conn = "isync"    -> <<PBr(n + 1, 0), PFence("isync"), PAcc(e)>>
    [] OTHER             -> <<PFence(conn), PAcc(e)>>
Conns(d, e) ==
  {"po", "sync", "lwsync"} \cup (IF d[1] = "W" THEN {"eieio"} ELSE {"addr", "ctrl", "isync"})
  \cup (IF d[1] = "R" /\ e[1] = "W" THEN {"data"} ELSE {})
Litmus(d, e, f, g) ==
  {PPar(<<>>, Pair(1, d, c1, e), <<Pair(0, f, c2, g)>>) : c1 \in Conns(d, e), c2 \in Conns(f, g)}

(* Message passing, load buffering; store buffering, S, R, 2+2W.              *)
Herd1 == Litmus(Wr(x,1), Wr(y,1), Rd(y), Rd(x)) \cup Litmus(Rd(x), Wr(y,1), Rd(y), Wr(x,1))
Herd2 == Litmus(Wr(x,1), Rd(y), Wr(y,1), Rd(x)) \cup Litmus(Wr(x,2), Wr(y,1), Rd(y), Wr(x,1))
         \cup Litmus(Wr(x,1), Wr(y,1), Wr(y,2), Rd(x)) \cup Litmus(Wr(x,1), Wr(y,2), Wr(y,1), Wr(x,2))

(* One location; a load before one that a detour or a re-read orders.         *)
Coherence ==
  {PPar(<<>>, Pair(1, d, "po", e), <<Pair(0, f, "po", g)>>) :
     d, f \in {Rd(x), Wr(x,1)}, e \in {Rd(x), Wr(x,3)}, g \in {Rd(x), Wr(x,2)}}
Rereads ==
  {PPar(<<>>, <<PSt(Const(1), Const(y)), PFence("sync"), PSt(Const(1), Const(x))>>,
        <<<<PLd(Const(x)), PLd(Const(x)), Zero(y, 2), PLd(Reg(3))>>>>),
   PPar(<<>>, <<PSt(Const(1), Const(y)), PFence("lwsync"), PSt(Const(2), Const(x))>>,
        <<<<PSt(Const(1), Const(x)), PLd(Const(x)), Zero(y, 2), PLd(Reg(3))>>, <<PSt(Const(3), Const(x))>>>>),
   PPar(<<>>, <<PSt(Const(1), Const(y)), PFence("lwsync"), PSt(Const(1), Const(x))>>,
        <<<<PLd(Const(z)), Zero(x, 1), PLd(Reg(2)), PLd(Const(x)), Zero(y, 4), PLd(Reg(5))>>>>)}

(* Three threads: what a fence or a dependency says of other threads' stores. *)
Chains ==
  {PPar(<<>>, <<PAcc(Wr(x,1))>>, <<Pair(0, Rd(x), c1, Wr(y,1)), Pair(0, Rd(y), c2, Rd(x))>>) :
     c1 \in {"data", "lwsync"}, c2 \in {"po", "addr", "isync"}}
  \cup {PPar(<<>>, Pair(2, Wr(x,1), c0, Wr(y,1)), <<Pair(0, Rd(y), "data", Wr(z,1)), Pair(0, Rd(z), c2, Rd(x))>>) :
           c0 \in {"lwsync", "eieio"}, c2 \in {"po", "addr"}}
  \cup {PPar(<<>>, Pair(2, Rd(x), "addr", Rd(y)),
              <<Pair(0, Rd(y), c2, Rd(x)), <<PAcc(Wr(x,1)), PAcc(Wr(y,1))>>>>) : c2 \in {"addr", "sync"}}

(* Values that are computed and branched on, assumptions, joins and locks.    *)
PControl ==
  {PPar(<<>>, <<PLd(Const(x)), PAssume(2), PSt(Const(1), Const(y))>>, <<<<PLd(Const(y)), PSt(Const(1), Const(x))>>>>),
   PPar(<<>>, <<PLd(Const(x)), PAssume(2), PLd(Const(y))>>,
        <<<<PSt(Const(1), Const(y)), PFence("lwsync"), PSt(Const(1), Const(x))>>>>),
   PPar(<<>>, <<PLd(Const(x)), PBr(2, 1), PSt(Const(1), Const(y)), PLd(Const(y))>>,
        <<<<PLd(Const(y)), PlusOne(1), PSt(Reg(2), Const(x))>>>>),
   PPar(<<>>, <<PSt(Const(1), Const(x)), PJn(2), PLd(Const(x))>>, <<<<PSt(Const(2), Const(x))>>>>)}
PLocks ==
  {PPar(<<PMI>>, <<PLk, PLd(Const(x)), PUl>>, <<<<PLk, PSt(Const(2), Const(x)), PUl>>>>),
   PPar(<<PMI>>, <<PSt(Const(1), Const(y)), PLk, PLd(Const(x))>>, <<<<PSt(Const(1), Const(x)), PLk, PUl>>>>)}

(* ---------------------- instructions without memory ----------------------- *)

(* Programs of one thread that check what instructions compute.  A check has  *)
(* the instructions it runs, whose registers count from its first one, and    *)
(* the lanes that the last of them should give: these are compared, the bits  *)
(* of the outcome put together, and anything but all ones leads to a failed   *)
(* assertion at the end of the program.                                       *)
IntTy(n) == [kind |-> "int", w |-> n]
FloatTy == [kind |-> "float", w |-> 64]
CalcOf(f, ty, args) == [op |-> "calc", f |-> f, ty |-> ty, args |-> args]
Cast(f, ty, to, arg) ==
  [op |-> "calc", f |-> f, ty |-> ty, to |-> to, little |-> TRUE, args |-> <<arg>>]
Cmp(f, pred, ty, args) == [op |-> "calc", f |-> f, pred |-> pred, ty |-> ty, args |-> args]
Block(n) == [pc |-> n, phis |-> <<>>]
Goto(to) == [op |-> "switch", d |-> Const(0), ty |-> IntTy(1), cases |-> <<>>, default |-> to]

Moved(i, by) ==
  [i EXCEPT !.args = [k \in DOMAIN @ |-> IF @[k].r > 0 THEN [@[k] EXCEPT !.r = @ + by] ELSE @[k]]]
Placed(check, at, ty, fail) ==
  LET n == Len(check.steps)
      w == Len(check.want)
  IN  [k \in 1 .. n |-> Moved(check.steps[k], at)]
      \o <<Cmp("icmp", "eq", ty, <<Reg(at + n), Lanes(check.want)>>),
           Cast("bitcast", IntTy(1), IntTy(w), Reg(at + n + 1)),
           [op |-> "switch", d |-> Reg(at + n + 2), ty |-> IntTy(w),
            cases |-> <<[is |-> <<2^w - 1>>, to |-> Block(at + n + 4)]>>, default |-> Block(fail)]>>
ChecksCode(checks, fail) ==
  LET size == FoldLeft(LAMBDA acc, c : acc + Len(c.steps) + 3, 0, checks)
  IN  FoldLeft(LAMBDA acc, c : acc \o Placed(c, Len(acc), IntTy(8), size + 2), <<>>, checks)
      \o <<Goto(Block(size + 3)), fail>>

Check(steps, want) == [steps |-> steps, want |-> want]

(* All pairs of some values of 4 bits, the second not 0 for a division.       *)
Vals4 == <<0, 1, 7, 8, 15>>
PairsWith(bs) == Len(Vals4) * Len(bs)
As(bs) == [k \in 1 .. PairsWith(bs) |-> Vals4[((k - 1) \div Len(bs)) + 1]]
Bs(bs) == [k \in 1 .. PairsWith(bs) |-> bs[((k - 1) % Len(bs)) + 1]]
NonZero == Tail(Vals4)
Amounts == <<0, 1, 2, 3>>
On4(i, bs, want(_, _)) ==
  Check(<<[i EXCEPT !.args = <<Lanes(As(bs)), Lanes(Bs(bs))>>]>>,
        [k \in 1 .. PairsWith(bs) |-> want(As(bs)[k], Bs(bs)[k])])
Op4(f, bs, want(_, _)) == On4(CalcOf(f, IntTy(4), <<>>), bs, want)
Cmp4(pred, want(_, _)) ==
  On4(Cmp("icmp", pred, IntTy(4), <<>>), Vals4, LAMBDA a, e : AsBit(want(a, e)))

(* Signed numbers in the order of their bits with the sign bit inverted.      *)
Rank(a) == (a + 8) % 16
Of4(a) == Rank(a) - 8
ICmpChecks ==
  <<Cmp4("eq", =), Cmp4("ne", #), Cmp4("ult", <), Cmp4("ule", <=), Cmp4("ugt", >),
    Cmp4("uge", >=),
    Cmp4("slt", LAMBDA a, e : Rank(a) < Rank(e)), Cmp4("sle", LAMBDA a, e : Rank(a) <= Rank(e)),
    Cmp4("sgt", LAMBDA a, e : Rank(a) > Rank(e)), Cmp4("sge", LAMBDA a, e : Rank(a) >= Rank(e))>>

(* A quotient rounds to zero; the remainder has the sign of the dividend.     *)
Divides(a, e, q, r) == a = q * e + r /\ Abs(r) < Abs(e) /\ r * a >= 0
SDiv(a, e) == CHOOSE q \in -8 .. 8 : \E r \in -8 .. 8 : Divides(Of4(a), Of4(e), q, r)
SRem(a, e) == CHOOSE r \in -8 .. 8 : \E q \in -8 .. 8 : Divides(Of4(a), Of4(e), q, r)
BinaryChecks ==
  <<Op4("add", Vals4, LAMBDA a, e : CHOOSE c \in 0 .. 15 : (c - a - e) % 16 = 0),
    Op4("sub", Vals4, LAMBDA a, e : CHOOSE c \in 0 .. 15 : (c + e - a) % 16 = 0),
    Op4("mul", Vals4, LAMBDA a, e : CHOOSE c \in 0 .. 15 : (c - a * e) % 16 = 0),
    Op4("udiv", NonZero, LAMBDA a, e : CHOOSE q \in 0 .. 15 : \E r \in 0 .. 15 : a = q * e + r /\ r < e),
    Op4("urem", NonZero, LAMBDA a, e : CHOOSE r \in 0 .. 15 : \E q \in 0 .. 15 : a = q * e + r /\ r < e),
    Op4("sdiv", NonZero, LAMBDA a, e : SDiv(a, e) % 16),
    Op4("srem", NonZero, LAMBDA a, e : SRem(a, e) % 16),
    Op4("and", Vals4, &), Op4("or", Vals4, |), Op4("xor", Vals4, ^^),
    Op4("shl", Amounts, LAMBDA a, n : (a * 2^n) % 16),
    Op4("lshr", Amounts, shiftR),
    Op4("ashr", Amounts, LAMBDA a, n : CHOOSE c \in 0 .. 15 :
          Of4(c) * 2^n <= Of4(a) /\ Of4(a) < (Of4(c) + 1) * 2^n)>>

(* The predicates in the order of their numbers in LLVM, the bits of which    *)
(* say whether it holds of equal, greater, less and unordered operands.       *)
FPredicates == <<"false", "oeq", "ogt", "oge", "olt", "ole", "one", "ord",
                 "uno", "ueq", "ugt", "uge", "ult", "ule", "une", "true">>
RelationBit(a, e) ==
  CASE a.nan \/ e.nan -> 8 [] a.val < e.val -> 4 [] a.val > e.val -> 2 [] OTHER -> 1
FVals == <<Num(0), Num(1), Num(-2), NaN>>
FAs == [k \in 1 .. 16 |-> FVals[((k - 1) \div 4) + 1]]
FBs == [k \in 1 .. 16 |-> FVals[((k - 1) % 4) + 1]]
FCmpChecks ==
  [p \in 1 .. 16 |->
     Check(<<Cmp("fcmp", FPredicates[p], FloatTy, <<Lanes(FAs), Lanes(FBs)>>)>>,
           [k \in 1 .. 16 |-> AsBit((p - 1) & RelationBit(FAs[k], FBs[k]) # 0)])]

(* Arithmetic on numbers that 8 bits hold; what comes of a NaN is none.       *)
FloatOp(f, want(_, _)) ==
  Check(<<CalcOf(f, FloatTy, <<Lanes(<<Num(5), Num(-5), Num(7)>>), Lanes(<<Num(3), Num(3), Num(-2)>>)>>),
          Cast("fptrunc", FloatTy, FloatTy, Reg(1)), Cast("fpext", FloatTy, FloatTy, Reg(2)),
          Cast("fptosi", FloatTy, IntTy(8), Reg(3))>>,
        <<want(5, 3) % 256, want(-5, 3) % 256, want(7, -2) % 256>>)
FloatChecks ==
  <<FloatOp("fadd", +), FloatOp("fsub", -), FloatOp("fmul", *),
    FloatOp("frem", LAMBDA a, e : CHOOSE r \in -9 .. 9 : \E q \in -9 .. 9 : Divides(a, e, q, r)),
    Check(<<CalcOf("fadd", FloatTy, <<Lanes(FAs), Lanes(FBs)>>),
            Cmp("fcmp", "uno", FloatTy, <<Reg(1), Lanes(FAs)>>)>>,
          [k \in 1 .. 16 |-> AsBit(NaN \in {FAs[k], FBs[k]})])>>

(* Casts there and back, and to the bits they should have.                    *)
All4 == [k \in 1 .. 16 |-> k - 1]
Mid8 == <<0, 7, 8, 127, 128, 200, 255>>
CastChecks ==
  <<Check(<<Cast("sext", IntTy(4), IntTy(8), Lanes(All4))>>, [k \in 1 .. 16 |-> Of4(k - 1) % 256]),
    Check(<<Cast("zext", IntTy(4), IntTy(8), Lanes(All4)), Cast("trunc", IntTy(8), IntTy(4), Reg(1))>>, All4),
    Check(<<Cast("trunc", IntTy(8), IntTy(4), Lanes(Mid8))>>, <<0, 7, 8, 15, 0, 8, 15>>),
    Check(<<Cast("sitofp", IntTy(4), FloatTy, Lanes(All4)), Cast("fptosi", FloatTy, IntTy(8), Reg(1))>>,
          [k \in 1 .. 16 |-> Of4(k - 1) % 256]),
    Check(<<Cast("uitofp", IntTy(4), FloatTy, Lanes(All4)), Cast("fptoui", FloatTy, IntTy(8), Reg(1))>>, All4),
    Check(<<Cast("inttoptr", IntTy(8), IntTy(16), Const(200)), Cast("ptrtoint", IntTy(16), IntTy(8), Reg(1))>>, <<200>>),
    Check(<<Cast("bitcast", IntTy(4), IntTy(8), Lanes(<<1, 2, 3, 4>>))>>, <<33, 67>>),
    Check(<<Cast("bitcast", IntTy(8), IntTy(4), Lanes(<<33, 67>>))>>, <<1, 2, 3, 4>>),
    Check(<<[Cast("bitcast", IntTy(4), IntTy(8), Lanes(<<1, 2, 3, 4>>)) EXCEPT !.little = FALSE]>>, <<18, 52>>),
    Check(<<[Cast("bitcast", IntTy(8), IntTy(4), Lanes(<<18, 52>>)) EXCEPT !.little = FALSE]>>, <<1, 2, 3, 4>>)>>

(* Vectors and structs; operands that are constant expressions.               *)
Expr(i) == [r |-> 0] @@ [i EXCEPT !.args = [k \in DOMAIN @ |-> @[k].c]]
Struct == Lanes(<< <<1>>, << <<2>>, <<3, 4>> >> >>)
VectorChecks ==
  <<Check(<<CalcOf("extractelement", IntTy(8), <<Lanes(<<5, 6, 7>>), Const(2)>>)>>, <<7>>),
    Check(<<CalcOf("insertelement", IntTy(8), <<Lanes(<<5, 6, 7>>), Const(9), Const(1)>>)>>, <<5, 9, 7>>),
    Check(<<CalcOf("shufflevector", IntTy(8), <<Lanes(<<5, 6>>), Lanes(<<7, 8>>), Lanes(<<3, 0, 2>>)>>)>>, <<8, 5, 7>>),
    Check(<<CalcOf("select", IntTy(8), <<Lanes(<<1, 0>>), Lanes(<<5, 6>>), Lanes(<<7, 8>>)>>)>>, <<5, 8>>),
    Check(<<CalcOf("select", IntTy(8), <<Const(0), Lanes(<<5, 6>>), Lanes(<<7, 8>>)>>)>>, <<7, 8>>),
    Check(<<[path |-> <<1, 1>>] @@ CalcOf("insertvalue", IntTy(8), <<Struct, Lanes(<<8, 9>>)>>),
            [path |-> <<1>>] @@ CalcOf("extractvalue", IntTy(8), <<Reg(1)>>),
            [path |-> <<1>>] @@ CalcOf("extractvalue", IntTy(8), <<Reg(2)>>)>>, <<8, 9>>),
    Check(<<CalcOf("add", IntTy(8), <<Expr(CalcOf("shl", IntTy(8), <<Const(3), Const(2)>>)),
                                     Expr(Cast("sext", IntTy(4), IntTy(8), Const(15)))>>)>>, <<11>>),
    Check(<<CalcOf("select", IntTy(8), <<Expr(Cmp("fcmp", "ult", FloatTy, <<Lanes(<<NaN>>), Lanes(<<Num(1)>>)>>)),
                                        Expr(CalcOf("mul", IntTy(8), <<Const(3), Const(7)>>)),
                                        Expr(Cmp("icmp", "slt", IntTy(8), <<Const(1), Const(2)>>))>>)>>, <<21>>),
    Check(<<Cast("fptosi", FloatTy, IntTy(8), Expr(CalcOf("fmul", FloatTy, <<Lanes(<<Num(3)>>), Lanes(<<Num(7)>>)>>)))>>, <<21>>),
    Check(<<CalcOf("add", IntTy(8), <<Expr(CalcOf("select", IntTy(8), <<Const(0), Const(1), Const(2)>>)), Const(3)>>)>>, <<5>>)>>

CheckLists == {ICmpChecks, BinaryChecks, FCmpChecks, FloatChecks, CastChecks, VectorChecks}
Computes(checks) == Counts(Checked(Par(<<>>, ChecksCode(checks, Fail), <<>>)), 1)
PComputes(checks) == Counts(PPar(<<>>, ChecksCode(checks, PFail), <<>>), 1)

(* Read-modify-writes: old value, operation, operand and what memory has then. *)
RmwPairs == <<<<128, 1>>, <<127, 255>>, <<5, 3>>, <<200, 100>>>>
Rank8(a) == (a + 128) % 256
RmwWant(f, a, e) ==
  CASE f = "xchg" -> e [] f = "add" -> (a + e) % 256 [] f = "sub" -> (a - e) % 256
    [] f = "and" -> a & e [] f = "or" -> a | e [] f = "xor" -> a ^^ e [] f = "nand" -> 255 - (a & e)
    [] f = "umax" -> IF a < e THEN e ELSE a [] f = "umin" -> IF a < e THEN a ELSE e
    [] f = "max" -> IF Rank8(a) < Rank8(e) THEN e ELSE a [] f = "min" -> IF Rank8(a) < Rank8(e) THEN a ELSE e
RmwCode(f) ==
  LET n == Len(RmwPairs)
      one(k) == LET p == RmwPairs[k]
                IN  <<X(x, p[1]), Rmw(f, x, p[2]), R(x),
                      [op |-> "switch", d |-> [r |-> Loaded], ty |-> IntTy(8),
                       cases |-> <<[is |-> <<RmwWant(f, p[1], p[2])>>, to |-> Block(4 * k + 1)]>>,
                       default |-> Block(4 * n + 2)]>>
  IN  FoldLeft(LAMBDA acc, k : acc \o one(k), <<>>, [k \in 1 .. n |-> k])
      \o <<Goto(Block(4 * n + 3)), Fail>>
RmwOps == {"xchg", "add", "sub", "and", "nand", "or", "xor", "max", "min", "umax", "umin"}
RmwComputes == {Counts(Checked(Par(<<>>, RmwCode(f), <<>>)), 1) : f \in RmwOps}

(* Phi nodes: two values change places; the one of the block that is left.    *)
Swap ==
  LET is(r, v, n) == [op |-> "switch", d |-> Reg(r), ty |-> IntTy(8),
                      cases |-> <<[is |-> <<v>>, to |-> Block(n)]>>, default |-> Block(7)]
  IN  <<CalcOf("add", IntTy(8), <<Const(1), Const(1)>>), CalcOf("add", IntTy(8), <<Const(2), Const(1)>>),
        [op |-> "ibr", d |-> Const(4),
         blocks |-> {Block(7), [pc |-> 4, phis |-> 1 :> Reg(2) @@ 2 :> Reg(1)]}],
        is(1, 3, 5), is(2, 2, 6), Goto(Block(8)), Fail>>
Incoming2 ==
  <<PLd(Const(x)),
    [op |-> "switch", d |-> Reg(1), ty |-> IntTy(8), cases |-> <<[is |-> <<0>>, to |-> Block(4)]>>, default |-> Block(3)],
    [op |-> "ibr", d |-> Const(4)],
    [op |-> "phi", incoming |-> 2 :> Const(5) @@ 3 :> Reg(1)], PSt(Reg(4), Const(y))>>

RSMC == {<<"RSMC", "POWER">>, <<"RSMC", "ARM">>}
POWERSetups == On(Herd1 \cup Coherence \cup PControl, RSMC)
               \cup On(Herd2 \cup Rereads \cup Chains \cup PLocks, {<<"RSMC", "POWER">>})

ComputeSetups ==
  Suite({Computes(c) : c \in CheckLists}, "SOURCE", "SC")
  \cup Suite({PComputes(c) : c \in CheckLists}, "RSMC", "POWER")
  \cup Suite(RmwComputes, "SOURCE", "SC") \cup Suite(RmwComputes, "SOURCE", "PSO")
  \cup Suite({Counts(Checked(Par(<<>>, Swap, <<>>)), 1)}, "SOURCE", "TSO")
  \cup Suite({Counts(PPar(<<>>, <<PStX(3)>>, <<Incoming2>>), 2)}, "RSMC", "POWER")

MCSetups ==
  On(Mem2 \cup Mem3 \cup RmwMix \cup Sync \cup Wide \cup Ext \cup Control \cup Join
     \cup Lock2 \cup Lock3 \cup Destroy \cup Cond2 \cup Cond3, AllModes)
  \cup On(Nondet, Source) \cup PSOSetups \cup RFSCSetups \cup POWERSetups \cup TestSetups
  \cup ComputeSetups

(* A sequentially consistent store and a buffered one by the thread before.   *)
MissingSetups ==
  On({Par(<<>>, <<W(x,1)>>, <<<<X(x,2)>>>>)}, {<<"SOURCE", "TSO">>})

(* A read-modify-write behind a write of its own thread.                      *)
OwnWriteSetups ==
  RFSC({Par(<<>>, <<R(x), W(x,2)>>, <<<<W(x,1), Add(x,1)>>>>)}, {1}, {TRUE})

(* Not run: a signal nobody waits for any more comes between the wake-up of a *)
(* waiter and its reacquiring the mutex; EveryExecution fails for it, too.    *)
AwakeSetups ==
  On({Par(Inits, <<Lk(l), Sg(cv), Ul(l)>>, <<Waiter, <<Lk(l), Bc(cv), Ul(l)>>>>)},
     {<<"SOURCE", "SC">>})

(* Not run: what the builder for PSO gets wrong.  A wide store is flushed and *)
(* the auxiliary thread of its first byte taken off duty, though a narrower   *)
(* store waits there: NoLostWakeup fails.  A read-modify-write is reversed    *)
(* with an earlier one before its thread's buffers are empty: AssertionsHold  *)
(* fails.                                                                     *)
OffDutySetups ==
  On({Par(<<>>, <<W2(x,1), W(x,2), f, R(z)>>, <<<<W(z,1), g, R(x)>>>>) :
        f, g \in {Local, Fence}}, {<<"SOURCE", "PSO">>})
EarlySetups ==
  On({Par(<<>>, <<W(x,1), Add(z,1), R(y)>>, <<<<W(y,1), X(z,1), R(x)>>>>)},
     {<<"SOURCE", "PSO">>})

(* Not run: what the builder for POWER gets wrong.  A load between a load and *)
(* an access whose address depends on it takes the place of that dependency   *)
(* before a later store: EveryExecution fails, as an execution is run that    *)
(* the axioms forbid.  A fence that is not there counts as one that all later *)
(* accesses are past, so eieio orders a store before a load: AssertionsHold   *)
(* fails.                                                                     *)
AddrPoSetups ==
  On({PPar(<<>>, Pair(1, Wr(x,2), "lwsync", Wr(y,1)),
           <<<<PLd(Const(y)), PLd(Const(z)), Zero(z, 1), PLd(Reg(3)), PSt(Const(1), Const(x))>>>>)},
     {<<"RSMC", "POWER">>})
NoFenceSetups ==
  On({PPar(<<>>, <<PLd(Const(z)), Zero(1, 2), PSt(Reg(3), Const(x)), PFence("eieio")>>
                 \o Pair(5, Rd(y), "data", Wr(4, 1)),
           <<Pair(0, Rd(4), "data", Wr(z, 1))>>)}, {<<"RSMC", "POWER">>})
===============================================================================
