---------------------------- MODULE RegressionTests ----------------------------
(* The test programs of src/src/SC_test2.cpp, TSO_test2.cpp, PSO_test2.cpp,   *)
(* POWER_test2.cpp and ARM_test2.cpp, as programs of the machines of          *)
(* TSOMachine, PSOMachine and POWERExecution, with what each of them expects: *)
(* how many executions are run and, where the test says so, which orders of   *)
(* events tell them apart.  Left out are tests of errors and of detected      *)
(* nondeterminism, tests with accesses that overlap under POWER and ARM, and  *)
(* programs with pointers to chosen places.                                   *)
EXTENDS DPORDriver

(* ------------------------------ instructions ------------------------------ *)

L(a) == [addr |-> a, size |-> 1]
W(a, v) == [op |-> "store", ml |-> L(a), val |-> v]
R(a) == [op |-> "load", ml |-> L(a)]
W2(a, v) == [op |-> "store", ml |-> [addr |-> a, size |-> 2], val |-> v]
R2(a) == [op |-> "load", ml |-> [addr |-> a, size |-> 2]]
X(a, v) == [op |-> "xstore", ml |-> L(a), val |-> v]
Rmw(f, a, v) == [op |-> "rmw", rmw |-> f, ml |-> L(a), val |-> v]
Add(a, v) == Rmw("add", a, v)
Cas(a, e, v) == [op |-> "cas", ml |-> L(a), exp |-> e, val |-> v]
Fence == [op |-> "fence"]
Extern == [op |-> "extern"]
Local == [op |-> "local"]
Malloc0 == [op |-> "malloc"]
AssumeIs(v) == [op |-> "assume", reg |-> <<v>>]
Unless(v, n) == [op |-> "branch", reg |-> <<v>>, skip |-> n]
Sp(t) == [op |-> "spawn", to |-> t]
Jn(t) == [op |-> "join", to |-> t]
MI(a) == [op |-> "minit", mutex |-> a]
Lk(a) == [op |-> "lock", mutex |-> a]
TL(a) == [op |-> "trylock", mutex |-> a]
Ul(a) == [op |-> "unlock", mutex |-> a]
CI(c) == [op |-> "cinit", cond |-> c]
Wt(c, a) == [op |-> "wait", cond |-> c, mutex |-> a]
Sg(c) == [op |-> "signal", cond |-> c]
MD(a) == [op |-> "mdestroy", mutex |-> a]
CD(c) == [op |-> "cdestroy", cond |-> c]
Bc(c) == [op |-> "bcast", cond |-> c]

x == 1
y == 2
z == 3
l == 11
cv == 21

Prog(code) ==
  [code |-> code, bytes |-> {x, y, z},
   mutexes |-> {l}, conds |-> {cv}]

(* main initialises, spawns the others and runs `own`. *)
Main(init, n, own) == init \o [t \in 1..n |-> Sp(t)] \o own
Par(init, own, ths) == Prog(<<Main(init, Len(ths), own)>> \o ths)

Int8 == [kind |-> "int", w |-> 8]
Lanes(v) == [r |-> 0, c |-> v]
Const(c) == Lanes(<<c>>)
Reg(r) == [r |-> r, c |-> <<0>>]
PLd(a) == [op |-> "load", a |-> a]
PSt(d, a) == [op |-> "store", d |-> d, a |-> a]
PAcc(e) == IF e[1] = "R" THEN PLd(Const(e[2])) ELSE PSt(Const(e[3]), Const(e[2]))
PAccAt(e, a) == IF e[1] = "R" THEN PLd(a) ELSE PSt(Const(e[3]), a)
Calc(f, args) == [op |-> "calc", f |-> f, ty |-> Int8, args |-> args]
Zero(c, r) == Calc("select", <<Reg(r), Const(c), Const(c)>>)  \* c, and depends on r
PlusOne(r) == Calc("add", <<Reg(r), Const(1)>>)
PBr(r, n) == [op |-> "br", d |-> Reg(r), skip |-> n]
PAssume(r) == [op |-> "assume", d |-> Reg(r)]
PFence(k) == [op |-> "fence", kind |-> k]
PJn(t) == [op |-> "join", a |-> Const(t)]
PLk == [op |-> "lock", a |-> Const(l)]
PUl == [op |-> "unlock", a |-> Const(l)]
PMI == [op |-> "minit", a |-> Const(l)]
PCr(t) == [op |-> "create", to |-> t, a |-> Const(200 + t)]
PPar(init, own, ths) ==
  [code |-> <<init \o [t \in 1..Len(ths) |-> PCr(t + 1)] \o own>> \o ths]

(* A test: its program, how many executions it has, and for each of them what *)
(* happens before what (nothing, when the test only counts).                  *)
Counts(prog, n) == [prog |-> prog, tested |-> [traces |-> n, orders |-> {}]]
Orders(prog, specs) ==
  [prog |-> prog, tested |-> [traces |-> Cardinality(specs), orders |-> specs]]

(* __assert_fail, which no execution of these tests may reach.                *)
err == 9
Fail == X(err, 1)
PFail == PSt(Const(1), Const(err))
Checked(prog) == [prog EXCEPT !.bytes = @ \cup {err}]

(* -------------------------- what a test expects --------------------------- *)

(* check_trace: one event comes before another.  Accesses to a byte are       *)
(* placed by the store they write or read from, operations on a mutex by the  *)
(* order of its log; a wait comes before the signal that ends it, and after   *)
(* all other signals.                                                         *)
TimesAt(log, byte, e) ==
  {2 * k : k \in {i \in DOMAIN log.co[byte] : log.co[byte][i] = e}}
  \cup {2 * PlaceOf(log.co[byte], r[3]) + 1 : r \in {s \in log.rf : s[1] = e /\ s[2] = byte}}

LogHas(log, e) == \E a \in DOMAIN log.lock : e \in Range(log.lock[a])
IsSignal(prog, e) == e[2] > 0 /\ prog.code[e[1] + 1][e[2]].op \in {"signal", "bcast"}
Resumed(e) == <<e[1], e[2] + 1>>       \* where a wait goes on
ComesBefore(prog, log, e, f) ==
  \/ \E byte \in DOMAIN log.co :
       \E i \in TimesAt(log, byte, e), j \in TimesAt(log, byte, f) : i < j
  \/ \E a \in DOMAIN log.lock : \E i, j \in DOMAIN log.lock[a] :
       i < j /\ log.lock[a][i] = e /\ log.lock[a][j] = f
  \/ <<f, Resumed(e)>> \in log.woke
  \/ IsSignal(prog, e) /\ LogHas(log, f) /\ <<e, Resumed(f)>> \notin log.woke

Satisfies(log, spec) == \A p \in spec : ComesBefore(setup.prog, log, p[1], p[2])

Failed(log) ==
  IF setup.alg = "RSMC" THEN \E p \in log.co : p[1] = err ELSE log.co[err] # <<>>

(***************************************************************************)
(* The regression tests pass (check_all_traces of DPORDriver_test.cpp, and *)
(* the counts the tests state): as many executions are run as the test     *)
(* expects, none of them fails an assertion of the program, and they are   *)
(* in one-to-one correspondence with the orders the test tells apart.      *)
(***************************************************************************)
TestsPass ==
  pc = "done" /\ "tested" \in DOMAIN setup =>
    LET logs == {traces[k].log : k \in Unblocked}
        specs == setup.tested.orders
    IN  /\ Cardinality(Unblocked) = setup.tested.traces
        /\ \A log \in logs : ~Failed(log)
        /\ specs # {} => /\ \A s \in specs : \E log \in logs : Satisfies(log, s)
                         /\ \A log \in logs : Cardinality({s \in specs : Satisfies(log, s)}) = 1

(* -------------------------------- SC_test2 -------------------------------- *)

SC_Thread_local_1 ==
  Counts(Checked(Par(<<>>, <<>>, <<<<Local>>, <<Local>>, <<Local>>>>)), 1)

(* The compare-and-exchange, the load and the store of CAS_load and of        *)
(* CAS_tricky: one that fails does not conflict with the load.                *)
FailingCas(cas, r, w) ==
  {{<<cas, w>>, <<r, w>>}, {<<cas, w>>, <<w, r>>}, {<<w, cas>>, <<r, w>>},
   {<<w, cas>>, <<w, r>>, <<r, cas>>}, {<<w, cas>>, <<cas, r>>}}
SC_CAS_load ==
  Orders(Checked(Par(<<>>, <<Cas(x, 1, 2)>>, <<<<R(x)>>, <<W(x, 1)>>>>)),
         FailingCas(<<0, 3>>, <<1, 1>>, <<2, 1>>))
SC_CAS_tricky ==
  Orders(Checked(Par(<<>>, <<W(x, 1)>>, <<<<R(x)>>, <<Cas(x, 1, 2)>>>>)),
         FailingCas(<<2, 1>>, <<1, 1>>, <<0, 3>>))

(* A compiler fence is no instruction of the machine.                         *)
Dekker == Checked(Par(<<>>, <<W(x, 1), Local, R(y)>>, <<<<W(y, 1), Local, R(x)>>>>))
SC_Compiler_fence_dekker == Counts(Dekker, 3)

SC_Pthread_t_pointer_1 ==
  Counts(Checked(Par(<<>>, <<Local, Jn(1), R(x)>>, <<<<W(x, 1)>>>>)), 1)
SC_Pthread_t_pointer_2 ==
  Counts(Checked(Par(<<>>, <<R(x)>>, <<<<Jn(0), W(x, 1)>>>>)), 1)
SC_pthread_join_invoke ==
  Counts(Checked(Par(<<>>, <<Local, Jn(1), R(x), Unless(0, 1), Fail>>, <<<<W(x, 1)>>>>)), 1)

SCTests ==
  {SC_Thread_local_1, SC_CAS_load, SC_CAS_tricky, SC_Compiler_fence_dekker,
   SC_Pthread_t_pointer_1, SC_Pthread_t_pointer_2, SC_pthread_join_invoke}

(* -------------------------------- TSO_test2 ------------------------------- *)

TryAndWrite ==
  <<TL(l), Unless(0, 5), W(x, 1), W(x, 1), W(x, 1), W(x, 1), Ul(l)>>
TSO_Mutex_trylock_1 ==
  LET lck0 == <<0, 3>>  ulck0 == <<0, 9>>  lck1 == <<1, 1>>  ulck1 == <<1, 7>>
  IN  Orders(Checked(Par(<<MI(l)>>, TryAndWrite, <<TryAndWrite>>)),
             {{<<ulck0, lck1>>}, {<<lck0, lck1>>, <<lck1, ulck0>>},
              {<<ulck1, lck0>>}, {<<lck1, lck0>>, <<lck0, ulck1>>}})

TSO_Mutex_trylock_2 ==
  LET lck1 == <<1, 1>>  ulck1 == <<1, 2>>  lck2 == <<3, 1>>  ulck2 == <<3, 2>>
      tlck == <<2, 1>>  tulck == <<2, 3>>
  IN  Orders(Checked(Par(<<MI(l)>>, <<>>,
                         <<<<Lk(l), Ul(l)>>, <<TL(l), Unless(0, 1), Ul(l)>>, <<Lk(l), Ul(l)>>>>)),
             {{<<ulck1, lck2>>, <<ulck2, tlck>>},
              {<<ulck1, lck2>>, <<lck2, tlck>>, <<tlck, ulck2>>},
              {<<ulck1, tlck>>, <<tulck, lck2>>},
              {<<lck1, tlck>>, <<tlck, ulck1>>, <<ulck1, lck2>>},
              {<<tulck, lck1>>, <<ulck1, lck2>>},
              {<<tulck, lck2>>, <<ulck2, lck1>>},
              {<<ulck2, lck1>>, <<ulck1, tlck>>},
              {<<ulck2, lck1>>, <<lck1, tlck>>, <<tlck, ulck1>>},
              {<<ulck2, tlck>>, <<tulck, lck1>>},
              {<<lck2, tlck>>, <<tlck, ulck2>>, <<ulck2, lck1>>}})

(* One thread waits until x is set, another one sets it and wakes the waiter. *)
Ready == <<MI(l), CI(cv)>>
AwaitX == <<Lk(l), R(x), Unless(0, 1), Wt(cv, l), R(x), Unless(0, 1), Fail, Ul(l)>>
SetX(wake) == <<Lk(l), W(x, 1), wake, Ul(l)>>
JustWait == <<Lk(l), Wt(cv, l), Ul(l)>>

(* The setter locks at `set` and unlocks three instructions later; the waiter *)
(* locks at `lck`, waits three instructions later, and locks again after it.  *)
SetOrWait(set, lck) ==
  LET ulck == <<set[1], set[2] + 3>>
      cndwt == <<lck[1], lck[2] + 3>>
      lckb == <<lck[1], -(lck[2] + 4)>>
  IN  {{<<ulck, lck>>}, {<<cndwt, set>>, <<ulck, lckb>>}}
MainSets(wake) ==
  Orders(Checked(Par(Ready, SetX(wake), <<AwaitX>>)), SetOrWait(<<0, 4>>, <<1, 1>>))
MainWaits(wake) ==
  Orders(Checked(Par(Ready, AwaitX, <<SetX(wake)>>)), SetOrWait(<<1, 1>>, <<0, 4>>))

(* A signal that may come too early.                                          *)
SignalOrWait(sig, cndwt) ==
  {{<<sig, cndwt>>}, {<<cndwt, sig>>, <<sig, <<cndwt[1], cndwt[2] + 1>>>>}}
MainWakes(wake) ==
  Orders(Checked(Par(Ready, <<wake>>, <<JustWait>>)), SignalOrWait(<<0, 4>>, <<1, 2>>))
MainIsWoken(wake) ==
  Orders(Checked(Par(Ready, JustWait, <<<<wake>>>>)), SignalOrWait(<<1, 1>>, <<0, 5>>))

(* Two waiters, W0 and W1.  When both wait, a broadcast wakes both, in either *)
(* order; a signal wakes one of them.                                         *)
BothWait(all, set, first, ulck, second) ==
  {<<set, first>>} \cup (IF all THEN {<<ulck, second>>} ELSE {})
TwoWait(wake, all) ==
  LET lckB == <<1, 1>>  ulckB == <<1, 4>>
      lck0 == <<0, 5>>  wt0 == <<0, 8>>  lck0b == <<0, -9>>  ulck0 == <<0, 12>>
      lck1 == <<2, 1>>  wt1 == <<2, 4>>  lck1b == <<2, -5>>  ulck1 == <<2, 8>>
      first0 == BothWait(all, ulckB, lck0b, ulck0, lck1b)
      first1 == BothWait(all, ulckB, lck1b, ulck1, lck0b)
  IN  Orders(Checked(Par(Ready, AwaitX, <<SetX(wake), AwaitX>>)),
             {{<<ulckB, lck0>>, <<ulck0, lck1>>}, {<<ulckB, lck1>>, <<ulck1, lck0>>},
              {<<wt0, lckB>>, <<ulckB, lck0b>>, <<ulck0, lck1>>},
              {<<wt0, lckB>>, <<ulckB, lck1>>, <<ulck1, lck0b>>},
              {<<wt1, lckB>>, <<ulckB, lck1b>>, <<ulck1, lck0>>},
              {<<wt1, lckB>>, <<ulckB, lck0>>, <<ulck0, lck1b>>}}
             \cup {{<<wt0, lck1>>, <<wt1, lckB>>} \cup e : e \in {first0, first1}}
             \cup {{<<wt1, lck0>>, <<wt0, lckB>>} \cup e : e \in {first0, first1}})

TSO_Condvar_1 == MainSets(Bc(cv))
TSO_Condvar_3 == MainWakes(Bc(cv))
TSO_Condvar_4 == MainIsWoken(Bc(cv))
TSO_Condvar_5 == MainWaits(Bc(cv))
TSO_Condvar_6 == TwoWait(Bc(cv), TRUE)
TSO_Condvar_7 == MainSets(Sg(cv))
TSO_Condvar_8 == MainWakes(Sg(cv))
TSO_Condvar_9 == MainIsWoken(Sg(cv))
TSO_Condvar_10 == MainWaits(Sg(cv))
TSO_Condvar_11 == TwoWait(Sg(cv), FALSE)

(* The condition variable is destroyed when nobody can wait any more.         *)
TSO_Condvar_12 ==
  Orders(Checked(Par(Ready, SetX(Bc(cv)) \o <<Local, Jn(1), CD(cv), Unless(EBUSY, 1), Fail, CI(cv)>>,
                     <<AwaitX>>)),
         SetOrWait(<<0, 4>>, <<1, 1>>))

TSO_Compiler_fenced_dekker ==
  LET ux0 == <<0, 2>>  ry0 == <<0, 4>>  uy1 == <<1, 1>>  rx1 == <<1, 3>>
  IN  Orders(Dekker, {{<<ux0, rx1>>, <<uy1, ry0>>}, {<<ux0, rx1>>, <<ry0, uy1>>},
                      {<<rx1, ux0>>, <<uy1, ry0>>}, {<<rx1, ux0>>, <<ry0, uy1>>}})

TSOTests ==
  {TSO_Mutex_trylock_1, TSO_Mutex_trylock_2, TSO_Condvar_1, TSO_Condvar_3,
   TSO_Condvar_4, TSO_Condvar_5, TSO_Condvar_6, TSO_Condvar_7, TSO_Condvar_8,
   TSO_Condvar_9, TSO_Condvar_10, TSO_Condvar_11, TSO_Condvar_12,
   TSO_Compiler_fenced_dekker}

(* -------------------------------- PSO_test2 ------------------------------- *)

(* Bytes from x on; the variable there is four bytes wide.                    *)
OfSize(n, a) == [addr |-> a, size |-> n]
WideStore(n, a) == [op |-> "store", ml |-> OfSize(n, a), val |-> 1]
OverX(ths) == [Checked(Par(<<>>, <<>>, ths)) EXCEPT !.bytes = {err} \cup Bytes(OfSize(4, x))]

PSO_Overlapping_store_1 ==
  LET u00 == <<1, 1>>  u01 == <<1, 2>>  r11 == <<2, 1>>  r10 == <<2, 2>>
  IN  Orders(OverX(<<<<W(x, 1), W(x + 1, 1)>>, <<R(x + 1), R(x)>>>>),
             {{<<u00, r10>>, <<u01, r11>>}, {<<u00, r10>>, <<r11, u01>>},
              {<<r10, u00>>, <<u01, r11>>}, {<<r10, u00>>, <<r11, u01>>}})

PSO_Overlapping_store_2 ==
  LET u00 == <<1, 1>>  u01 == <<1, 2>>  r11 == <<2, 1>>  r10 == <<2, 2>>
  IN  Orders(OverX(<<<<WideStore(4, x), W(x + 1, 1)>>, <<R(x + 1), R(x)>>>>),
             {{<<u00, r10>>, <<u01, r11>>}, {<<u00, r10>>, <<r11, u01>>, <<u00, r11>>},
              {<<u00, r10>>, <<r11, u01>>, <<r11, u00>>},
              {<<r10, u00>>, <<r11, u01>>, <<r11, u00>>}})

PSO_Overlapping_store_3 ==
  LET u00 == <<1, 1>>  u01 == <<1, 3>>  r13 == <<2, 1>>  r10 == <<2, 2>>
  IN  Orders(OverX(<<<<WideStore(2, x), WideStore(2, x + 1), WideStore(2, x + 2)>>,
                     <<R(x + 3), R(x)>>>>),
             {{<<u00, r10>>, <<u01, r13>>}, {<<u00, r10>>, <<r13, u01>>},
              {<<r10, u00>>, <<r13, u01>>}})

(* The programs of TSO_test2.cpp again, with the same expectations.           *)
PSO_Mutex_trylock_1 == TSO_Mutex_trylock_1
PSO_Mutex_trylock_2 == TSO_Mutex_trylock_2
PSO_Condvar_1 == MainSets(Bc(cv))
PSO_Condvar_3 == MainWakes(Bc(cv))
PSO_Condvar_4 == MainIsWoken(Bc(cv))
PSO_Condvar_5 == MainWaits(Bc(cv))
PSO_Condvar_6 == TwoWait(Bc(cv), TRUE)
PSO_Condvar_7 == MainSets(Sg(cv))
PSO_Condvar_8 == MainWakes(Sg(cv))
PSO_Condvar_9 == MainIsWoken(Sg(cv))
PSO_Condvar_10 == MainWaits(Sg(cv))
PSO_Condvar_11 == TwoWait(Sg(cv), FALSE)
PSO_Condvar_12 == TSO_Condvar_12

PSO_Compiler_fence_mp ==
  LET ux0 == <<0, 2>>  uy0 == <<0, 4>>  ry1 == <<1, 1>>  rx1 == <<1, 3>>
  IN  Orders(Checked(Par(<<>>, <<W(x, 1), Local, W(y, 1)>>, <<<<R(y), Local, R(x)>>>>)),
             {{<<ux0, rx1>>, <<uy0, ry1>>}, {<<ux0, rx1>>, <<ry1, uy0>>},
              {<<rx1, ux0>>, <<uy0, ry1>>}, {<<rx1, ux0>>, <<ry1, uy0>>}})

PSOTests ==
  {PSO_Overlapping_store_1, PSO_Overlapping_store_2, PSO_Overlapping_store_3,
   PSO_Mutex_trylock_1, PSO_Mutex_trylock_2, PSO_Condvar_1, PSO_Condvar_3,
   PSO_Condvar_4, PSO_Condvar_5, PSO_Condvar_6, PSO_Condvar_7, PSO_Condvar_8,
   PSO_Condvar_9, PSO_Condvar_10, PSO_Condvar_11, PSO_Condvar_12,
   PSO_Compiler_fence_mp}

(* --------------------------- POWER_test2, ARM_test2 ----------------------- *)

PLdX == PLd(Const(x))
PLdY == PLd(Const(y))
PStX(v) == PSt(Const(v), Const(x))
PStY(v) == PSt(Const(v), Const(y))
Is(v, r) == [op |-> "calc", f |-> "icmp", pred |-> "eq", ty |-> Int8, args |-> <<Reg(r), Const(v)>>]
NoFence1 == PFence("none")                   \* a compiler fence
PMDestroy == [op |-> "mdestroy"]
PJnOf(r) == [op |-> "join", a |-> Reg(r)]     \* a thread number that was loaded
TidOf(t) == PLd(Const(200 + t))

POWER_TWO_W == Counts(PPar(<<>>, <<PStX(1)>>, <<<<PStY(2)>>>>), 1)

LB_polocrfiaddr_lwsync ==
  PPar(<<>>, <<PLdX, PStX(1), PLdX, PSt(Reg(4), Const(y))>>,
       <<<<PLdY, PFence("lwsync"), PStX(2)>>>>)
POWER_LB_polocrfiaddr_lwsync == Counts(LB_polocrfiaddr_lwsync, 6)

POWER_Prop_rf_ppo ==
  Counts(PPar(<<>>, <<PStX(1)>>, <<<<PLdX, PFence("lwsync"), PStY(1)>>,
                                   <<PLdY, PSt(Reg(1), Const(x))>>>>), 9)

POWER_MP_double_fence ==
  LET f == PFence("lwsync")
  IN  Counts(PPar(<<>>, <<f, PStX(1), f, PStY(1)>>, <<<<f, PLdY, f, PLdX>>>>), 3)

POWER_Data_rfi_sleepset ==
  Counts(PPar(<<>>, <<PLdX, PSt(Reg(2), Const(y)), PLdY>>, <<<<PStX(1)>>>>), 2)

(* Join thread 2, whose number is loaded at n + 1; then x has to be 2.        *)
JoinAndCheck(n) ==
  <<TidOf(2), PJnOf(n + 1), PLdX, Is(2, n + 3), Is(0, n + 4), PBr(n + 5, 1), PFail>>
POWER_Join_1 == Counts(PPar(<<>>, JoinAndCheck(1), <<<<PStX(2)>>>>), 1)
POWER_Join_2 == Counts(PPar(<<PStX(1)>>, JoinAndCheck(2), <<<<PStX(2)>>>>), 1)

IncrementYToX == <<PLdY, PlusOne(1), PSt(Reg(2), Const(x))>>
POWER_Fun_arg_1 ==
  Counts(PPar(<<>>, <<PLdX, PlusOne(2), PStY(1)>>, <<IncrementYToX>>), 4)
POWER_Fun_arg_2 ==
  Counts(PPar(<<>>, <<PLdX, PlusOne(2), PSt(Reg(3), Const(y))>>, <<IncrementYToX>>), 3)

CritSection(n) ==          \* n instructions come before it
  <<PLk, PLdX, PBr(n + 2, 1), PFail, PStX(1), PStX(0), PUl>>
POWER_Mutex_1 == Counts(PPar(<<PMI>>, CritSection(2), <<CritSection(0)>>), 2)

(* y > x fails: one is tested after the other.                                *)
POWER_Mutex_3 ==
  Counts(PPar(<<PMI>>, <<PLk, PLdY, PUl, PLdX, PBr(4, 3), Is(0, 6), PBr(8, 1), PFail>>,
              <<<<PStX(1), PLk, PStY(1), PUl>>>>), 3)

POWER_Mutex_6 ==
  Counts(PPar(<<PStX(1), PMI>>, <<PLk, PLdX>>, <<<<PLk, PLdX>>, <<PLk, PLdX>>>>), 3)

POWER_Mutex_7 ==
  Counts(PPar(<<PMI>>, <<PLk, PUl, TidOf(2), PJnOf(5), PMDestroy>>, <<<<PLk, PUl>>>>), 2)

(* Whoever is past the critical section last destroys the mutex, perhaps.     *)
POWER_Mutex_9 ==
  Counts(PPar(<<PMI>>, <<PLk, PUl, PStY(1)>>,
              <<<<PLk, PUl, PLdY, Is(1, 3), PBr(4, 1), PMDestroy>>>>), 4)

POWER_Mutex_12 == Counts(PPar(<<PMI>>, <<PLk, PUl, PLk, PUl>>, <<<<PLk, PUl, PLk, PUl>>>>), 6)

(* pthread_exit: what comes after it is never fetched.                        *)
POWER_Pthread_exit_1 == Counts(PPar(<<>>, <<TidOf(2), PJnOf(2)>>, <<<<>>>>), 1)
Exits(before) == PPar(<<>>, <<PLdX, TidOf(2), PJnOf(3)>>, <<before>>)
POWER_Pthread_exit_2 == Counts(Exits(<<PStX(1)>>), 2)
POWER_Pthread_exit_3 == Counts(Exits(<<>>), 1)
POWER_Pthread_exit_4 == Counts(Exits(<<>>), 1)

(* A place on the heap, which a pointer at y leads to; free is left out.      *)
heap == 5
POWER_Malloc_free_1 ==
  Counts(PPar(<<PSt(Const(heap), Const(y))>>, <<PLd(Const(heap)), TidOf(2), PJnOf(4)>>,
              <<<<PLdY, PSt(Const(1), Reg(1))>>>>), 2)

POWER_RWW_1 == Counts(PPar(<<>>, <<PLdX>>, <<<<PStX(1)>>, <<PStX(1)>>>>), 6)

POWER_Compiler_fence_SB ==
  Counts(PPar(<<>>, <<PStX(1), NoFence1, PLdY>>, <<<<PStY(1), NoFence1, PLdX>>>>), 4)

POWER_Pthread_t_pointer_1 ==
  Counts(PPar(<<>>, <<TidOf(2), PJnOf(2), PLdX>>, <<<<PStX(1)>>>>), 1)

POWERTests ==
  {POWER_TWO_W, POWER_LB_polocrfiaddr_lwsync, POWER_Prop_rf_ppo, POWER_MP_double_fence,
   POWER_Data_rfi_sleepset, POWER_Join_1, POWER_Join_2, POWER_Fun_arg_1,
   POWER_Fun_arg_2, POWER_Mutex_1, POWER_Mutex_3, POWER_Mutex_6, POWER_Mutex_7,
   POWER_Mutex_9, POWER_Mutex_12, POWER_Pthread_exit_1, POWER_Pthread_exit_2,
   POWER_Pthread_exit_3, POWER_Pthread_exit_4, POWER_Malloc_free_1, POWER_RWW_1,
   POWER_Compiler_fence_SB, POWER_Pthread_t_pointer_1}

ARM_TWO_W == POWER_TWO_W
ARM_LB_polocrfiaddr_lwsync == Counts(LB_polocrfiaddr_lwsync, 7)
ARM_MP_double_fence == POWER_MP_double_fence
ARM_Data_rfi_sleepset == POWER_Data_rfi_sleepset
ARM_Fun_arg_1 == POWER_Fun_arg_1
ARM_Fun_arg_2 == POWER_Fun_arg_2
ARM_Mutex_1 == POWER_Mutex_1
ARM_Mutex_3 == POWER_Mutex_3
ARM_Mutex_6 == POWER_Mutex_6
ARM_Mutex_7 == POWER_Mutex_7
ARM_Mutex_9 == POWER_Mutex_9
ARM_Mutex_12 == POWER_Mutex_12
ARM_Pthread_exit_1 == POWER_Pthread_exit_1
ARM_Pthread_exit_2 == POWER_Pthread_exit_2
ARM_Pthread_exit_3 == POWER_Pthread_exit_3
ARM_Pthread_exit_4 == POWER_Pthread_exit_4
ARM_Malloc_free_1 == POWER_Malloc_free_1
ARM_Compiler_fence_SB == POWER_Compiler_fence_SB
ARM_Normalise_1 ==      \* dmb is the strongest fence, sync
  Counts(PPar(<<>>, <<PLdY, PLdX, PStX(2)>>,
              <<<<PStX(1), PFence("sync"), PLdX, PSt(Reg(3), Const(y))>>>>), 10)

ARMTests ==
  {ARM_TWO_W, ARM_LB_polocrfiaddr_lwsync, ARM_MP_double_fence, ARM_Data_rfi_sleepset,
   ARM_Fun_arg_1, ARM_Fun_arg_2, ARM_Mutex_1, ARM_Mutex_3, ARM_Mutex_6, ARM_Mutex_7,
   ARM_Mutex_9, ARM_Mutex_12, ARM_Pthread_exit_1, ARM_Pthread_exit_2,
   ARM_Pthread_exit_3, ARM_Pthread_exit_4, ARM_Malloc_free_1, ARM_Compiler_fence_SB,
   ARM_Normalise_1}

(* Too many candidate executions for PowerExecutions to enumerate.            *)
LargeTests == {POWER_Fun_arg_2, POWER_Mutex_1, POWER_Mutex_12}

(* Each suite under its memory model, with the algorithms it was written for. *)
Suite(tests, alg, mm) ==
  {[prog |-> t.prog, tested |-> t.tested, large |-> t \in LargeTests,
    alg |-> alg, mm |-> mm] : t \in tests}
TestSetups ==
  Suite(SCTests, "SOURCE", "SC") \cup Suite(SCTests, "OPTIMAL", "SC")
  \cup Suite(TSOTests, "SOURCE", "TSO") \cup Suite(PSOTests, "SOURCE", "PSO")
  \cup Suite({TSO_Condvar_3, TSO_Condvar_4, TSO_Condvar_9}, "OPTIMAL", "TSO")
  \cup Suite(POWERTests, "RSMC", "POWER") \cup Suite(ARMTests, "RSMC", "ARM")
===============================================================================
