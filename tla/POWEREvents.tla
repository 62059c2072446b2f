------------------------------ MODULE POWEREvents ------------------------------
(* The events of an execution under POWER or ARM, as the trace builder of     *)
(* src/src/POWERARMTraceBuilder.tcc is told of them.  An event is fetched     *)
(* first, in program order; its addresses, its data and what it requires of   *)
(* the value it loads are registered as they become known; it is committed    *)
(* later, out of order.  Every access is to one byte: the code splits an      *)
(* access into its bytes and treats each of them on its own.  An event is     *)
(* named by its thread and its number there, from 1.                          *)
(*                                                                            *)
(* A builder state c has                                                      *)
(*   mm       "POWER" or "ARM"                                                *)
(*   fch      for each thread the events it has fetched in this execution     *)
(*   thr      for each thread what events fetched later depend on             *)
(*   mem      for each byte its stores in coherence order, and its loads by   *)
(*            the number of the store they read from (0: the initial value)   *)
(*   pending  how many fetched events that require nothing are uncommitted    *)
(*   prefix, sched, plan, broken     (see POWERTraceBuilder)                  *)
EXTENDS Integers, Sequences, FiniteSets, SequencesExt, FiniteSetsExt, TLC

(* What is reached from S by `next`, a function from events to sets of them.  *)
RECURSIVE Searching(_, _, _)
Searching(done, new, next) ==
  IF new = {} THEN done
  ELSE Searching(done \cup new, UNION {next[y] : y \in new} \ (done \cup new), next)
ReachedFrom(S, next) == Searching({}, S, next)

(* No cycle of `next` within D: what leads nowhere can be taken away.         *)
RECURSIVE Acyclic(_, _)
Acyclic(D, next) ==
  LET rest == {y \in D : next[y] \cap D # {}} IN D = {} \/ (rest # D /\ Acyclic(rest, next))

(* f; TLC tabulates the two sides of @@, and does not evaluate it over again. *)
Tabulated(f) == f @@ <<>>
AtEach(seq, f(_)) == Tabulated([k \in DOMAIN seq |-> f(k)])

NullIid == <<0, 0>>
Unknown == -1

RelKinds == {"rf", "co", "com", "poloc", "ii", "ci", "cc", "hb", "prop"}
NoEdges == [k \in RelKinds |-> [fwd |-> {}, bwd |-> {}]]

(* Fences that order by position; isync acts on control dependencies only.    *)
FenceKinds == {"eieio", "lwsync", "sync"}
NoFence == [k \in FenceKinds |-> -1]

ClearThread == [ctrl |-> {}, isync |-> {}, last |-> NoFence]
ClearByte == [co |-> <<>>, loads |-> 0 :> {}]

Ev(c, x) == c.fch[x[1]][x[2]]
HasLoad(e) == e.ld > 0
HasStore(e) == e.st > 0
Requires(e) == \E k \in 1..e.ld : e.acc[k].req # Unknown
Iids(c) == UNION {{<<p, i>> : i \in DOMAIN c.fch[p]} : p \in DOMAIN c.fch}
CommittedIids(c) == {x \in Iids(c) : Ev(c, x).committed}

FetchEvent(c, p, ld, st, addrDeps, dataDeps) ==
  LET x == <<p, Len(c.fch[p]) + 1>>
      T == c.thr[p]
      e == [ld |-> ld, st |-> st, bytes |-> <<>>, committed |-> FALSE,
            acc |-> Tabulated([k \in 1..(ld + st) |-> [addr |-> Unknown, data |-> Unknown, req |-> Unknown]]),
            addr |-> addrDeps, data |-> dataDeps, ctrl |-> T.ctrl, isync |-> T.isync,
            before |-> T.last, after |-> NoFence, rel |-> NoEdges, cb |-> {x}]
  IN  [c EXCEPT !.fch[p] = Append(@, e), !.pending = @ + 1]

RegisterAddr(c, x, k, a) ==
  [c EXCEPT !.fch[x[1]][x[2]].acc[k].addr = a,
            !.fch[x[1]][x[2]].bytes = Append(@, [st |-> k > Ev(c, x).ld, addr |-> a, acc |-> k])]

RegisterData(c, x, k, v) == [c EXCEPT !.fch[x[1]][x[2]].acc[k].data = v]

(* The event blocks until it can load v: it no longer counts as pending.      *)
RegisterLoadRequirement(c, x, k, v) ==
  [c EXCEPT !.pending = IF Requires(Ev(c, x)) THEN @ ELSE @ - 1,
            !.fch[x[1]][x[2]].acc[k].req = v]

FetchCtrl(c, p, deps) == [c EXCEPT !.thr[p].ctrl = @ \cup deps]

(* A fence at position n comes after the first n events of its thread.        *)
FetchFence(c, p, kind) ==
  LET n == Len(c.fch[p])
      since == Max({0, c.thr[p].last[kind]})
      after(i) == IF i > since THEN [Ev(c, <<p, i>>) EXCEPT !.after[kind] = n] ELSE Ev(c, <<p, i>>)
  IN  IF kind = "isync"
      THEN [c EXCEPT !.thr[p].isync = @ \cup c.thr[p].ctrl, !.thr[p].ctrl = {}]
      ELSE [c EXCEPT !.thr[p].last[kind] = n,
                     !.fch[p] = AtEach(@, after)]

SpawnThread(c) ==
  [c EXCEPT !.fch = Append(@, <<>>), !.thr = Append(@, ClearThread)]

(* ----------------------------- who may commit ----------------------------- *)

AddrKnown(e) == \A k \in DOMAIN e.acc : e.acc[k].addr # Unknown
AllKnown(e) ==
  AddrKnown(e) /\ \A k \in (e.ld + 1)..(e.ld + e.st) : e.acc[k].data # Unknown

Targets(e) == {e.acc[k].addr : k \in DOMAIN e.acc} \ {Unknown}

(* compute_poloc_bwd: for each byte the last event before x that accesses it. *)
PolocBwd(c, x) ==
  LET touching(a) == {i \in 1..(x[2] - 1) : a \in Targets(c.fch[x[1]][i])}
  IN  {<<x[1], Max(touching(a))>> : a \in {d \in Targets(Ev(c, x)) : touching(d) # {}}}

(* Commits follow address and data dependencies, addresses of earlier events, *)
(* lwsync and sync, and, under POWER, earlier accesses to the same byte.      *)
Committable(c, x) ==
  LET e == Ev(c, x)
      own == c.fch[x[1]]
  IN  /\ ~e.committed /\ AllKnown(e)
      /\ \A i \in 1..x[2] : AddrKnown(own[i])
      /\ \A i \in 1..Max({e.before.sync, e.before.lwsync}) : own[i].committed
      /\ c.mm = "POWER" => \A y \in PolocBwd(c, x) : Ev(c, y).committed

(* The relation cb, which every order of commits respects: what comes before  *)
(* x in it, given the stores x reads from.                                    *)
ComputeCb(c, x, sources) ==
  LET e == Ev(c, x)
      own == c.fch[x[1]]
      fenced == Max({0, e.before.lwsync, e.before.sync})
      deps == e.addr \cup e.data \cup e.ctrl \cup e.isync
              \cup (1..fenced)
              \cup UNION {own[i].addr : i \in (fenced + 1)..(x[2] - 1)}
  IN  {x} \cup UNION {own[i].cb : i \in deps}
          \cup UNION {Ev(c, y).cb : y \in sources}
          \cup (IF c.mm = "POWER" THEN UNION {Ev(c, y).cb : y \in PolocBwd(c, x)} ELSE {})
===============================================================================
