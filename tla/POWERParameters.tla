---------------------------- MODULE POWERParameters ----------------------------
(* How an event may be committed under POWER or ARM                           *)
(* (src/src/POWERARMTraceBuilder.tcc, populate_parameters): where its stores  *)
(* go in the coherence order of their byte, and which stores its loads read   *)
(* from, such that the axioms of Alglave, Maranget and Tautschnig's           *)
(* "Herding Cats" hold for the events committed so far.                       *)
(*                                                                            *)
(* A parameter has one choice for each byte access of the event: <<0, n, 0>>, *)
(* a store after the first n stores of its byte, or <<1, p, i>>, a load from  *)
(* event i of thread p, <<1, 0, 0>> being the initial value.  It also has the *)
(* edges `rel` of the event, and the edges it adds between others: the        *)
(* happens-before edges from I to afterI and from C to afterC, and `prop`.    *)
EXTENDS POWEREvents

OfThread(p, S) == {<<p, i>> : i \in S}
AddBwd(rel, k, S) == [rel EXCEPT ![k].bwd = @ \cup S]
AddFwd(rel, k, S) == [rel EXCEPT ![k].fwd = @ \cup S]

(* The edges of event y when x is about to be committed with the edges rel.   *)
EdgesOf(c, x, rel, k, y) == IF y = x THEN rel[k] ELSE Ev(c, y).rel[k]

(* ------------------------- what the event comes with ---------------------- *)

Past(e, kind, i) == e.after[kind] # -1 /\ e.after[kind] < i

(* A fence between y and z that orders them.                                  *)
FencedBy(c, y, z) ==
  LET e == Ev(c, y)
      f == Ev(c, z)
  IN  /\ y[1] = z[1] /\ y[2] < z[2]
      /\ \/ Past(e, "sync", z[2])
         \/ Past(e, "lwsync", z[2]) /\ (HasLoad(e) \/ HasStore(f))
         \/ Past(e, "eieio", z[2]) /\ HasStore(e) /\ HasStore(f)

(* fences_to_hb.  In the search forwards a missing fence, at -1, counts as    *)
(* one that every later event is past.                                        *)
FencesToHb(c, x) ==
  LET e == Ev(c, x)
      own == c.fch[x[1]]
      done == {i \in DOMAIN own : own[i].committed}
      kinds == {"sync", "lwsync"} \cup (IF HasStore(e) THEN {"eieio"} ELSE {})
      fences == {e.after[k] : k \in kinds} \ {-1}
      past(k, j) == e.after[k] < j
      after == {j \in done : /\ j > Min(fences)
                             /\ \/ past("sync", j)
                                \/ past("lwsync", j) /\ (HasStore(own[j]) \/ HasLoad(e))
                                \/ past("eieio", j) /\ HasStore(e) /\ HasStore(own[j])}
  IN  [bwd |-> {y \in OfThread(x[1], done) : FencedBy(c, y, x)},
       fwd |-> IF fences = {} THEN {} ELSE OfThread(x[1], after)]

(* Dependencies.  The event before one that has an address dependency stands  *)
(* for the addr;po edge to x.                                                 *)
EmptyParameter(c, x) ==
  LET e == Ev(c, x)
      p == x[1]
      own == c.fch[p]
      addrPo == {i - 1 : i \in {n \in 1..(x[2] - 1) : \E j \in own[n].addr : own[j].committed}}
      dependent == {i \in DOMAIN own : i > x[2] /\ x[2] \in own[i].addr}
      poAfter == IF dependent = {} THEN {}
                 ELSE {j \in DOMAIN own : j > Min(dependent) /\ own[j].committed}
      rel1 == [NoEdges EXCEPT !["hb"] = FencesToHb(c, x),
                              !["ii"].bwd = OfThread(p, e.addr \cup e.data),
                              !["ci"].bwd = OfThread(p, e.isync),
                              !["cc"].bwd = OfThread(p, e.addr \cup e.data \cup e.ctrl \cup addrPo),
                              !["cc"].fwd = OfThread(p, poAfter)]
  IN  [choices |-> <<>>, rel |-> rel1, I |-> {}, C |-> {}, afterI |-> {}, afterC |-> {}, prop |-> {}]

(* ---------------------------- SC per location ----------------------------- *)

ByteOf(c, a) == IF a \in DOMAIN c.mem THEN c.mem[a] ELSE ClearByte

(* find_poloc: the nearest events of x's thread before and after x that have  *)
(* accessed the byte, each with its position there: the number of the store,  *)
(* or of the store that the load reads from.                                  *)
Nearby(B, x) ==
  LET stores == {[iid |-> B.co[j], pos |-> j, st |-> TRUE] : j \in DOMAIN B.co}
      loads == UNION {{[iid |-> y, pos |-> j, st |-> FALSE] : y \in B.loads[j]} : j \in DOMAIN B.loads}
      own == {n \in stores \cup loads : n.iid[1] = x[1]}
      nearest(S, i) == LET T == {n \in S : n.iid[2] = i}
                       IN  IF \E n \in T : n.st THEN {n \in T : n.st} ELSE T
      before == {n \in own : n.iid[2] < x[2]}
      after == {n \in own : n.iid[2] > x[2]}
  IN  [before |-> IF before = {} THEN {} ELSE nearest(before, Max({n.iid[2] : n \in before})),
       after |-> IF after = {} THEN {} ELSE nearest(after, Min({n.iid[2] : n \in after}))]

Poloc(c, rel, near) ==
  LET bwd == {n.iid : n \in near.before}
      fwd == {n.iid : n \in near.after}
      with(r, k) == AddFwd(AddBwd(r, k, bwd), k, fwd)
  IN  IF c.mm = "POWER" THEN with(with(rel, "poloc"), "cc") ELSE with(rel, "poloc")

ExternalTo(B, p) == {j \in DOMAIN B.co : B.co[j][1] # p}
OwnLoads(B, p, S) == {y \in UNION {B.loads[j] : j \in S} : y[1] = p}

(* populate_parameters_store: the positions that no path of communication and *)
(* program order contradicts.                                                 *)
StorePositions(c, B, near, rel) ==
  LET n == Len(B.co)
      from == Max({0} \cup {q.pos : q \in near.before})
      to == Min({n} \cup {q.pos - 1 : q \in near.after})
      cop == [y \in Iids(c) |-> Ev(c, y).rel["com"].bwd \cup Ev(c, y).rel["poloc"].bwd]
      at(j) == B.loads[j] \cup (IF j = 0 THEN {} ELSE {B.co[j]})
      earlier == ReachedFrom(rel["com"].bwd \cup rel["poloc"].bwd, cop)
      first == Max({from} \cup {j \in from..n : at(j) \cap earlier # {}})
      later == rel["com"].fwd \cup rel["poloc"].fwd
      upTo(j) == earlier \cup ReachedFrom(UNION {at(i) : i \in first..j}, cop)
      tooLate == {j \in first..to : upTo(j) \cap later # {}}
  IN  first..(IF tooLate = {} THEN to ELSE Min(tooLate) - 1)

StoreParameter(c, x, B, near, P, i) ==
  LET p == x[1]
      before == IF i = 0 THEN {} ELSE {B.co[i]}
      after == IF i = Len(B.co) THEN {} ELSE {B.co[i + 1]}
      detour == OwnLoads(B, p, {j \in ExternalTo(B, p) : j > i})
      rel1 == AddFwd(AddBwd(Poloc(c, P.rel, near), "co", before), "co", after)
      rel2 == AddFwd(AddBwd(rel1, "com", before \cup B.loads[i]), "com", after)
  IN  [P EXCEPT !.choices = Append(@, <<0, i, 0>>), !.rel = AddFwd(rel2, "ci", detour)]

PopulateStore(c, x, a, P) ==
  LET B == ByteOf(c, a)
      near == Nearby(B, x)
      positions == SetToSortSeq(StorePositions(c, B, near, P.rel), <)
  IN  [k \in DOMAIN positions |-> StoreParameter(c, x, B, near, P, positions[k])]

(* populate_parameters_load: an event loads first, so no path leads to it yet *)
(* but through its own thread.                                                *)
SourceOf(B, j) == IF j = 0 THEN NullIid ELSE B.co[j]

LoadPositions(B, near) ==
  LET last(q) == IF q.st THEN q.pos - 1 ELSE q.pos
  IN  Max({0} \cup {q.pos : q \in near.before})..Min({Len(B.co)} \cup {last(q) : q \in near.after})

LoadParameter(c, x, B, near, P, i) ==
  LET p == x[1]
      src == IF i = 0 THEN {} ELSE {B.co[i]}
      after == IF i = Len(B.co) THEN {} ELSE {B.co[i + 1]}
      rel1 == AddFwd(AddBwd(AddBwd(Poloc(c, P.rel, near), "rf", src), "com", src), "com", after)
      detour == {B.co[j] : j \in 1..(i - 1) \ ExternalTo(B, p)}
      rdwBefore == OwnLoads(B, p, 0..(i - 1))
      rdwAfter == OwnLoads(B, p, {j \in ExternalTo(B, p) : j > i})
  IN  [P EXCEPT
         !.choices = Append(@, <<1>> \o SourceOf(B, i)),
         !.rel = IF i = 0 THEN rel1
                 ELSE IF i \notin ExternalTo(B, p) THEN AddBwd(rel1, "ii", src)
                 ELSE AddFwd(AddBwd(AddBwd(AddBwd(rel1, "hb", src), "ci", detour),
                                    "ii", rdwBefore), "ii", rdwAfter)]

PopulateLoad(c, x, a, P) ==
  LET B == ByteOf(c, a)
      near == Nearby(B, x)
      positions == SetToSortSeq(LoadPositions(B, near), >)
  IN  [k \in DOMAIN positions |-> LoadParameter(c, x, B, near, P, positions[k])]

(* -------------------- preserved program order, in hb ---------------------- *)

(* ppo_to_hb.  Two searches from x, backwards and forwards, each from x as    *)
(* the initial ("I") and as the commit ("C") part of a relation; a node       *)
(* <<y, part, from>> says that part of y is reached.                          *)
PpoBackwards(c, x, rel) ==
  LET go(k, n, parts) == {<<y, q, n[3]>> : y \in EdgesOf(c, x, rel, k, n[1]).bwd, q \in parts}
      back == [n \in Iids(c) \X {"I", "C"} \X {"I", "C"} |->
        IF n[2] = "I" THEN go("ii", n, {"I"}) \cup go("ci", n, {"I", "C"})
        ELSE go("cc", n, {"I", "C"})]
  IN  ReachedFrom({<<x, "I", "I">>, <<x, "I", "C">>, <<x, "C", "C">>}, back)

PpoForwards(c, x, rel) ==
  LET go(k, n, parts) == {<<y, q, n[3]>> : y \in EdgesOf(c, x, rel, k, n[1]).fwd, q \in parts}
      forth == [n \in Iids(c) \X {"I", "C"} \X {"I", "C"} |->
        IF n[2] = "I" THEN go("ii", n, {"I", "C"})
        ELSE go("ci", n, {"I", "C"}) \cup go("cc", n, {"C"})]
  IN  ReachedFrom({<<x, "I", "I">>, <<x, "C", "I">>, <<x, "C", "C">>}, forth)

PpoFound(c, x, P, B, F) ==
  LET e == Ev(c, x)
      C == {n[1] : n \in {d \in B : d[1] # x /\ HasLoad(Ev(c, d[1]))}}
      I == {y \in C : <<y, "I", "I">> \in B}
      later == {n[1] : n \in F} \ {x}
      part(y) == IF HasStore(Ev(c, y)) THEN "C" ELSE "I"
      afterC == {y \in later : <<y, part(y), "C">> \in F}
      afterI == {y \in later \ afterC : HasStore(Ev(c, y)) \/ <<y, "I", "I">> \in F}
      rel1 == AddBwd(P.rel, "hb", IF HasStore(e) THEN C ELSE I)
  IN  [P EXCEPT !.rel = IF HasLoad(e) THEN AddFwd(rel1, "hb", afterI \cup afterC) ELSE rel1,
                !.I = I, !.C = C, !.afterI = afterI, !.afterC = afterC]
PpoToHb(c, x, P) == PpoFound(c, x, P, PpoBackwards(c, x, P.rel), PpoForwards(c, x, P.rel))

(* Where hb leads from y: what is recorded with y, and what x adds.           *)
HbNew(P, y) ==
  IF y \in P.I THEN P.afterI \cup P.afterC
  ELSE IF y \in P.C THEN P.afterC ELSE {}
ToNew(x, P, y) == IF y \in P.rel["hb"].bwd THEN {x} ELSE {}

(* no_thin_air.                                                               *)
NoThinAir(c, x, P) ==
  LET live == CommittedIids(c) \cup {x}
      prev == [y \in live |-> live \cap
                (EdgesOf(c, x, P.rel, "hb", y).bwd
                 \cup (IF y \in P.afterI THEN P.I ELSE {})
                 \cup (IF y \in P.afterC THEN P.C ELSE {})
                 \cup (IF y \in P.rel["hb"].fwd THEN {x} ELSE {}))]
  IN  Acyclic(live, prev)

(* --------------------------- propagation ---------------------------------- *)

(* calc_prop_inits: events that may gain an outgoing prop edge.  After an     *)
(* event of afterC the search goes on to I only, as if it were in afterI.     *)
PropInits(c, x, P) ==
  LET after == P.afterI \cup P.afterC
      live == CommittedIids(c) \cup {x}
      hb == [y \in Iids(c) |-> EdgesOf(c, x, P.rel, "hb", y).bwd
                               \cup (IF y \in after THEN P.I ELSE {})]
      com == [y \in Iids(c) |-> EdgesOf(c, x, P.rel, "com", y).bwd]
      H == ReachedFrom({x} \cup after, hb)
  IN  ReachedFrom({x} \cup {y \in live : \E z \in H : FencedBy(c, y, z)}, com)

(* calc_prop: the targets of prop edges from y.                               *)
PropFrom(c, x, P, y) ==
  LET rel == P.rel
      live == CommittedIids(c) \cup {x}
      com == [z \in Iids(c) |-> EdgesOf(c, x, rel, "com", z).fwd
                                \cup (IF z \in rel["com"].bwd THEN {x} ELSE {})]
      COM == ReachedFrom({y}, com)
      rfe == {z \in EdgesOf(c, x, rel, "rf", y).fwd : z[1] # y[1]}
             \cup (IF y \in rel["rf"].bwd /\ y[1] # x[1] THEN {x} ELSE {})
      next == [z \in Iids(c) |-> live \cap
                 (EdgesOf(c, x, rel, "hb", z).fwd \cup HbNew(P, z) \cup ToNew(x, P, z)
                  \cup {w \in live : FencedBy(c, z, w)})]
      pastFence(S) == {w \in live : \E z \in S : FencedBy(c, z, w)}
      pastSync(S) == {w \in live : \E z \in S : z[1] = w[1] /\ Past(Ev(c, z), "sync", w[2])}
      L == ReachedFrom(pastFence({y} \cup rfe), next)
      R == ReachedFrom(pastFence(COM), next)
      S == ReachedFrom(pastSync(COM \cup R), next)
  IN  S \cup (IF HasStore(Ev(c, y)) THEN {z \in L : HasStore(Ev(c, z))} ELSE {})

WithProp(x, P, edges) ==
  LET into == {d[1] : d \in {d \in edges : d[2] = x}}
      out == {d[2] : d \in {d \in edges : d[1] = x}}
  IN  [P EXCEPT !.rel = AddFwd(AddBwd(@, "prop", into), "prop", out),
                !.prop = {d \in edges : x \notin {d[1], d[2]}}]
CalcProp(c, x, P) ==
  WithProp(x, P, UNION {{<<y, z>> : z \in PropFrom(c, x, P, y) \ EdgesOf(c, x, P.rel, "prop", y).fwd} :
                          y \in PropInits(c, x, P)})

(* propagation: coherence and prop agree.                                     *)
Propagation(c, x, P) ==
  LET rel == P.rel
      next == [y \in Iids(c) |->
                 EdgesOf(c, x, rel, "co", y).fwd \cup EdgesOf(c, x, rel, "prop", y).fwd
                 \cup (IF y \in rel["co"].bwd \cup rel["prop"].bwd THEN {x} ELSE {})
                 \cup {d[2] : d \in {d \in P.prop : d[1] = y}}]
  IN  Acyclic(CommittedIids(c) \cup {x}, next)

(* --------------------------- observation ---------------------------------- *)

(* observation_find_inits: loads that x may have made read too old a value.   *)
ObservationInits(c, x, P) ==
  LET com == [y \in Iids(c) |-> EdgesOf(c, x, P.rel, "com", y).fwd]
      hb == [y \in Iids(c) |-> EdgesOf(c, x, P.rel, "hb", y).fwd \cup HbNew(P, y)]
      COM == ReachedFrom({x}, com)
      fenced == {z \in Iids(c) : \E y \in COM : FencedBy(c, y, z)}
  IN  {y \in ReachedFrom({x} \cup P.afterI \cup P.afterC \cup fenced, hb) : HasLoad(Ev(c, y))}

(* observation_get_fre: stores of other threads that come, in coherence       *)
(* order, after the one that r reads.                                         *)
FromReadExternal(c, x, P, r) ==
  LET rf == EdgesOf(c, x, P.rel, "rf", r).bwd
      later(a) == LET co == ByteOf(c, a).co
                  IN  {co[j] : j \in {n \in DOMAIN co : /\ co[n][1] # r[1]
                                                        /\ \A k \in n..Len(co) : co[k] \notin rf}}
      e == Ev(c, r)
  IN  UNION {later(e.acc[k].addr) : k \in {n \in 1..e.ld : e.acc[n].addr # Unknown}}

(* observation: none of these loads is reached from such a store along prop   *)
(* and hb.  (ReachedByFence: along fences only, and not on from there.)       *)
ReachedByFence(c, x, P, fre) ==
  {w \in CommittedIids(c) \cup {x} : \E z \in fre : FencedBy(c, z, w)}

ReachedByProp(c, x, P, fre) ==
  LET rel == P.rel
      live == CommittedIids(c) \cup {x}
      RFE == UNION {{z \in EdgesOf(c, x, rel, "rf", y).fwd : z[1] # y[1]} : y \in fre}
             \cup (IF \E y \in fre : y \in rel["rf"].bwd /\ y[1] # x[1] THEN {x} ELSE {})
      com == [z \in Iids(c) |->
                (EdgesOf(c, x, rel, "com", z).fwd
                 \cup (IF z \in rel["com"].bwd THEN {x} ELSE {})) \ RFE]
      COM == ReachedFrom(fre, com)
      hb == [z \in Iids(c) |->
               EdgesOf(c, x, rel, "hb", z).fwd \cup HbNew(P, z) \cup ToNew(x, P, z)]
      fenced == {w \in live : \E z \in COM \cup RFE : FencedBy(c, z, w)}
  IN  COM \cup RFE \cup ReachedFrom(fenced, hb)

Observation(c, x, P) ==
  \A r \in ObservationInits(c, x, P) :
    LET fre == FromReadExternal(c, x, P, r)
    IN  fre # {} => r \notin ReachedByProp(c, x, P, fre)

(* --------------------------- populate_parameters -------------------------- *)

(* get_load_values.                                                           *)
ValueOf(c, a, choice) ==
  IF choice = <<1>> \o NullIid THEN 0
  ELSE LET w == Ev(c, <<choice[2], choice[3]>>)
       IN  w.acc[CHOOSE k \in (w.ld + 1)..(w.ld + w.st) : w.acc[k].addr = a].data

LoadedValue(c, x, P) ==
  LET e == Ev(c, x)
      k == CHOOSE n \in DOMAIN e.bytes : ~e.bytes[n].st
  IN  IF HasLoad(e) THEN ValueOf(c, e.bytes[k].addr, P.choices[k]) ELSE 0

MeetsRequirement(c, x, P) ==
  Requires(Ev(c, x)) => LoadedValue(c, x, P) = Ev(c, x).acc[1].req

Candidates1(c, x) ==
  LET next(ps, ba) ==
        FlattenSeq([k \in DOMAIN ps |->
          IF ba.st THEN PopulateStore(c, x, ba.addr, ps[k]) ELSE PopulateLoad(c, x, ba.addr, ps[k])])
  IN  FoldLeft(next, <<EmptyParameter(c, x)>>, Ev(c, x).bytes)

(* The parameters that the axioms allow, and whether the assertion holds that *)
(* no cycle of hb can arise under POWER.                                      *)
Allowed(c, x, withPpo) ==
  LET all == [k \in DOMAIN withPpo |-> CalcProp(c, x, withPpo[k])]
      allowed(P) == /\ c.mm = "ARM" => NoThinAir(c, x, P)
                    /\ Propagation(c, x, P) /\ Observation(c, x, P)
                    /\ MeetsRequirement(c, x, P)
  IN  [params |-> SelectSeq(all, allowed),
       thinAir |-> c.mm = "POWER" /\ \E k \in DOMAIN withPpo : ~NoThinAir(c, x, withPpo[k])]
AllWithPpo(c, x, all) == [k \in DOMAIN all |-> PpoToHb(c, x, all[k])]
PopulateParameters(c, x) == Allowed(c, x, AllWithPpo(c, x, Candidates1(c, x)))
===============================================================================
