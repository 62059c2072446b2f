--------------------------- MODULE POWERTraceBuilder ---------------------------
(* Stateless model checking under POWER and ARM by the trace builder of       *)
(* src/src/POWERARMTraceBuilder.tcc.  An execution commits the events that    *)
(* the interpreter fetches, each with a parameter.  Other parameters of an    *)
(* event are kept for later executions; when a store is committed too late    *)
(* for an earlier load to read from it, a branch is planned that commits what *)
(* the store needs, the store, and then the load.                             *)
(*                                                                            *)
(* Of the variables of TSOTraceBuilder, `b` is the builder state (see         *)
(* POWEREvents) and `m` the rest of the interpreter's.  In it                 *)
(*   prefix   the events to commit first, in this order, and those committed  *)
(*   sched    how many are committed                                          *)
(*   plan     for each event what is kept from one execution to the next:     *)
(*            `cur`   the choices of its parameter                            *)
(*            `param` the parameter itself, when it has been computed         *)
(*            `new`   parameters to try later                                 *)
(*            `branches`  to try later, beginning where the event is          *)
(*            `start`, `end`  of the branch it is in, in prefix, or 0         *)
(*            `branch` the branch that begins with it                         *)
(*            `recalc`, `src` which parameters to compute anew: NO, STAR      *)
(*            (all), PARAM (the one chosen), LOAD (those that read from src)  *)
EXTENDS TSOTraceBuilder, POWERExecution, POWERParameters

NoPlan == [cur |-> <<>>, param |-> <<>>, new |-> <<>>, branches |-> {}, start |-> 0, end |-> 0,
           branch |-> <<>>, recalc |-> "NO", src |-> NullIid]
PlanOf(c, x) == IF x \in DOMAIN c.plan THEN c.plan[x] ELSE NoPlan
Planning(c, x, p) == [c EXCEPT !.plan = (x :> p) @@ @]

PowFresh(mm, prefix, plan) ==
  [mm |-> mm, fch |-> <<<<>>>>, thr |-> <<ClearThread>>, mem |-> <<>>, pending |-> 0,
   prefix |-> prefix, sched |-> 0, plan |-> plan, broken |-> {}]

PowAssert(c, what, holds) == IF holds THEN c ELSE [c EXCEPT !.broken = @ \cup {what}]

(* -------------------------- branches to reverse reads --------------------- *)

(* Parameters compare by their choices, branches by their kind and length     *)
(* first; a branch that ends with a store and a load comes before one that    *)
(* ends with a lock.                                                          *)
LexLess(s, t) ==
  \E k \in DOMAIN t : /\ k = Len(s) + 1 \/ (k <= Len(s) /\ s[k] < t[k])
                      /\ \A j \in 1..(k - 1) : s[j] = t[j]

KindOrder(B) == IF B.kind = "WR" THEN 0 ELSE 1
BranchKey(B) == [k \in DOMAIN B.evs |-> B.evs[k].iid \o FlattenSeq(B.evs[k].choices)]
BranchLess(A, B) ==
  \/ LexLess(<<KindOrder(A), Len(A.evs)>>, <<KindOrder(B), Len(B.evs)>>)
  \/ /\ A.kind = B.kind /\ Len(A.evs) = Len(B.evs)
     /\ \E k \in DOMAIN A.evs : /\ LexLess(BranchKey(A)[k], BranchKey(B)[k])
                                /\ \A j \in 1..(k - 1) : A.evs[j] = B.evs[j]

StoresAt(e) == {k \in DOMAIN e.bytes : e.bytes[k].st}
StoresBytes(e) == {e.bytes[k].addr : k \in StoresAt(e)}
IsMutexLock(e) ==
  /\ e.ld = 1 /\ e.st = 1 /\ Requires(e)
  /\ Len(e.bytes) = 2 /\ e.bytes[1].addr = e.bytes[2].addr

PositionIn(prefix, x) == CHOOSE k \in DOMAIN prefix : prefix[k] = x

(* normalise_branch: an insertion sort of all but the last events, by cb and  *)
(* then by name.  Coherence positions of stores that change places are        *)
(* adjusted.                                                                  *)
InOrder(c, e, f) == e.iid \in Ev(c, f.iid).cb \/ LexLess(e.iid, f.iid)

Swapped(c, evs, j) ==
  LET e == Ev(c, evs[j - 1].iid)
      f == Ev(c, evs[j].iid)
      same == {<<k, n>> \in StoresAt(e) \X StoresAt(f) : e.bytes[k].addr = f.bytes[n].addr}
      nudge(acc, kn) ==
        IF acc[j - 1].choices[kn[1]][2] < acc[j].choices[kn[2]][2]
        THEN [acc EXCEPT ![j].choices[kn[2]][2] = @ - 1]
        ELSE [acc EXCEPT ![j - 1].choices[kn[1]][2] = @ + 1]
      nudged == FoldSet(LAMBDA kn, acc : nudge(acc, kn), evs, same)
  IN  [nudged EXCEPT ![j] = nudged[j - 1], ![j - 1] = nudged[j]]

RECURSIVE SinkInto(_, _, _)
SinkInto(c, evs, j) ==
  IF j = 1 \/ InOrder(c, evs[j - 1], evs[j]) THEN evs
  ELSE SinkInto(c, Swapped(c, evs, j), j - 1)

Normalised(c, evs) ==
  FoldLeft(LAMBDA acc, j : SinkInto(c, acc, j), evs, [k \in 1..Len(evs) |-> k])

(* The branch for load r and store w: what has been committed from r's place  *)
(* on and comes before w in cb, then w and r, or only w when both are locks.  *)
(* A store that is not there moves the ones after it in coherence order.      *)
BranchFor(c, w, r, locks, cb, start) ==
  LET step(acc, y) ==
        LET e == Ev(c, y)
            before(a) == LET co == c.mem[a].co
                         IN  {co[j] : j \in 1..(CHOOSE n \in DOMAIN co : co[n] = y)} \ {y}
            choices == [k \in DOMAIN e.bytes |->
                         IF e.bytes[k].st
                         THEN [PlanOf(c, y).cur[k] EXCEPT
                                 ![2] = @ - Cardinality(before(e.bytes[k].addr) \cap acc.removed)]
                         ELSE PlanOf(c, y).cur[k]]
        IN  IF y \in cb THEN [acc EXCEPT !.evs = Append(@, [iid |-> y, choices |-> choices])]
            ELSE IF HasStore(e) THEN [acc EXCEPT !.removed = @ \cup {y}] ELSE acc
      needed == FoldLeft(step, [evs |-> <<>>, removed |-> {}], SubSeq(c.prefix, start, c.sched))
      dummy(y) == [iid |-> y, choices |-> <<>>]
  IN  [kind |-> IF locks THEN "STAR" ELSE "WR",
       evs |-> Normalised(c, needed.evs)
               \o (IF locks THEN <<dummy(w)>> ELSE <<dummy(w), dummy(r)>>)]

(* detect_rw_conflicts: a load that has been committed, may not have seen the *)
(* stores of w yet, and is not fixed by the branch it is in.                  *)
BranchAt(c, at, B) ==
  LET p == PlanOf(c, c.prefix[at])
      c1 == PowAssert(c, "the first event of a branch knows it",
                      p.start > 0 => p.start = at /\ p.branch # <<>>)
  IN  IF p.start = 0 \/ (p.branch # <<>> /\ BranchLess(p.branch, B))
      THEN Planning(c1, c.prefix[at], [p EXCEPT !.branches = @ \cup {B}])
      ELSE c1

DetectConflicts(c, w) ==
  LET e == Ev(c, w)
      withoutRf == ComputeCb(c, w, {})
      locks(r) == IsMutexLock(e) /\ IsMutexLock(Ev(c, r))
      loads == UNION {UNION Range(ByteOf(c, a).loads) : a \in StoresBytes(e)}
      open(r) == IF locks(r) THEN PlanOf(c, r).end = 0 /\ r \notin withoutRf
                 ELSE /\ r \notin e.cb
                      /\ PlanOf(c, r).end > 0 => c.prefix[PlanOf(c, r).end] = r
      conflicts == {r \in loads : ~(r[1] = w[1] /\ r[2] <= w[2]) /\ open(r)}
      place(d, r) == IF PlanOf(d, r).start > 0 THEN PlanOf(d, r).start ELSE PositionIn(d.prefix, r)
      branch(d, r) == BranchFor(d, w, r, locks(r), IF locks(r) THEN withoutRf ELSE e.cb, place(d, r))
  IN  FoldSet(LAMBDA r, d : BranchAt(d, place(d, r), branch(d, r)), c, conflicts)

(* --------------------------------- commit --------------------------------- *)

(* setup_relations_cur_param, without cb.                                     *)
SetupRelations(c, x, P) ==
  LET hbOut(y) == HbNew(P, y)
      hbIn(y) == (IF y \in P.afterI THEN P.I ELSE {}) \cup (IF y \in P.afterC THEN P.C ELSE {})
      if(S, y) == IF y \in S THEN {x} ELSE {}
      returned(y, rel) == Tabulated([k \in RelKinds |-> [fwd |-> rel[k].fwd \cup if(P.rel[k].bwd, y),
                                                         bwd |-> rel[k].bwd \cup if(P.rel[k].fwd, y)]])
      out(y) == {d[2] : d \in {d \in P.prop : d[1] = y}}
      in(y) == {d[1] : d \in {d \in P.prop : d[2] = y}}
      edges(y, rel) ==
        LET r == returned(y, IF y = x THEN P.rel ELSE rel)
        IN  [r EXCEPT !["hb"].fwd = @ \cup hbOut(y), !["hb"].bwd = @ \cup hbIn(y),
                      !["prop"].fwd = @ \cup out(y), !["prop"].bwd = @ \cup in(y)]
      event(y) == [Ev(c, y) EXCEPT !.rel = edges(y, @)]
  IN  [c EXCEPT !.fch = AtEach(@, LAMBDA p : AtEach(c.fch[p], LAMBDA i : event(<<p, i>>)))]

(* Mem::commit.                                                               *)
MemCommit(c, x, ba, choice) ==
  LET B == ByteOf(c, ba.addr)
      n == choice[2]
      from == <<choice[2], choice[3]>>
      j == IF from = NullIid THEN 0 ELSE CHOOSE k \in DOMAIN B.co : B.co[k] = from
      stored == [co |-> InsertAt(B.co, n + 1, x),
                 loads |-> [k \in 0..(Len(B.co) + 1) |->
                              IF k <= n THEN B.loads[k] ELSE IF k = n + 1 THEN {}
                              ELSE B.loads[k - 1]]]
      loaded == [B EXCEPT !.loads[j] = @ \cup {x}]
  IN  [c EXCEPT !.mem = (ba.addr :> IF ba.st THEN stored ELSE loaded) @@ @]

MemCommitAll(c, x, choices) ==
  FoldLeft(LAMBDA d, k : MemCommit(d, x, Ev(c, x).bytes[k], choices[k]), c,
           [k \in DOMAIN choices |-> k])

(* The parameters to choose from when they are computed anew.  (WantedAny:    *)
(* whatever the load of a branch reads from.)                                 *)
WantedAny(p, params) ==
  IF p.recalc = "PARAM" THEN SelectSeq(params, LAMBDA P : P.choices = p.cur) ELSE params

Wanted(p, params) ==
  CASE p.recalc = "LOAD"  -> SelectSeq(params, LAMBDA P : p.src \in P.rel["rf"].bwd)
    [] p.recalc = "PARAM" -> SelectSeq(params, LAMBDA P : P.choices = p.cur)
    [] OTHER              -> params

CommitWith(c, x, P) ==
  LET c1 == MemCommitAll(SetupRelations(c, x, P), x, P.choices)
      c2 == [c1 EXCEPT !.fch[x[1]][x[2]].cb = ComputeCb(c1, x, P.rel["rf"].bwd)]
  IN  [ok |-> TRUE, x |-> x, val |-> LoadedValue(c, x, P),
       c |-> [DetectConflicts(c2, x) EXCEPT
                !.fch[x[1]][x[2]].committed = TRUE,
                !.pending = IF Requires(Ev(c, x)) THEN @ ELSE @ - 1]]

(* commit.                                                                    *)
CommitOneOf(c, x, params) ==
  LET p == PlanOf(c, x)
      chosen == [p EXCEPT !.cur = Last(params).choices, !.param = Last(params),
                          !.new = Front(params), !.recalc = "NO"]
  IN  IF params = <<>> THEN [ok |-> FALSE, x |-> x, val |-> 0, c |-> DetectConflicts(c, x)]
      ELSE CommitWith(Planning(c, x, chosen), x, Last(params))
CommitAnew(c, x, all) ==
  LET p == PlanOf(c, x)
      c1 == PowAssert(PowAssert(c, "no parameters are left", p.new = <<>>),
                      "no thin air", ~all.thinAir)
  IN  CommitOneOf(c1, x, Wanted(p, all.params))

Commit(c, x, replay) ==
  LET p == PlanOf(c, x)
  IN  IF replay /\ p.recalc = "NO" THEN CommitWith(c, x, p.param)
      ELSE CommitAnew(c, x, PopulateParameters(c, x))

(* schedule, past the prefix: the first event that can be committed.          *)
FirstCommit(c) ==
  LET try(acc, x) ==
        IF acc.ok \/ ~Committable(acc.c, x) THEN acc ELSE Commit(acc.c, x, FALSE)
      inOrder == FlattenSeq([p \in DOMAIN c.fch |-> [i \in DOMAIN c.fch[p] |-> <<p, i>>]])
  IN  FoldLeft(try, [ok |-> FALSE, x |-> NullIid, val |-> 0, c |-> c], inOrder)

(* -------------------------------- one execution --------------------------- *)

MachineOf(s) == [code |-> s.code, thr |-> s.thr, local |-> s.local]
Interpreter(c) == [c |-> c, code |-> m.code, thr |-> m.thr, local |-> m.local]

PowInit ==
  /\ pc = "power-start"
  /\ b = PowFresh(setup.mm, <<>>, <<>>)
  /\ m = <<>> /\ vc = <<>>

Goes(s) == b' = s.c /\ m' = MachineOf(s)

PowStart ==
  /\ pc = "power-start"
  /\ Goes(StartRun(setup.prog.code, b))
  /\ pc' = "power-schedule"
  /\ UNCHANGED <<setup, vc, traces>>

(* The interpreter goes on with the event that was committed.                 *)
Executes(r) ==
  /\ Goes(RunEvent(Interpreter([r.c EXCEPT !.sched = @ + 1]), r.x, r.val))
  /\ UNCHANGED <<setup, pc, vc, traces>>

(* What tells executions apart: who reads from whom, and coherence.           *)
PowLog(mem) ==
  [co |-> {<<a, mem[a].co>> : a \in {d \in DOMAIN mem : mem[d].co # <<>>}},
   rf |-> UNION {UNION {{<<y, a, SourceOf(mem[a], j)>> : y \in mem[a].loads[j]} :
                          j \in DOMAIN mem[a].loads} : a \in DOMAIN mem}]

(* get_trace: an event that requires nothing is left when a branch failed.    *)
EndsExecution(c) ==
  /\ b' = c
  /\ traces' = Append(traces, [blocked |-> c.pending # 0, log |-> PowLog(c.mem)])
  /\ pc' = "power-reset"
  /\ UNCHANGED <<setup, m, vc>>

PowReplayed(r) ==
  LET end == PlanOf(r.c, r.x).end
  IN  IF r.ok THEN Executes(r)
      ELSE EndsExecution(PowAssert(r.c, "only the end of a branch fails",
                                   end > 0 /\ end - b.sched \in {1, 2}))
PowReplayEvent ==
  /\ pc = "power-schedule" /\ b.sched < Len(b.prefix)
  /\ LET x == b.prefix[b.sched + 1]
     IN  PowReplayed(Commit(PowAssert(b, "events of the prefix can be committed", Committable(b, x)),
                            x, TRUE))

PowScheduled(r) ==
  IF r.ok THEN Executes([r EXCEPT !.c.prefix = Append(@, r.x)]) ELSE EndsExecution(r.c)
PowScheduleNew ==
  /\ pc = "power-schedule" /\ b.sched = Len(b.prefix)
  /\ PowScheduled(FirstCommit(b))

(* ---------------------------------- reset --------------------------------- *)

LeftToTry(k) == PlanOf(b, b.prefix[k]).new # <<>> \/ PlanOf(b, b.prefix[k]).branches # {}
LastToTry == Max({0} \cup {k \in DOMAIN b.prefix : LeftToTry(k)})

(* What the fetched events keep: nothing, unless they stay in the prefix.     *)
NextRun(prefix, plan, broken) ==
  LET dropped == Iids(b) \ Range(prefix)
  IN  [PowFresh(setup.mm, prefix, [x \in DOMAIN plan \ dropped |-> plan[x]]) EXCEPT !.broken = broken]

(* Another parameter.  In a branch only its last store and load have any; the *)
(* load is then to read from that store again.                                *)
PowTryParameter ==
  /\ pc = "power-reset" /\ LastToTry > 0
  /\ LET k == LastToTry
         x == b.prefix[k]
         p == PlanOf(b, x)
         chosen == Planning(b, x, [p EXCEPT !.cur = Last(p.new).choices, !.param = Last(p.new),
                                            !.new = Front(p.new)])
         len == IF p.start > 0 THEN p.end ELSE k
         loads == p.start > 0 /\ k # p.end
         next == IF loads THEN b.prefix[k + 1] ELSE x
         q == PlanOf(b, next)
         fine == /\ p.start > 0 => p.end \in {k, k + 1}
                 /\ loads => q.branches = {} /\ q.new = <<>> /\ q.src = x
         c == IF loads THEN Planning(chosen, next, [q EXCEPT !.recalc = "LOAD"]) ELSE chosen
     IN  /\ p.new # <<>>
         /\ b' = NextRun(SubSeq(b.prefix, 1, len), c.plan,
                         PowAssert(b, "only the end of a branch has parameters", fine).broken)
  /\ pc' = "power-start"
  /\ UNCHANGED <<setup, m, vc, traces>>

(* What event j of a branch has to do: take the parameter of the branch,      *)
(* computed anew; at the end, any parameter, or one that reads from the       *)
(* store.  (RecalcTail: what comes before the end as it was recorded.)        *)
AtTail(B, j) == j = Len(B.evs) \/ (B.kind = "WR" /\ j = Len(B.evs) - 1)
TailRecalc(B, j) == IF B.kind = "WR" /\ j = Len(B.evs) THEN "LOAD" ELSE "STAR"
RecalcTail(B, j) == IF AtTail(B, j) THEN TailRecalc(B, j) ELSE "NO"
Recalc(B, j) == IF AtTail(B, j) THEN TailRecalc(B, j) ELSE "PARAM"

InBranch(c, B, k, j) ==
  LET p == PlanOf(c, B.evs[j].iid)
      n == Len(B.evs)
  IN  [p EXCEPT
         !.cur = B.evs[j].choices, !.start = k, !.end = k + n - 1,
         !.branches = IF j = 1 THEN PlanOf(c, c.prefix[k]).branches \ {B} ELSE {}, !.new = <<>>,
         !.branch = IF j = 1 THEN B ELSE @, !.recalc = Recalc(B, j),
         !.src = IF Recalc(B, j) = "LOAD" THEN B.evs[n - 1].iid ELSE @]

(* Another branch, the least.                                                 *)
PowTryBranch ==
  /\ pc = "power-reset" /\ LastToTry > 0
  /\ LET k == LastToTry
         p == PlanOf(b, b.prefix[k])
         B == CHOOSE A \in p.branches : \A D \in p.branches \ {A} : BranchLess(A, D)
         iids == [j \in DOMAIN B.evs |-> B.evs[j].iid]
         plan == [x \in Range(iids) |-> InBranch(b, B, k, PositionIn(iids, x))] @@ b.plan
     IN  /\ p.new = <<>>
         /\ b' = NextRun(SubSeq(b.prefix, 1, k - 1) \o iids, plan, b.broken)
  /\ pc' = "power-start"
  /\ UNCHANGED <<setup, m, vc, traces>>

PowStop ==
  /\ pc = "power-reset" /\ LastToTry = 0
  /\ pc' = "done"
  /\ UNCHANGED <<setup, b, m, vc, traces>>

PowNext ==
  \/ PowStart \/ PowReplayEvent \/ PowScheduleNew
  \/ PowTryParameter \/ PowTryBranch \/ PowStop

(* -------------------------------- properties ------------------------------ *)

(***************************************************************************)
(* An event that is replayed is committed with the parameter recorded for  *)
(* it, and nothing is checked again (the STATUS_COMPLETE case of commit):  *)
(* whatever was tried in between, that parameter is still one the axioms   *)
(* allow, with the same edges.                                             *)
(***************************************************************************)
RecordedStillAllowed ==
  pc = "power-schedule" /\ b.sched < Len(b.prefix) =>
    LET x == b.prefix[b.sched + 1]
    IN  PlanOf(b, x).recalc = "NO" => PlanOf(b, x).param \in Range(PopulateParameters(b, x).params)
===============================================================================
