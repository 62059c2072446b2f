----------------------------- MODULE RFSCPrefixes -----------------------------
(* compute_prefixes of src/src/RFSCTraceBuilder.cpp: the clocks of a finished *)
(* execution x (see RFSCEvents), its place in the unfolding, the reads and    *)
(* locks that could have gone another way, and for each of them the events of *)
(* an execution in which they do.                                             *)
EXTENDS RFSCEvents, RFSCGraph

XDepth(e) == Len(e.node) - 1

IsLockType(s) == s.kind \in {"M_INIT", "M_LOCK", "M_UNLOCK", "M_DELETE"} \cup TryKinds
SymLoads(s) == s.kind \in {"LOAD", "RMW", "CMPXHG", "CMPXHGFAIL"} \/ IsLockType(s)
SymStores(s) == s.kind \in {"STORE", "RMW", "CMPXHG"} \/ IsLockType(s)
DoesLock(s) == s.kind \in {"M_LOCK", "M_TRYLOCK"}

(* find_process_event: the event that holds the index-th step of thread p.    *)
ProcessEvent(x, p, index) == x.thr[p + 1].idx[index]
PoBefore(x, e) == IF e.index = 1 THEN {} ELSE {ProcessEvent(x, e.pid, e.index - 1)}

(* get_data: what a read from position k gets.                                *)
DataOf(prefix, k) == IF k = 0 THEN 0 ELSE prefix[k].sym.val

(* --------------------------------- clocks --------------------------------- *)

(* A thread's first event comes after the event that spawned it.              *)
AfterSpawn(x) ==
  [x EXCEPT !.prefix = [k \in DOMAIN @ |->
     IF @[k].index = 1 /\ x.thr[@[k].pid + 1].spawn > 0
     THEN [@[k] EXCEPT !.after = @ \cup {x.thr[x.prefix[k].pid + 1].spawn}] ELSE @[k]]]

XZero(x) == [p \in 0 .. Len(x.thr) - 1 |-> 0]

(* compute_above_clock: what comes before e whatever it reads.                *)
AboveClock(x, clocks, e) ==
  GJoin({clocks[k] : k \in PoBefore(x, e) \cup e.after},
        [XZero(x) EXCEPT ![e.pid] = e.index])

(* compute_vclocks: per event, what comes before it (clock), what does        *)
(* whatever it reads (above), and where in each thread the first event after  *)
(* it is (below).  The top of the below clocks is the length of a thread.     *)
XClocks(x) ==
  LET Up(acc, k) ==
        LET e == x.prefix[k]
            above == AboveClock(x, acc.clock, e)
        IN  [above |-> Append(acc.above, above),
             clock |-> Append(acc.clock,
                              IF e.rf <= 0 THEN above ELSE GJoin({acc.clock[e.rf]}, above))]
      up == FoldLeft(Up, [above |-> <<>>, clock |-> <<>>], [k \in DOMAIN x.prefix |-> k])
      succ(k) == {n \in DOMAIN x.prefix :
                    k \in PoBefore(x, x.prefix[n]) \cup x.prefix[n].after \cup {x.prefix[n].rf}}
      top == [p \in DOMAIN XZero(x) |-> Len(x.thr[p + 1].idx)]
      Down(acc, k) ==
        acc @@ (k :> GMeet({acc[n] : n \in succ(k)},
                           [top EXCEPT ![x.prefix[k].pid] = x.prefix[k].index]))
  IN  [clock |-> up.clock, above |-> up.above,
       below |-> FoldLeft(Down, <<>>, Reverse([k \in DOMAIN x.prefix |-> k]))]

HappensBefore1(e, clock) == e.index <= clock[e.pid]

(* -------------------------------- unfolding ------------------------------- *)

(* An unfolding node is the event of a thread after `parent` (0: its first)   *)
(* that reads from `rf` (0: nothing or the initial value).  A table of them   *)
(* stands for the tree: get_or_create gives the same node to whoever asks.    *)
UnfNode(cpid, parent, rf) == [cpid |-> cpid, parent |-> parent, rf |-> rf]
FindUnf(unf, node) ==
  IF node \in ToSet(unf) THEN CHOOSE n \in DOMAIN unf : unf[n] = node ELSE Len(unf) + 1
WithUnf(unf, node) == IF node \in ToSet(unf) THEN unf ELSE Append(unf, node)

UnfOf(prefix, k) == IF k <= 0 THEN 0 ELSE prefix[k].unf
UnfParent(x, e) == UnfOf(x.prefix, Max({0} \cup PoBefore(x, e)))

(* compute_unfolding: give each event its unfolding node, and each new read a *)
(* decision node below the deepest one so far.  What decides is what it reads *)
(* from, but a mutex operation is known by its own node.                      *)
Unfold(acc, k) ==
  LET x == acc.x
      e == x.prefix[k]
      parent == UnfParent(x, e)
      work == IF Len(e.node) > Len(acc.work) THEN e.node ELSE acc.work
      node == UnfNode(x.thr[e.pid + 1].cpid, parent, UnfOf(x.prefix, e.rf))
      u    == FindUnf(acc.unf, node)
      new  == Append(work, IF IsLockType(e.sym) THEN u ELSE node.rf)
      decides == k > x.point /\ SymLoads(e.sym)
  IN  IF ~e.may /\ parent # 0
      THEN [acc EXCEPT !.work = work, !.x.prefix[k].unf = parent]
      ELSE [x |-> XAssert([x EXCEPT !.prefix[k].unf = u,
                                    !.prefix[k].node = IF decides THEN new ELSE @],
                          "a new decision is new", ~decides \/ new \notin acc.known),
            unf |-> WithUnf(acc.unf, node),
            work |-> IF decides THEN new ELSE work,
            known |-> IF decides THEN acc.known \cup {new} ELSE acc.known]

ComputeUnfolding1(x, work, unf, known) ==
  FoldLeft(Unfold, [x |-> AfterSpawn(x), work |-> work, unf |-> unf, known |-> known],
           [k \in DOMAIN x.prefix |-> k])

(* ------------------------------ what could change ------------------------- *)

(* An attempt is [kind, i, j]: i is the event that decides, and               *)
(*   "read"    - i reads from j instead                                       *)
(*   "rmw"     - i and j, which reads from i, change places                   *)
(*   "swap"    - j takes the mutex before i does                              *)
(*   "blocked" - thread j, which was refused the mutex, takes it instead of i *)
Attempt(kind, i, j) == [kind |-> kind, i |-> i, j |-> j]

AccessesTo(x, a) ==
  Sorted({k \in DOMAIN x.prefix : SymStores(x.prefix[k].sym) /\ x.prefix[k].sym.addr = a})

(* The mutex operations that could come in place of operation i: the next one *)
(* on the mutex, and the next lock after the unlock of this one; when i is    *)
(* the last, whoever was refused.                                             *)
LockAttempts(x, i) ==
  LET s(k) == x.prefix[k].sym
      acc  == SelectSeq(AccessesTo(x, s(i).addr), LAMBDA k : k > i)
      past == {n \in DOMAIN acc : \A q \in 1 .. n : s(acc[q]).kind = "M_TRYLOCK_FAIL"}
      n    == 1 + Cardinality(past)
      relock == /\ DoesLock(s(i)) /\ n < Len(acc)
                /\ s(acc[n]).kind = "M_UNLOCK" /\ s(acc[n + 1]).kind = "M_LOCK"
  IN  IF acc = <<>>
      THEN IF DoesLock(s(i))
           THEN [k \in DOMAIN x.dead[s(i).addr] |-> Attempt("blocked", i, x.dead[s(i).addr][k])]
           ELSE <<>>
      ELSE IF s(i).kind = "M_UNLOCK" /\ s(acc[1]).kind = "M_LOCK" THEN <<>>
      ELSE <<Attempt("swap", i, acc[1])>>
           \o (IF relock THEN <<Attempt("swap", i, acc[n + 1])>> ELSE <<>>)

(* is_store_when_reading_from *)
StoresReading(x, j, from) ==
  LET s == x.prefix[j].sym
  IN  \/ s.kind \in {"STORE", "RMW"}
      \/ s.kind \in {"CMPXHG", "CMPXHGFAIL"} /\ s.exp = DataOf(x.prefix, from)

\* Faulty variant of VisibleWrites: the write that comes before i anyway is
\* left out.
WritesAfter(x, vc, i, p) ==
  SelectSeq(AccessesTo(x, x.prefix[i].sym.addr),
            LAMBDA k : /\ x.prefix[k].pid = p
                       /\ x.prefix[k].index > vc.above[i][p]
                       /\ x.prefix[k].index < vc.below[i][p])

(* The writes of thread p to i's address that i might see: the last one among *)
(* those that come before it anyway, and all later ones up to those that come *)
(* after it.  The first of the latter is taken as well when i could change    *)
(* places with it.                                                            *)
VisibleWrites(x, vc, i, p) ==
  LET ws == SelectSeq(AccessesTo(x, x.prefix[i].sym.addr),
                      LAMBDA k : x.prefix[k].pid = p)
      index(n) == x.prefix[ws[n]].index
      start == Max({1} \cup {n \in DOMAIN ws : index(n) <= vc.above[i][p]})
      last  == Max({0} \cup {n \in DOMAIN ws : index(n) < vc.below[i][p]})
      extra == /\ last < Len(ws) /\ SymStores(x.prefix[i].sym)
               /\ SymLoads(x.prefix[ws[last + 1]].sym)
  IN  SubSeq(ws, start, IF extra THEN last + 1 ELSE last)

(* try_read_from(j), as far as it decides what to try.                        *)
ReadAttempt(x, i, j) ==
  LET from == x.prefix[i].rf
      pair == j > i /\ SymStores(x.prefix[i].sym) /\ SymLoads(x.prefix[j].sym)
  IN  IF j \in {from, i} THEN <<>>
      ELSE IF ~pair THEN <<Attempt("read", i, j)>>
      ELSE IF StoresReading(x, j, from) /\ x.prefix[j].rf = i
      THEN <<Attempt("rmw", i, j)>> ELSE <<>>

(* What load i could read instead: writes by each thread, the initial value,  *)
(* and a compare-exchange that failed because of i.                           *)
ReadAttempts(x, vc, i) ==
  LET fails == SelectSeq([k \in DOMAIN x.prefix |-> k], LAMBDA k :
                 /\ k > i /\ x.prefix[k].sym.kind = "CMPXHGFAIL"
                 /\ x.prefix[k].sym.addr = x.prefix[i].sym.addr)
      of(js) == FlattenSeq([n \in DOMAIN js |-> ReadAttempt(x, i, js[n])])
  IN  FlattenSeq([p \in 1 .. Len(x.thr) |-> of(VisibleWrites(x, vc, i, p - 1))])
      \o of(<<0>>) \o (IF SymStores(x.prefix[i].sym) THEN of(fails) ELSE <<>>)

(* compute_prefixes: all attempts, in the order they are made.                *)
Attempts(x, vc) ==
  FlattenSeq([i \in DOMAIN x.prefix |->
    IF x.prefix[i].pinned \/ ~SymLoads(x.prefix[i].sym) THEN <<>>
    ELSE IF IsLockType(x.prefix[i].sym) THEN LockAttempts(x, i)
    ELSE ReadAttempts(x, vc, i)])

(* ------------------------------ one attempt ------------------------------- *)

(* The event of thread j that the lock it was refused would be.               *)
BlockedEvent(x, a) ==
  LET thr == x.thr[a.j + 1]
  IN  [XEvent(a.j, Len(thr.idx) + 1) EXCEPT
         !.sym = SymOn("M_LOCK", x.prefix[a.i].sym.addr),
         !.after = IF thr.idx = <<>> THEN {thr.spawn} ELSE {}]

(* The unfolding node the decision would be known by: of what i reads then,   *)
(* or of j in i's place (unfold_alternative, unfold_find_unfolding_node).     *)
AlternativeNode(x, unf, a) ==
  LET i == x.prefix[a.i]
  IN  IF a.kind = "blocked"
      THEN UnfNode(x.thr[a.j + 1].cpid, UnfParent(x, BlockedEvent(x, a)),
                   UnfOf(x.prefix, i.rf))
      ELSE UnfNode(x.thr[x.prefix[a.j].pid + 1].cpid,
                   unf[x.prefix[a.j].unf].parent, unf[i.unf].rf)

(* can_swap_by_vclocks, can_swap_lock_by_vclocks, can_rf_by_vclocks           *)
AllowedByClocks(x, vc, a) ==
  LET i == x.prefix[a.i]
      w == i.rf
  IN  CASE a.kind = "blocked" ->
             ~HappensBefore1(i, AboveClock(x, vc.clock, BlockedEvent(x, a)))
        [] a.kind = "read" ->
             \/ w = 0
             \/ a.j # 0 /\ ~HappensBefore1(x.prefix[a.j], vc.clock[w])
             \/ ~HappensBefore1(x.prefix[w], vc.above[a.i])
        [] OTHER -> ~HappensBefore1(i, vc.above[a.j])

\* Faulty variant of RecomputeSuccess: a compare-exchange is taken to do what it did.
KeepSuccess(prefix, k) == prefix

(* recompute_cmpxhg_success                                                   *)
RecomputeSuccess(prefix, k) ==
  LET s == prefix[k].sym
  IN  IF s.kind \in {"CMPXHG", "CMPXHGFAIL"}
      THEN [prefix EXCEPT ![k].sym.kind =
              IF s.exp = DataOf(prefix, prefix[k].rf) THEN "CMPXHG" ELSE "CMPXHGFAIL"]
      ELSE prefix

Changed(x, a) ==
  CASE a.kind = "read"    -> <<a.i>>
    [] a.kind = "rmw"     -> <<a.j, a.i>>
    [] a.kind = "swap"    -> <<a.j>>
    [] a.kind = "blocked" -> <<Len(x.prefix) + 1>>

(* The prefix with the attempt made in it.                                    *)
Altered(x, a) ==
  LET pre == x.prefix
      i == pre[a.i]
  IN  CASE a.kind = "read" ->
             RecomputeSuccess([pre EXCEPT ![a.i].rf = a.j], a.i)
        [] a.kind = "rmw" ->
             RecomputeSuccess(RecomputeSuccess(
               [pre EXCEPT ![a.j].rf = i.rf, ![a.i].rf = a.j], a.j), a.i)
        [] a.kind = "swap" ->
             [pre EXCEPT ![a.j].rf = i.rf, ![a.j].node = i.node,
                         ![a.i].node = pre[a.j].node]
        [] a.kind = "blocked" ->
             Append([pre EXCEPT ![a.i].node = <<>>, ![a.i].pinned = TRUE],
                    [BlockedEvent(x, a) EXCEPT !.rf = i.rf, !.node = i.node])

(* causal_past(depth): the decisions up to depth, and all they come after.    *)
RECURSIVE PastOf(_, _)
PastOf(x, ks) ==
  LET more == ks \cup UNION {(PoBefore(x, x.prefix[k]) \cup x.prefix[k].after
                               \cup {x.prefix[k].rf}) \ {0, NoRead} : k \in ks}
  IN  IF more = ks THEN ks ELSE PastOf(x, more)

CausalPast(x, depth) ==
  PastOf(x, {k \in DOMAIN x.prefix : x.prefix[k].node # <<>> /\ XDepth(x.prefix[k]) <= depth})

(* The assertions of causal_past.                                             *)
DecisionsAreLoads(x) ==
  \A k \in DOMAIN x.prefix :
    /\ ~(x.prefix[k].node # <<>> /\ x.prefix[k].pinned)
    /\ SymLoads(x.prefix[k].sym) <=> (x.prefix[k].node # <<>> \/ x.prefix[k].pinned)

Iid(x, k) == <<x.prefix[k].pid, x.prefix[k].index>>

(* add_event_to_graph *)
GraphEvent(x, k) ==
  LET e == x.prefix[k]
  IN  [pid |-> e.pid, iid |-> Iid(x, k), load |-> SymLoads(e.sym), store |-> SymStores(e.sym),
       addr |-> IF SymLoads(e.sym) \/ SymStores(e.sym) THEN e.sym.addr ELSE 0,
       rf |-> IF e.rf <= 0 THEN <<>> ELSE Iid(x, e.rf),
       after |-> {Iid(x, n) : n \in e.after}]

AddPrefixEvents(g, x, ks) ==
  FoldLeft(LAMBDA acc, k : IF HasEvent(acc, Iid(x, k)) THEN acc
                           ELSE AddGraphEvent(acc, GraphEvent(x, k)),
           g, Sorted(ks))

(* get_cached_graph: what base lacks of the decisions above the given depth.  *)
BuildGraph(base, x, depth) == Saturate(AddPrefixEvents(base, x, CausalPast(x, depth - 1)))

(* ------------------------------ the sat solver ---------------------------- *)

(* output_formula: the events in keep can be put in an order in which r comes *)
(* after what comes before it for good and after the write it reads from, and *)
(* no other write comes in between.  `writes` are the stores of the trace.    *)
(* check_sat and get_model: one such order, <<>> if there is none.            *)
MayComeNext(x, keep, writes, done, k) ==
  LET e == x.prefix[k]
  IN  /\ (PoBefore(x, e) \cup e.after \cup ({e.rf} \ {0, NoRead})) \subseteq done
      /\ k \in writes =>
           \A r \in keep \ (done \cup {k}) :
             \/ x.prefix[r].rf = NoRead
             \/ x.prefix[r].sym.addr # e.sym.addr
             \/ x.prefix[r].rf = k
             \/ x.prefix[r].rf # 0 /\ x.prefix[r].rf \notin done

RECURSIVE FindOrder(_, _, _, _)
FindOrder(x, keep, writes, order) ==
  LET done == ToSet(order)
      next == {k \in keep \ done : MayComeNext(x, keep, writes, done, k)}
  IN  IF done = keep THEN order
      ELSE FoldSet(LAMBDA k, found : IF found # <<>> THEN found
                                     ELSE FindOrder(x, keep, writes, Append(order, k)),
                   <<>>, next)

(* ---------------------------------- try_sat ------------------------------- *)

(* order_to_leaf: decisions below this one are pinned.  `reads` is what the   *)
(* leaf is for: which event each of its events is to read from.               *)
LeafOf(x, changed, depth, order) ==
  [n \in DOMAIN order |->
     LET e == x.prefix[order[n]]
     IN  [pid |-> e.pid, sym |-> e.sym,
          size   |-> IF order[n] \in ToSet(changed) THEN 1 ELSE e.size,
          depth  |-> IF XDepth(e) > depth THEN -1 ELSE XDepth(e),
          pinned |-> e.pinned \/ XDepth(e) > depth,
          reads  |-> IF e.rf <= 0 THEN <<>> ELSE Iid(x, e.rf)]]

(* The graph of the whole attempt, the changed event added last.              *)
AttemptGraph(g, x, keep, last) ==
  Saturate(AddGraphEvent(AddPrefixEvents(g, x, keep \ {last}), GraphEvent(x, last)))

(* The order the heuristic finds, or else the solver.                         *)
HeuristicOrder(x, g) ==
  TryGeneratePrefix(g, SelectSeq([k \in DOMAIN x.prefix |-> Iid(x, k)], LAMBDA iid : HasEvent(g, iid)))
OrderOf(x, keep, stores, iids) ==
  IF iids # <<>> THEN [n \in DOMAIN iids |-> CHOOSE k \in DOMAIN x.prefix : Iid(x, k) = iids[n]]
  ELSE FindOrder(x, keep, {k \in stores : SymStores(x.prefix[k].sym)}, <<>>)

(* try_sat: the leaf that makes the attempt, <<>> if there is none.  x is the *)
(* execution with the attempt made in it, base the cached graph.              *)
SatLeaf(x, changed, keep, g, stores, heuristic) ==
  IF g.cyclic THEN <<>>
  ELSE LeafOf(x, changed, XDepth(x.prefix[Last(changed)]),
              OrderOf(x, keep, stores, IF heuristic THEN HeuristicOrder(x, g) ELSE <<>>))
TrySat(x, changed, base, stores, heuristic) ==
  LET last == Last(changed)
      keep == CausalPast(x, XDepth(x.prefix[last]))
  IN  SatLeaf(x, changed, keep, AttemptGraph(base, x, keep, last), stores, heuristic)

(* reset(): the events a leaf prescribes, for the work item it belongs to.    *)
ReplayPrefix(work, leaf) ==
  [n \in DOMAIN leaf |->
     LET br == leaf[n]
         before == SelectSeq(SubSeq(leaf, 1, n - 1), LAMBDA q : q.pid = br.pid)
     IN  [XEvent(br.pid, 1 + FoldLeft(LAMBDA s, q : s + q.size, 0, before)) EXCEPT
            !.size = br.size, !.sym = br.sym, !.pinned = br.pinned,
            !.node = SubSeq(work, 1, br.depth + 1)]]
===============================================================================
