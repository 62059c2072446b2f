------------------------------ MODULE RFSCGraph -------------------------------
(* The saturated graph of src/src/SaturatedGraph.cpp and the prefix heuristic *)
(* of src/src/PrefixHeuristic.cpp: is there an execution with these events in *)
(* which every read reads from the write it is meant to?  A graph is a value: *)
(*   ev      - the events, in the order they were added; an ID is a position  *)
(*   edges   - the pairs <<from, to>> of `ins` and `outs`, but for program    *)
(*             order and reads-from, which the events hold themselves         *)
(*   vclocks - per event how much of each thread is known to come before it   *)
(*   wq      - the IDs whose clock is to be computed again, first come first  *)
(*   until   - saturated_until: how many events the last saturation saw       *)
(*   cyclic  - the last saturation found a cycle                              *)
(*   broken  - the assertions that failed                                     *)
(* An ID of 0 is "none".                                                      *)
EXTENDS Integers, Sequences, FiniteSets, SequencesExt, FiniteSetsExt, TLC

EmptyGraph(threads) ==
  [threads |-> 0 .. threads - 1, ev |-> <<>>, edges |-> {}, vclocks |-> <<>>,
   wq |-> <<>>, until |-> 0, cyclic |-> FALSE, broken |-> {}]

GIds(g) == DOMAIN g.ev
HasEvent(g, iid) == \E id \in GIds(g) : g.ev[id].iid = iid
IdOf(g, iid) == CHOOSE id \in GIds(g) : g.ev[id].iid = iid

Readers(g, id) == {r \in GIds(g) : g.ev[r].rf = id}
Ins(g, id) == {i \in GIds(g) : <<i, id>> \in g.edges}
Outs(g, id) == {o \in GIds(g) : <<id, o>> \in g.edges}
PoSuccessor(g, id) == {s \in GIds(g) : g.ev[s].pred = id}
GEventsOf(g, p) == {id \in GIds(g) : g.ev[id].pid = p}
WritesOf(g, p, addr) ==
  {w \in GEventsOf(g, p) : g.ev[w].store /\ g.ev[w].addr = addr}
ReadsFromInit(g, addr) ==
  {r \in GIds(g) : g.ev[r].load /\ g.ev[r].rf = 0 /\ g.ev[r].addr = addr}

(* All that come right after id: foreach_succ, add_successors_to_wq.          *)
Successors1(g, id) == PoSuccessor(g, id) \cup Readers(g, id) \cup Outs(g, id)

(* The numbers of a set, least first.                                         *)
Sorted(ids) == SelectSeq([n \in 1 .. Max({0} \cup ids) |-> n], LAMBDA n : n \in ids)

(* The work queue holds an ID at most once.                                   *)
WqAdd(g, ids) ==
  [g EXCEPT !.wq = @ \o Sorted(ids \ ToSet(@))]
WqAddFirst(g, id) ==
  [g EXCEPT !.wq = IF id \in ToSet(@) THEN @ ELSE <<id>> \o @]

GAssert(g, what, holds) == IF holds THEN g ELSE [g EXCEPT !.broken = @ \cup {what}]

AddEdges(g, es) ==
  WqAdd([g EXCEPT !.edges = @ \cup es], {e[2] : e \in es})

(* -------------------------------- add_event ------------------------------- *)

(* The first write of each thread to addr.                                    *)
FirstWrites(g, addr) ==
  {Min(WritesOf(g, p, addr)) :
     p \in {q \in g.threads : WritesOf(g, q, addr) # {}}}

(* add_event: e names the events it reads from and comes after by their iids. *)
(* A read of the initial value comes before the first write of each thread,   *)
(* and the first write of a thread after the reads of the initial value.      *)
AddGraphEvent(g, e) ==
  LET id    == Len(g.ev) + 1
      mine  == GEventsOf(g, e.pid)
      pred  == Max({0} \cup mine)
      rf    == IF e.rf = <<>> THEN 0 ELSE IdOf(g, e.rf)
      init  == e.load /\ rf = 0
      first == e.store /\ WritesOf(g, e.pid, e.addr) = {}
      later == IF init THEN FirstWrites(g, e.addr) ELSE {}
      new   == [pid |-> e.pid, nth |-> Cardinality(mine) + 1, iid |-> e.iid,
                load |-> e.load, store |-> e.store, addr |-> e.addr, rf |-> rf,
                pred |-> pred]
      g1 == WqAdd([g EXCEPT
              !.ev = Append(@, new),
              !.vclocks = Append(@, [p \in g.threads |-> 0]),
              !.edges = @ \cup {<<id, w>> : w \in later}
                          \cup {<<IdOf(g, i), id>> : i \in e.after}
                          \cup (IF first THEN {<<r, id>> : r \in ReadsFromInit(g, e.addr)}
                                ELSE {})], later)
  IN  WqAdd(g1, {id})

(* -------------------------------- saturate -------------------------------- *)

GLeq(u, v) == \A p \in DOMAIN u : u[p] <= v[p]
GJoin(vcs, u) == [p \in DOMAIN u |-> Max({u[p]} \cup {v[p] : v \in vcs})]
GMeet(vcs, u) == [p \in DOMAIN u |-> Min({u[p]} \cup {v[p] : v \in vcs})]

Before(g, id) == (Ins(g, id) \cup {g.ev[id].pred, g.ev[id].rf}) \ {0}

RecomputeVC(g, id) ==
  GJoin({g.vclocks[i] : i \in Before(g, id)},
        [p \in g.threads |-> IF p = g.ev[id].pid THEN g.ev[id].nth ELSE 0])

IsInCycle(g, id, vc) == \E i \in Before(g, id) : g.vclocks[i] = vc

(* The last writes to id's address that its new clock includes, one of each   *)
(* thread, when the old clock did not.                                        *)
NewlyVisible(g, id, vc) ==
  LET old == g.vclocks[id]
      seen(p) == {w \in WritesOf(g, p, g.ev[id].addr) \ {id} : g.ev[w].nth <= vc[p]}
      e == g.ev[id]
  IN  IF ~e.load /\ ~e.store THEN {}
      ELSE {Max(seen(p)) : p \in {q \in g.threads :
              /\ old[q] < vc[q]
              /\ seen(q) # {} /\ g.ev[Max(seen(q))].nth > old[q]}}

(* One event off the work queue.  A write comes after those who read from     *)
(* writes before it; a write before a read, other than the one it reads from, *)
(* comes before that one.                                                     *)
SaturateOne(g) ==
  LET id  == Head(g.wq)
      h   == [g EXCEPT !.wq = Tail(@)]
      e   == g.ev[id]
      vc  == RecomputeVC(g, id)
      ws  == NewlyVisible(g, id, vc)
      fr  == IF e.store THEN {<<r, id>> : r \in UNION {Readers(g, w) : w \in ws} \ {id}}
             ELSE {}
      co  == IF e.load THEN {<<w, e.rf>> : w \in ws \ {e.rf}} ELSE {}
      h1  == WqAdd([h EXCEPT !.edges = @ \cup fr, !.vclocks[id] = vc],
                   Successors1(g, id))
      h2  == IF fr # {} THEN WqAddFirst(h1, id) ELSE h1
  IN  IF IsInCycle(g, id, vc) THEN [h EXCEPT !.cyclic = TRUE]
      ELSE IF vc = g.vclocks[id] THEN h
      ELSE IF e.load /\ e.rf = 0 /\ ws # {} THEN [h EXCEPT !.cyclic = TRUE]
      ELSE AddEdges(h2, co)

RECURSIVE SaturateAll(_)
SaturateAll(g) ==
  IF g.wq = <<>> \/ g.cyclic THEN g ELSE SaturateAll(SaturateOne(g))

(* The events reachable from id, those that come last first.                  *)
RECURSIVE AddToCare(_, _, _)
AddToCare(g, care, id) ==
  IF id \in care.set THEN care
  ELSE LET c == FoldSet(LAMBDA s, acc : AddToCare(g, acc, s),
                        [care EXCEPT !.set = @ \cup {id}], Successors1(g, id))
       IN  [c EXCEPT !.vec = Append(@, id)]

(* Old writes that new events read from, and all that come after them.        *)
ReverseCare(g) ==
  FoldSet(LAMBDA id, care : AddToCare(g, care, id), [set |-> {}, vec |-> <<>>],
          {g.ev[id].rf : id \in {i \in (g.until + 1) .. Len(g.ev) : g.ev[i].load}}
          \cap (1 .. g.until))

\* Faulty variant of ReverseSaturate: new readers of old writes get no edges.
ForwardOnly(g) == [g EXCEPT !.until = Len(g.ev)]

(* reverse_saturate: new readers of an old write come before the writes that  *)
(* are known to follow it, which forward saturation will not visit again.     *)
ReverseSaturate(g) ==
  LET top == [p \in g.threads |-> Cardinality(GEventsOf(g, p)) + 1]
      care == ReverseCare(g)
      Below(acc, id) ==
        acc @@ (id :> GMeet({IF s \in DOMAIN acc THEN acc[s]
                             ELSE [p \in g.threads |-> 0] : s \in Successors1(g, id)},
                            [top EXCEPT ![g.ev[id].pid] = g.ev[id].nth]))
      below == FoldLeft(Below, <<>>, care.vec)
      new(id) == {r \in Readers(g, id) : r > g.until}
      first(id, p) == {w \in WritesOf(g, p, g.ev[id].addr) \ {id} :
                         g.ev[w].nth >= below[id][p]}
      fr == UNION {{<<r, Min(first(id, p))>> : r \in new(id)} :
                   <<id, p>> \in {q \in care.set \X g.threads : first(q[1], q[2]) # {}}}
  IN  IF g.until \in {0, Len(g.ev)} THEN [g EXCEPT !.until = Len(g.ev)]
      ELSE GAssert(AddEdges([g EXCEPT !.until = Len(g.ev)],
                            {e \in fr : e[1] # e[2]}),
                   "a process event's index is positive",
                   \A id \in care.set : new(id) = {} \/ \A p \in g.threads : below[id][p] > 0)

Saturate(g) == SaturateAll(ReverseSaturate([g EXCEPT !.cyclic = FALSE]))

(* ---------------------------- the prefix heuristic ------------------------ *)

(* Insert write w after the last write to its address that it is not known to *)
(* come before.                                                               *)
PlaceWrite(acc, w) ==
  LET g   == acc.g
      a   == g.ev[w].addr
      co  == IF a \in DOMAIN acc.co THEN acc.co[a] ELSE <<>>
      k   == Max({0} \cup {n \in DOMAIN co : ~GLeq(g.vclocks[w], g.vclocks[co[n]])})
      es  == (IF k > 0 THEN {<<co[k], w>>} ELSE {})
             \cup (IF k < Len(co) THEN {<<w, co[k + 1]>>} ELSE {})
  IN  IF g.cyclic \/ ~g.ev[w].store THEN acc
      ELSE [g |-> Saturate(AddEdges(g, es)), co |-> (a :> InsertAt(co, k + 1, w)) @@ acc.co]

RECURSIVE ToposortFrom(_, _, _)
ToposortFrom(g, done, id) ==
  IF id \in ToSet(done) THEN done
  ELSE Append(FoldSet(LAMBDA i, acc : ToposortFrom(g, acc, i), done, Before(g, id)), id)

(* try_generate_prefix: order the writes to each address much as they were in *)
(* the current execution, whose events are given by iids.  <<>> if that fails.*)
TryGeneratePrefix(g, iids) ==
  LET ids == [n \in DOMAIN iids |-> IdOf(g, iids[n])]
      r   == FoldLeft(PlaceWrite, [g |-> g, co |-> <<>>], ids).g
      order == FoldLeft(LAMBDA done, id : ToposortFrom(r, done, id), <<>>, ids)
  IN  IF r.cyclic THEN <<>> ELSE [n \in DOMAIN order |-> r.ev[order[n]].iid]
===============================================================================
