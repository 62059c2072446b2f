---------------------------- MODULE ViewEqLeads ----------------------------
(***************************************************************************)
(* ViewEqTraceBuilder::Lead and ::consistent_union: the continuations a    *)
(* state still has to try, when two of them are the same for every read,   *)
(* and how new ones are added to a state without trying a view twice.      *)
(*                                                                         *)
(* A lead: constraint, start   what of the previous run must be kept and   *)
(*                             the new part, as sequences of names         *)
(*         merged              their merge, with values: what is explored  *)
(*         forbidden           the (read, value) pairs left to others      *)
(*         done                is_done                                     *)
(***************************************************************************)
EXTENDS ViewEqSequences, SOPFormula

(* Lead(c, s, f, mem): `start` absorbs the constraint. *)
LeadMerge(c, s, f, ev, mem) ==
  LET Lead(m) == [constraint |-> m.t, start |-> m.s, merged |-> ToEventSequence(m.out, ev, mem),
                  forbidden |-> f, done |-> FALSE]
  IN  Lead(ConsistentMerge(s, Ids(c), ev))

(* Lead(s, f, mem) *)
LeadStart(s, f, ev, mem) ==
  [constraint |-> <<>>, start |-> s, merged |-> ToEventSequence(s, ev, mem),
   forbidden |-> f, done |-> FALSE]

(* Lead(s, f): the rest of a lead, with the values it was given. *)
LeadRest(es, f) ==
  [constraint |-> <<>>, start |-> Ids(es), merged |-> es, forbidden |-> f, done |-> FALSE]

(* Lead(l, f): a copy, which is unexplored again. *)
LeadCopy(l, f) == [l EXCEPT !.forbidden = f, !.done = FALSE]

(***************************************************************************)
(* Comparing leads.  EventSequence::operator== compares the common length  *)
(* only: an empty sequence is equal to every other.                        *)
(***************************************************************************)
SameEvents(es, fs) == \A i \in DOMAIN es \cap DOMAIN fs : es[i].id = fs[i].id

RECURSIVE AdjustTo(_, _, _)
AdjustTo(ids, t, ev) ==
  IF Conflicts(ids, t) = {} THEN t
  ELSE LET Again(t2) == IF t2 = <<>> THEN <<>> ELSE AdjustTo(ids, t2, ev)
           Resolve(c) == Again(ViewAdjust(t, c[2], c[1], ev))
       IN  Resolve(FirstConflict(ids, t))

VAEqual(es, fs) == Ids(es) = AdjustTo(Ids(es), Ids(fs), ById(fs))

VAEquivalent(l, m) == \/ VAEqual(l.merged, m.merged)
                      \/ ReadValues(l.merged) = ReadValues(m.merged)

Without(es, fs) == SelectSeq(es, LAMBDA e : ~Contains(Ids(fs), e.id))

(* Run after es, the events fs has beyond es's read what they read in fs. *)
VAWeakPrefix(es, fs) ==
  LET LastWrite(run, i) == SelectLastInSubSeq(run, 1, i - 1,
                             LAMBDA e : e.kind = "write" /\ e.obj = run[i].obj)
      ReadsAgree(run) == \A i \in Len(es) + 1 .. Len(run) : run[i].kind = "read" =>
                           LastWrite(run, i) \in {0} \cup
                             {j \in DOMAIN run : run[j].val = run[i].val}
  IN  /\ \A i \in DOMAIN es, j \in DOMAIN fs :
           es[i].id = fs[j].id /\ es[i].kind = "read" => es[i].val = fs[j].val
      /\ ReadsAgree(es \o Without(fs, es))

VAIsPrefix(l, m) ==
  \/ IsPrefix(Ids(l.merged), Ids(m.merged))
  \/ /\ ToSet(Ids(l.merged)) \subseteq ToSet(Ids(m.merged))
     /\ VAWeakPrefix(l.merged, m.merged)

VAIsWeaklyEquivalent(l, m) ==
  VAWeakPrefix(l.merged, m.merged) /\ VAWeakPrefix(m.merged, l.merged)

\* Faulty variant of RemoveDuplicateLeads: new leads are not compared.
KeepDuplicates(L) == L

RECURSIVE RemoveDuplicateLeads(_)
RemoveDuplicateLeads(L) ==
  IF L = <<>> THEN <<>>
  ELSE LET rest == SelectSeq(Tail(L), LAMBDA m : /\ ~SameEvents(Head(L).merged, m.merged)
                                                 /\ ~VAEquivalent(Head(L), m))
       IN  <<Head(L)>> \o RemoveDuplicateLeads(rest)

(***************************************************************************)
(* prefix_analysis: for two leads of which neither extends the other, the  *)
(* leads in which a read of `l` reads a write of `l` that it did not.      *)
(***************************************************************************)
AnalysePair(acc, r, w, start, l, m, ev, mem) ==
  IF r.val = w.val \/ Forbids(acc.f, <<r.id, w.val>>) \/ start = <<>> THEN acc
  ELSE [f |-> OrTerm(acc.f, <<r.id, r.val>>),
        added |-> Append(acc.added,
          LeadMerge(SelectSeq(l.merged, LAMBDA e : e.id # r.id) \o Without(m.merged, l.merged),
                    start, acc.f, ev, mem))]

PrefixAnalysis(l, m, ev, mem) ==
  LET es == l.merged
      Own(i) == ~Contains(Ids(m.merged), es[i].id)
      Is(kind, ij) == IF es[ij[1]].kind = kind THEN es[ij[1]] ELSE es[ij[2]]
  IN  FoldLeft(LAMBDA acc, ij :
                 AnalysePair(acc, Is("read", ij), Is("write", ij),
                             BackSeq(Ids(es), es[ij[2]].id, es[ij[1]].id, ById(es), FALSE),
                             l, m, ev, mem),
               [f |-> And(l.forbidden, m.forbidden), added |-> <<>>],
               SetToSortSeq({ij \in (DOMAIN es) \X (DOMAIN es) :
                               ij[2] < ij[1] /\ Own(ij[1]) /\ RWpair(es[ij[1]], es[ij[2]])},
                            LAMBDA a, b : a[1] < b[1] \/ (a[1] = b[1] /\ a[2] < b[2]))).added

(***************************************************************************)
(* The states the leads belong to.  `run` is what the operations read of   *)
(* the current run: exec, prefixState (position -> state), ev, current     *)
(* (current_state) and reversed (the unordered containers' traversal).     *)
(***************************************************************************)
AlphaSequence(state) == IF state.alpha = 0 THEN <<>> ELSE state.leads[state.alpha].merged
HasUnexploredLeads(state) == \E i \in DOMAIN state.leads : ~state.leads[i].done

(* Values grouped by key, in a container whose order is unspecified: a      *)
(* sequence of <<key, sequence of values>>.                                 *)
PutAll(groups, key, vals) ==
  LET i == SelectInSeq(groups, LAMBDA g : g[1] = key)
  IN  IF i = 0 THEN Append(groups, <<key, vals>>) ELSE [groups EXCEPT ![i][2] = @ \o vals]

(* forward_lead: the lead extends the one explored from `state`, so its    *)
(* rest belongs to the state that one led to.  <<>> when it is dropped,    *)
(* for the current state, which has no leads of its own to preserve.       *)
IsForwarded(state, lead) == state.alpha # 0 /\ VAIsPrefix(state.leads[state.alpha], lead)

RestLead(state, rest, f, run) ==
  LeadMerge(AlphaSequence(state), rest, Or(f, state.forbidden), run.ev, state.mem)

ForwardLead(states, k, lead, run) ==
  LET alpha == AlphaSequence(states[k])
      to == run.prefixState[Index(run.exec, Last(alpha).id)] + 1
  IN  IF to = run.current THEN <<>>
      ELSE << <<to, RestLead(states[to], Ids(Without(lead.merged, alpha)),
                             lead.forbidden, run)>> >>

(***************************************************************************)
(* How a new lead l meets a lead sl of the same state.                     *)
(***************************************************************************)
SameLead(l, m) == l.constraint = m.constraint /\ l.start = m.start

Covers(state, sl, l) ==
  IF SameLead(l, sl) THEN "same"
  ELSE IF VAEquivalent(sl, l) THEN "equivalent"
  ELSE IF SameEvents(sl.merged, AlphaSequence(state)) THEN "no"
  ELSE IF VAIsPrefix(sl, l) THEN "prefix"
  ELSE IF VAIsWeaklyEquivalent(sl, l) THEN "weak"
  ELSE "no"

(* What becomes of l: acc collects the indices of the leads to remove, the  *)
(* leads that replace them (add), those that are new (add2), those forwarded*)
(* to other states, and those found by analysing a pair of leads.           *)
Replace(acc, i, lead) == [acc EXCEPT !.rem = @ \cup {i}, !.add = Append(@, lead)]

Analysed(acc, state, i, l, run) ==
  LET Weak(j) == /\ ~SameEvents(state.leads[j].merged, AlphaSequence(state))
                 /\ VAIsWeaklyEquivalent(state.leads[j], l)
  IN  FoldLeft(LAMBDA a, j :
                 [a EXCEPT !.analysed = @ \o PrefixAnalysis(state.leads[j], l, run.ev, state.mem)],
               acc, SelectSeq([j \in DOMAIN state.leads |-> j],
                              LAMBDA j : j = i \/ (j > i /\ Weak(j))))

AddNew(acc, l, states, k, run) ==
  IF IsForwarded(states[k], l)
  THEN [acc EXCEPT !.forwarded = FoldLeft(LAMBDA g, kl : PutAll(g, kl[1], <<kl[2]>>), @,
                                          ForwardLead(states, k, l, run))]
  ELSE [acc EXCEPT !.add2 = Append(@, l)]

Meet(acc, how, i, l, states, k, run) ==
  LET sl == states[k].leads[i]
  IN  IF how = "same" \/ (how = "equivalent" /\ ~sl.done)
      THEN Replace(acc, i, LeadCopy(sl, Or(l.forbidden, sl.forbidden)))
      ELSE IF how = "prefix" /\ ~sl.done
      THEN Replace(acc, i, LeadCopy(sl, And(l.forbidden, sl.forbidden)))
      ELSE IF how = "weak" THEN Analysed(acc, states[k], i, l, run)
      ELSE acc

MeetFirst(acc, met, l, states, k, run) ==
  IF met.i = 0 THEN AddNew(acc, l, states, k, run)
  ELSE Meet(acc, met.how, met.i, l, states, k, run)

FirstMet(state, l) ==
  LET Met(i, how) == [how |-> how, i |-> IF how = "no" THEN 0 ELSE i]
  IN  FoldLeft(LAMBDA met, i : IF met.i # 0 THEN met ELSE Met(i, Covers(state, state.leads[i], l)),
               [how |-> "no", i |-> 0], [i \in DOMAIN state.leads |-> i])

UnionOne(acc, l, states, k, run) ==
  IF l.merged = <<>> THEN acc
  ELSE MeetFirst(acc, FirstMet(states[k], l), l, states, k, run)

(***************************************************************************)
(* consistent_union(k, L): add the leads L to state k.  The result is the  *)
(* whole sequence of states, since leads may be forwarded to later ones.   *)
(* (A state without leads has no alpha: nothing can be forwarded from it.) *)
(***************************************************************************)
Updated(leads, u) ==
  LET Kept(is) == [i \in DOMAIN is |-> leads[is[i]]]
  IN  Kept(SelectSeq([i \in DOMAIN leads |-> i], LAMBDA i : i \notin u.rem)) \o u.add \o u.add2

UnionAll(states, k, L, run) ==
  FoldLeft(LAMBDA acc, l : UnionOne(acc, l, states, k, run),
           [rem |-> {}, add |-> <<>>, add2 |-> <<>>, forwarded |-> <<>>, analysed |-> <<>>], L)

RECURSIVE ConsistentUnion(_, _, _, _)
ConsistentUnion(states, k, L, run) ==
  LET Forward(ss, groups) ==
        FoldLeft(LAMBDA ss2, g : ConsistentUnion(ss2, g[1], g[2], run), ss,
                 IF run.reversed THEN Reverse(groups) ELSE groups)
      Analyse(ss, leads) == IF leads = <<>> THEN ss ELSE ConsistentUnion(ss, k, leads, run)
      Apply(u) == Analyse(Forward([states EXCEPT ![k].leads = Updated(@, u)], u.forwarded),
                          u.analysed)
  IN  IF states[k].leads = <<>> THEN [states EXCEPT ![k].leads = RemoveDuplicateLeads(L)]
      ELSE Apply(UnionAll(states, k, RemoveDuplicateLeads(L), run))
============================================================================
