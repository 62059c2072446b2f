--------------------------- MODULE ViewEqAnalysis --------------------------
(***************************************************************************)
(* The analyses of ViewEqTraceBuilder: from the accesses that are enabled  *)
(* and those already executed, the leads in which a read returns a value   *)
(* it has not returned yet.                                                *)
(*                                                                         *)
(* `w` is what the analyses change: [states, ewLeads, covered].  `run` is  *)
(* what they read of the run: exec, prefixState, ev, enabled, mem,         *)
(* forbidden, current and reversed.                                        *)
(***************************************************************************)
EXTENDS ViewEqLeads

(* An unordered container may be traversed either way. *)
Order(s, run) == IF run.reversed THEN Reverse(s) ELSE s

Val(id, run) == run.ev[id].val
SameObject(id, e, run) == run.ev[id].obj = e.obj

(* unexploredInfluencers: the enabled writes a read could read from, one   *)
(* for each value that is not forbidden.                                   *)
UnexploredInfluencers(e, run) ==
  LET Writes(id) == /\ run.ev[id].kind = "write" /\ SameObject(id, e, run)
                    /\ ~Forbids(run.forbidden, <<e.id, Val(id, run)>>)
      First(acc, id) == IF \E i \in DOMAIN acc : Val(acc[i], run) = Val(id, run)
                        THEN acc ELSE Append(acc, id)
  IN  Order(FoldLeft(First, <<>>, SelectSeq(run.enabled, Writes)), run)

(* exploredInfluencers: the executed writes of values not forbidden. *)
ExploredInfluencers(e, run) ==
  Order(SelectSeq(Reverse(run.exec), LAMBDA id :
          /\ RWpair(e, run.ev[id])
          /\ ~Forbids(run.forbidden, <<e.id, Val(id, run)>>)), run)

(* Leads grouped by the state they are to be added to. *)
UnionGroups(states, groups, run) ==
  FoldLeft(LAMBDA ss, g : ConsistentUnion(ss, g[1], g[2], run), states, Order(groups, run))

AlphaForbidden(state) == state.leads[state.alpha].forbidden

(* exploredWitnesses: the executed reads that could have read this write. *)
ExploredWitnesses(e, w, run) ==
  Order(SelectSeq(run.exec, LAMBDA id :
          /\ run.ev[id].kind = "read" /\ SameObject(id, e, run) /\ Thread(id) # Thread(e.id)
          /\ ~Forbids(AlphaForbidden(w.states[run.prefixState[Index(run.exec, id)]]),
                      <<id, e.val>>)), run)

(***************************************************************************)
(* forward_analysis: the read alone, and behind each enabled write of      *)
(* another value.                                                          *)
(***************************************************************************)
ForwardAnalysis(w, e, run) ==
  LET now == <<e.id, run.mem[e.obj]>>
      others == SelectSeq(UnexploredInfluencers(e, run),
                          LAMBDA id : Val(id, run) # run.mem[e.obj])
      ForbidBut(f, but) == FoldLeft(LAMBDA g, id : OrTerm(g, <<e.id, Val(id, run)>>), f,
                                    SelectSeq(others, LAMBDA id : id # but))
      alone == IF Forbids(run.forbidden, now) THEN <<>>
               ELSE <<LeadStart(<<e.id>>, ForbidBut(run.forbidden, e.id), run.ev, run.mem)>>
      behind == [i \in DOMAIN others |->
                   LeadStart(<<others[i], e.id>>,
                             ForbidBut(OrTerm(run.forbidden, now), others[i]), run.ev, run.mem)]
  IN  [w EXCEPT !.states = ConsistentUnion(@, run.current, alone \o behind, run)]

(***************************************************************************)
(* union_state_start: a lead under way may not be modified, so what should *)
(* be tried from a state inside it is tried from the lead's first state,   *)
(* behind the part of the lead already executed.                           *)
(***************************************************************************)
LeadHeadState(k, states, run) ==
  IF states[k].inAlpha THEN run.prefixState[states[k].leadHead] ELSE k

\* Faulty variant of UnionStateStart: the lead under way is modified.
UnionInsideLead(id, start, w, run) ==
  [state |-> run.prefixState[Index(run.exec, id)], start |-> start]

UnionStateStart(id, start, w, run) ==
  LET pos == Index(run.exec, id)
      k == run.prefixState[pos]
      head == w.states[k].leadHead
      inLead == SelectSeq([i \in 1 .. pos - head |-> head + i - 1],
                          LAMBDA i : run.prefixState[i] # 0)
  IN  [state |-> LeadHeadState(k, w.states, run),
       start |-> IF w.states[k].inAlpha
                 THEN [i \in DOMAIN inLead |-> run.exec[inLead[i]]] \o start
                 ELSE start]

(* Lead(constraint, start, inF, mem) at the union state. *)
LeadAt(u, f, w, run) ==
  LeadMerge(AlphaSequence(w.states[u.state]), u.start, f, run.ev, w.states[u.state].mem)

(***************************************************************************)
(* backward_analysis_read: the leads in which the read returns the value   *)
(* of an earlier write.  They wait in the state's ei_leads.                *)
(***************************************************************************)
Covered(acc, rv) == [acc EXCEPT !.covered = @ \cup {rv}]

ReadLead(acc, u, rv, f, w, run) ==
  LET Add(lead) == Covered([acc EXCEPT !.L = PutAll(@, u.state, <<lead>>)], rv)
  IN  Add(LeadAt(u, Or(AlphaForbidden(w.states[u.state]), f), w, run))

BackwardAnalysisRead(w, e, run) ==
  LET ForbidAll(f, ids) == FoldLeft(LAMBDA g, id : OrTerm(g, <<e.id, Val(id, run)>>), f, ids)
      Start(acc, id, start, f) ==
        IF start = <<>> THEN acc
        ELSE ReadLead(acc, UnionStateStart(id, start, w, run), <<e.id, Val(id, run)>>, f, w, run)
      One(acc, id, ui, ei) ==
        IF \/ Val(id, run) \in {run.mem[e.obj]} \cup {Val(ui[i], run) : i \in DOMAIN ui}
           \/ <<e.id, Val(id, run)>> \in acc.covered
        THEN acc
        ELSE Start(acc, id, BackSeq(run.exec, id, e.id, run.ev, TRUE),
                   Or(ForbidAll(Term(<<e.id, run.mem[e.obj]>>), ui),
                      ForbidAll(False, SelectSeq(ei, LAMBDA i : i # id))))
      Leads(ui, ei) ==
        FoldLeft(LAMBDA acc, id : One(acc, id, ui, ei), [L |-> <<>>, covered |-> w.covered], ei)
      Wait(all) == [w EXCEPT !.states[run.current].eiLeads = all.L, !.covered = all.covered]
  IN  Wait(Leads(UnexploredInfluencers(e, run), ExploredInfluencers(e, run)))

(* forbid_value_for_ei_leads *)
ForbidValueForEiLeads(states, k, rv) ==
  IF ~states[k].fwd \/ states[k].fwdRead # rv[1] THEN states
  ELSE [states EXCEPT ![k].eiLeads = [i \in DOMAIN @ |->
          << @[i][1],
             [j \in DOMAIN @[i][2] |->
                LeadCopy(@[i][2][j], OrTerm(@[i][2][j].forbidden, rv))] >>]]

(* is_independent_EW_lead: the events that precede the pair have the same  *)
(* values in every lead of the states they were explored from.             *)
IsIndependentEWLead(start, write, read, w, run) ==
  \A id \in ToSet(start) \ {write, read} :
    LET leads == w.states[LeadHeadState(run.prefixState[Index(run.exec, id)],
                                        w.states, run)].leads
        events == UNION {ToSet(leads[i].merged) : i \in DOMAIN leads}
    IN  \A d, f \in events : d.id = id /\ f.id = id => d.val = f.val

(***************************************************************************)
(* backward_analysis_write: the leads in which an executed read returns    *)
(* this write's value instead.  Those that depend on the context wait in   *)
(* EW_leads until the state they belong to has finished its lead.          *)
(***************************************************************************)
AddNow(acc, u, rv, lead, run) ==
  LET Others(g) == IF g[1] # <<u.state, rv[1]>> THEN g
                   ELSE <<g[1], SelectSeq(g[2], LAMBDA p : p.val # rv[2])>>
  IN  [acc EXCEPT !.L = PutAll(@, u.state, <<lead>>),
                  !.w.states = ForbidValueForEiLeads(@, u.state, rv),
                  !.w.ewLeads = [i \in DOMAIN @ |-> Others(@[i])],
                  !.w.covered = @ \cup {rv}]

AddLater(acc, u, rv, lead) ==
  [acc EXCEPT !.w.ewLeads = PutAll(@, <<u.state, rv[1]>>, <<[val |-> rv[2], lead |-> lead]>>)]

BackwardAnalysisWrite(w, e, run) ==
  LET Add(acc, id, u, lead) ==
        IF IsIndependentEWLead(u.start, e.id, id, acc.w, run)
        THEN AddNow(acc, u, <<id, e.val>>, lead, run)
        ELSE AddLater(acc, u, <<id, e.val>>, lead)
      From(acc, id, u) ==
        Add(acc, id, u, LeadAt(u, OrTerm(AlphaForbidden(acc.w.states[u.state]),
                                         <<id, Val(id, run)>>), acc.w, run))
      Start(acc, id, start) ==
        IF start = <<>> THEN acc ELSE From(acc, id, UnionStateStart(id, start, acc.w, run))
      One(acc, id) ==
        IF Val(id, run) = e.val \/ <<id, e.val>> \in acc.w.covered THEN acc
        ELSE Start(acc, id, BackSeq(run.exec, id, e.id, run.ev, TRUE))
      UnionFound(all) == [all.w EXCEPT !.states = UnionGroups(@, all.L, run)]
  IN  UnionFound(FoldLeft(One, [L |-> <<>>, w |-> w], ExploredWitnesses(e, w, run)))

(* update_leads *)
UpdateLeads(w, id, run) ==
  LET e == run.ev[id]
  IN  IF e.kind = "read" THEN BackwardAnalysisRead(ForwardAnalysis(w, e, run), e, run)
      ELSE BackwardAnalysisWrite(w, e, run)

(***************************************************************************)
(* When a run has ended.  add_EW_leads: the leads waiting for state k.     *)
(***************************************************************************)
AddValue(states, k, read, vl, run) ==
  ForbidValueForEiLeads(ConsistentUnion(states, k, vl[2], run), k, <<read, vl[1]>>)

AddEWLeads(w, k, run) ==
  LET ByValue(g) == FoldLeft(LAMBDA acc, p : PutAll(acc, p.val, <<p.lead>>), <<>>, g[2])
  IN  [w EXCEPT
         !.states = FoldLeft(LAMBDA ss, g :
                               FoldLeft(LAMBDA s2, vl : AddValue(s2, k, g[1][2], vl, run), ss,
                                        Order(ByValue(g), run)),
                             @, Order(SelectSeq(w.ewLeads, LAMBDA g : g[1][1] = k), run)),
         !.ewLeads = SelectSeq(@, LAMBDA g : g[1][1] # k)]

(* finish_up_lead and finish_up_state *)
FinishUpLead(w, k, run) ==
  [AddEWLeads(w, k, run) EXCEPT !.covered =
     {rv \in @ : rv[1] # run.exec[w.states[k].sequencePrefix]}]

FinishUpState(w, k, run) ==
  [w EXCEPT !.states = UnionGroups(@, w.states[k].eiLeads, run)]

(* find_replay_state_prefix: back to the last state with something left    *)
(* to explore; replay = 0 when there is none.                              *)
RECURSIVE FindReplayState(_, _, _)
FindReplayState(w, k, run) ==
  LET Finished(v) == IF HasUnexploredLeads(v.states[k]) THEN [w |-> v, replay |-> k]
                     ELSE FindReplayState(FinishUpState(v, k, run), k - 1, run)
  IN  IF k = 0 THEN [w |-> w, replay |-> 0] ELSE Finished(FinishUpLead(w, k, run))
=============================================================================
