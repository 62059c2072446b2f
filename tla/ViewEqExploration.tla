------------------------- MODULE ViewEqExploration -------------------------
(***************************************************************************)
(* ViewEqTraceBuilder: the explorer that runs a program again and again,   *)
(* choosing at every shared access which thread goes next, so that each    *)
(* assignment of values to the program's reads (a view) is seen once.      *)
(*                                                                         *)
(* The program is straight-line: main stores 0 to every object, spawns the *)
(* threads and ends; a thread is a sequence of accesses [kind, obj, val,   *)
(* from]: a read, or a write of val plus what the thread's access `from`   *)
(* has read (0: nothing).  An access is "peeked" when its thread reaches   *)
(* it: its event is created and it is enabled.  All that main does besides *)
(* its stores is one non-memory access, "spawn".                           *)
(*                                                                         *)
(* Positions and state indices start from 1; 0 stands for the code's -1.   *)
(***************************************************************************)
EXTENDS ViewEqAnalysis

CONSTANTS Objects,      (* how many shared objects there are: 1 .. Objects *)
          Programs      (* the programs that may be explored               *)

ASSUME ObjectsAssumption == Objects \in Nat \ {0}

VARIABLES
  program,              (* the program under test                          *)
  exec, prefixState,    (* execution_sequence, prefix_state                *)
  prefixIdx,            (* how much of exec this run has executed          *)
  replayPoint,          (* the position from which the run is to differ    *)
  states,               (* the states of the current path                  *)
  enabled, mem, ev,     (* Enabled, mem, and the threads' events           *)
  forbidden, toExplore, currentState, alphaHead,
  covered, ewLeads,     (* covered_read_values, EW_leads                   *)
  reversed,             (* how unordered containers are traversed          *)
  status,               (* "run", "maximal" (between a run and reset),     *)
                        (* "done", or "stuck": no lead could be started    *)
  explored, repeated    (* observed: the views seen, those seen again      *)

vars == <<program, exec, prefixState, prefixIdx, replayPoint, states, enabled, mem, ev,
          forbidden, toExplore, currentState, alphaHead, covered, ewLeads, reversed,
          status, explored, repeated>>

---------------------------------------------------------------------------
(* The program as the interpreter runs it. *)

Threads == DOMAIN program
SpawnId == <<0, Objects + 1>>

Access(id) == IF Thread(id) = 0 THEN [kind |-> "write", obj |-> id[2], val |-> 0, from |-> 0]
              ELSE program[Thread(id)][id[2]]
HasAccess(id) == id[2] <= IF Thread(id) = 0 THEN Objects ELSE Len(program[Thread(id)])

(* SymData::get_block of one byte, as make_write takes it. *)
EventOf(id, events, m) ==
  LET a == Access(id)
      base == IF a.from = 0 THEN 0 ELSE events[<<Thread(id), a.from>>].val
  IN  [id |-> id, kind |-> a.kind, obj |-> a.obj,
       val |-> IF a.kind = "read" THEN m[a.obj] ELSE (base + a.val) % 256]

(* load and atomic_store of a global: the thread's next access is peeked. *)
Peek(run, id) ==
  IF ~HasAccess(id) THEN run
  ELSE [run EXCEPT !.ev = @ @@ (id :> EventOf(id, run.ev, run.mem)),
                   !.enabled = Append(@, id)]

(* Executing an enabled access; its thread then reaches the next. *)
Execute(id) ==
  LET e == ev[id]
      m2 == IF e.kind = "write" THEN [mem EXCEPT ![e.obj] = e.val] ELSE mem
      ev2 == IF e.kind = "read" THEN [ev EXCEPT ![id].val = mem[e.obj]] ELSE ev
  IN  Peek([ev |-> ev2, mem |-> m2, enabled |-> SelectSeq(enabled, LAMBDA x : x # id)],
           <<Thread(id), id[2] + 1>>)

Performs(run) == ev' = run.ev /\ mem' = run.mem /\ enabled' = run.enabled

(* main's spawns: every thread runs up to its first access. *)
Spawned == SpawnId \in DOMAIN ev
SpawnThreads ==
  FoldLeft(LAMBDA run, t : Peek(run, <<t, 1>>),
           [ev |-> ev @@ (SpawnId :> [id |-> SpawnId, kind |-> "spawn", obj |-> 0, val |-> 0]),
            mem |-> mem, enabled |-> enabled],
           [t \in Threads |-> t])

(* A run begins with main at its first store. *)
Started == Peek([ev |-> <<>>, mem |-> [o \in 1 .. Objects |-> 0], enabled |-> <<>>], <<0, 1>>)

(* The view of the run: what its reads have returned. *)
View == {<<id, ev[id].val>> : id \in {i \in DOMAIN ev : ev[i].kind = "read"}}

---------------------------------------------------------------------------
Init ==
  /\ program \in Programs
  /\ reversed \in BOOLEAN
  /\ exec = <<>> /\ prefixState = <<>> /\ prefixIdx = 0 /\ replayPoint = 0
  /\ states = <<>> /\ currentState = 0 /\ alphaHead = 0
  /\ ev = Started.ev /\ mem = Started.mem /\ enabled = Started.enabled
  /\ forbidden = False /\ toExplore = <<>> /\ covered = {} /\ ewLeads = <<>>
  /\ status = "run" /\ explored = {} /\ repeated = {}

Replaying == prefixIdx + 1 < replayPoint
AtReplayPoint == prefixIdx + 1 = replayPoint
SpawnDue == ~Spawned /\ prefixIdx = Objects

(***************************************************************************)
(* execute_next_lead, from the states ss with ss[k] the current one: the   *)
(* first lead not done becomes alpha, and its first event is executed.     *)
(***************************************************************************)
NextLead(state) == SelectInSeq(state.leads, LAMBDA l : ~l.done)

ChooseNextLead(state) ==
  LET i == NextLead(state)
  IN  [state EXCEPT !.leads[i].done = TRUE, !.alpha = i,
                    !.fwd = @ /\ Contains(Ids(state.leads[i].merged), state.fwdRead)]

(* assert(it != Enabled.end()) *)
CanStart(lead) == lead.merged # <<>> /\ Contains(enabled, Head(lead.merged).id)

ExecuteNextLead(ss, k, ex, ps) ==
  LET chosen == ChooseNextLead(ss[k])
      lead == chosen.leads[chosen.alpha]
      id == Head(lead.merged).id
  IN  /\ states' = [ss EXCEPT ![k] = chosen]
      /\ currentState' = k
      /\ IF CanStart(lead)
         THEN /\ Performs(Execute(id))
              /\ toExplore' = Tail(lead.merged)
              /\ forbidden' = IF ev[id].kind = "read"
                              THEN Reduce(lead.forbidden, <<id, mem[ev[id].obj]>>)
                              ELSE lead.forbidden
              /\ exec' = Append(ex, id) /\ prefixState' = Append(ps, k)
              /\ prefixIdx' = prefixIdx + 1
              /\ UNCHANGED status
         ELSE /\ status' = "stuck"
              /\ exec' = ex /\ prefixState' = ps
              /\ UNCHANGED <<ev, mem, enabled, toExplore, forbidden, prefixIdx>>

(***************************************************************************)
(* schedule(), one action for each way it returns.                         *)
(***************************************************************************)
ReplayNonMemoryAccess ==
  /\ status = "run" /\ Replaying /\ exec[prefixIdx + 1] = SpawnId
  /\ Performs(SpawnThreads)
  /\ prefixIdx' = prefixIdx + 1
  /\ UNCHANGED <<program, exec, prefixState, replayPoint, states, forbidden, toExplore,
                 currentState, alphaHead, covered, ewLeads, reversed, status, explored, repeated>>

\* Faulty variant of ReplayMemoryAccess: a replayed store does not reach mem.
ReplayWithoutStores ==
  /\ status = "run" /\ Replaying /\ exec[prefixIdx + 1] # SpawnId
  /\ Performs([Execute(exec[prefixIdx + 1]) EXCEPT !.mem = mem])
  /\ currentState' = prefixState[prefixIdx + 1]
  /\ alphaHead' = IF states[currentState'].leadHead = prefixIdx + 1 THEN prefixIdx + 1
                  ELSE alphaHead
  /\ prefixIdx' = prefixIdx + 1
  /\ UNCHANGED <<program, exec, prefixState, replayPoint, states, forbidden, toExplore,
                 covered, ewLeads, reversed, status, explored, repeated>>

ReplayMemoryAccess ==
  /\ status = "run" /\ Replaying /\ exec[prefixIdx + 1] # SpawnId
  /\ Performs(Execute(exec[prefixIdx + 1]))
  /\ currentState' = prefixState[prefixIdx + 1]
  /\ alphaHead' = IF states[currentState'].leadHead = prefixIdx + 1 THEN prefixIdx + 1
                  ELSE alphaHead
  /\ prefixIdx' = prefixIdx + 1
  /\ UNCHANGED <<program, exec, prefixState, replayPoint, states, forbidden, toExplore,
                 covered, ewLeads, reversed, status, explored, repeated>>

LeaveReplay ==
  /\ status = "run" /\ AtReplayPoint
  /\ LET k == prefixState[replayPoint]
     IN  ExecuteNextLead([states EXCEPT ![k].leadHead = replayPoint], k,
                         Front(exec), Front(prefixState))
  /\ alphaHead' = replayPoint
  /\ UNCHANGED <<program, replayPoint, covered, ewLeads, reversed, explored, repeated>>

NonMemoryAccess ==
  /\ status = "run" /\ ~Replaying /\ ~AtReplayPoint /\ SpawnDue
  /\ Performs(SpawnThreads)
  /\ exec' = Append(exec, SpawnId) /\ prefixState' = Append(prefixState, 0)
  /\ prefixIdx' = prefixIdx + 1
  /\ UNCHANGED <<program, replayPoint, states, forbidden, toExplore, currentState, alphaHead,
                 covered, ewLeads, reversed, status, explored, repeated>>

(* make_new_state *)
NewState ==
  [sequencePrefix |-> prefixIdx + 1, leads |-> <<>>, forbidden |-> forbidden, alpha |-> 0,
   leadHead |-> 0, inAlpha |-> FALSE, fwd |-> FALSE, fwdRead |-> SpawnId,
   eiLeads |-> <<>>, mem |-> mem]

Current == Len(states) + 1
Run(k) == [exec |-> exec, prefixState |-> prefixState, ev |-> ev, enabled |-> enabled,
           mem |-> mem, forbidden |-> forbidden, current |-> k, reversed |-> reversed]

(* enabaled_RWpair_read: the read of the first pair of enabled accesses     *)
(* that are a read and a write of one object; 0 when there is none.         *)
EnabledRWpairRead ==
  LET n == Len(enabled)
      Read(i, j) == IF ev[enabled[i]].kind = "read" THEN i ELSE j
      pairs == {ij \in (1 .. n) \X (1 .. n) :
                  ij[1] < ij[2] /\ RWpair(ev[enabled[ij[1]]], ev[enabled[ij[2]]])}
      first == CHOOSE c \in pairs :
                 \A d \in pairs : c[1] < d[1] \/ (c[1] = d[1] /\ c[2] <= d[2])
  IN  IF pairs = {} THEN 0 ELSE Read(first[1], first[2])

(***************************************************************************)
(* compute_new_leads at a fresh state with no lead under way: the enabled  *)
(* writes a waiting read could read from are analysed first, then the read *)
(* itself (or whichever access has been enabled longest).                  *)
(***************************************************************************)
AnalyseUnexploredInfluencers(w, r, run) ==
  [FoldLeft(LAMBDA v, id : UpdateLeads(v, id, run), w, UnexploredInfluencers(ev[r], run))
     EXCEPT !.states[run.current].fwd = TRUE, !.states[run.current].fwdRead = r]

AtLeastOneLead(w, next, run) ==
  IF HasUnexploredLeads(w.states[run.current]) THEN w
  ELSE [w EXCEPT !.states = ConsistentUnion(@, run.current,
          <<LeadStart(<<next>>, forbidden, ev, mem)>>, run)]

ComputeNewLeads(w, i, run) ==
  IF i = 0 THEN AtLeastOneLead(UpdateLeads(w, enabled[1], run), enabled[1], run)
  ELSE AtLeastOneLead(UpdateLeads(AnalyseUnexploredInfluencers(w, enabled[i], run),
                                  enabled[i], run), enabled[i], run)

AnalysedStates ==
  [ComputeNewLeads([states |-> Append(states, NewState), ewLeads |-> ewLeads,
                    covered |-> covered], EnabledRWpairRead, Run(Current))
     EXCEPT !.states[Current].leadHead = prefixIdx + 1]

(* A maximal trace has been explored, or a new state is made for the next   *)
(* access: with leads of its own, or to carry on with the current lead.     *)
Exploring == status = "run" /\ ~Replaying /\ ~AtReplayPoint /\ ~SpawnDue

MaximalTrace ==
  /\ Exploring /\ enabled = <<>>
  /\ status' = "maximal"
  /\ UNCHANGED <<program, exec, prefixState, prefixIdx, replayPoint, states, enabled, mem, ev,
                 forbidden, toExplore, currentState, alphaHead, covered, ewLeads, reversed,
                 explored, repeated>>

ExploreNew ==
  /\ Exploring /\ enabled # <<>> /\ toExplore = <<>>
  /\ \E w \in {AnalysedStates} :
       /\ ExecuteNextLead(w.states, Current, exec, prefixState)
       /\ ewLeads' = w.ewLeads /\ covered' = w.covered
  /\ alphaHead' = prefixIdx + 1
  /\ UNCHANGED <<program, replayPoint, reversed, explored, repeated>>

ExploreAlpha ==
  /\ Exploring /\ enabled # <<>> /\ toExplore # <<>>
  /\ LET state == [NewState EXCEPT !.inAlpha = TRUE, !.leadHead = alphaHead,
                                   !.leads = <<LeadRest(toExplore, forbidden)>>]
     IN  ExecuteNextLead(Append(states, state), Current, exec, prefixState)
  /\ UNCHANGED <<program, replayPoint, alphaHead, covered, ewLeads, reversed, explored, repeated>>

(***************************************************************************)
(* reset(): the view is recorded (record_redundant), the leads held back   *)
(* are added, and the next run replays up to the last state with an        *)
(* unexplored lead.                                                        *)
(***************************************************************************)
ReplayFrom(w, k) ==
  LET pos == w.states[k].sequencePrefix
  IN  /\ status' = "run" /\ replayPoint' = pos /\ prefixIdx' = 0
      /\ exec' = SubSeq(exec, 1, pos) /\ prefixState' = SubSeq(prefixState, 1, pos)
      /\ states' = SubSeq(w.states, 1, k)
      /\ ewLeads' = w.ewLeads /\ covered' = w.covered
      /\ forbidden' = w.states[k].forbidden /\ toExplore' = <<>>
      /\ Performs(Started)

NothingLeft ==
  /\ status' = "done" /\ replayPoint' = 0
  /\ UNCHANGED <<exec, prefixState, prefixIdx, states, enabled, mem, ev, forbidden, toExplore,
                 covered, ewLeads>>

Reset ==
  /\ status = "maximal"
  /\ explored' = explored \cup {View}
  /\ repeated' = repeated \cup (explored \cap {View})
  /\ \E f \in {FindReplayState([states |-> states, ewLeads |-> ewLeads, covered |-> covered],
                              Len(states), Run(currentState))} :
       IF f.replay = 0 THEN NothingLeft ELSE ReplayFrom(f.w, f.replay)
  /\ UNCHANGED <<program, currentState, alphaHead, reversed>>

Terminating == status = "done" /\ UNCHANGED vars

Next == \/ ReplayNonMemoryAccess \/ ReplayMemoryAccess \/ LeaveReplay \/ NonMemoryAccess
        \/ MaximalTrace \/ ExploreNew \/ ExploreAlpha \/ Reset \/ Terminating

Spec == Init /\ [][Next]_vars

---------------------------------------------------------------------------
(* Every view of the program: what its reads return in some interleaving. *)
RECURSIVE ViewsFrom(_, _, _)
ViewsFrom(pc, m, seen) ==
  LET ready == {t \in Threads : pc[t] <= Len(program[t])}
      Read(t, i) == (CHOOSE rv \in seen : rv[1] = <<t, i>>)[2]
      After(t) ==
        LET a == program[t][pc[t]]
            pc2 == [pc EXCEPT ![t] = @ + 1]
        IN  IF a.kind = "read"
            THEN ViewsFrom(pc2, m, seen \cup {<< <<t, pc[t]>>, m[a.obj] >>})
            ELSE ViewsFrom(pc2, [m EXCEPT ![a.obj] =
                                   IF a.from = 0 THEN a.val ELSE a.val + Read(t, a.from)], seen)
  IN  IF ready = {} THEN {seen} ELSE UNION {After(t) : t \in ready}

Views == ViewsFrom([t \in Threads |-> 1], [o \in 1 .. Objects |-> 0], {})

(***************************************************************************)
(* Completeness: when reset() reports that nothing is left to explore,     *)
(* every view of the program has been explored (doc/manual.tex:32-34).     *)
(***************************************************************************)
EveryView == status = "done" => explored = Views

(***************************************************************************)
(* No view is explored twice: what record_redundant looks for, and what    *)
(* `forbidden`, covered_read_values and consistent_union are there for.    *)
(***************************************************************************)
OnceEach == repeated = {}

(***************************************************************************)
(* execute_next_lead finds the first access of the lead it takes enabled   *)
(* (assert(it != Enabled.end()); without it an iterator past the end is    *)
(* erased), whatever was merged into the lead since it was made.           *)
(***************************************************************************)
LeadsCanStart == status # "stuck"

(***************************************************************************)
(* union_state_start: "alpha cannot be modified".  A state inside a lead   *)
(* keeps the one lead it was made with, so a run is never replayed into    *)
(* the middle of a lead.                                                   *)
(***************************************************************************)
AlphaIntact ==
  /\ \A k \in DOMAIN states :
       states[k].inAlpha => Len(states[k].leads) = 1 /\ states[k].alpha = 1
  /\ status = "run" /\ AtReplayPoint => ~states[prefixState[replayPoint]].inAlpha

(***************************************************************************)
(* A lead is what a merge of two orders promised: the run follows it       *)
(* access by access, and when every write is of a constant each read       *)
(* returns the value the lead was made for.  (The value of a write that    *)
(* depends on a read is the one of an earlier run, and may be out of date. *)
(* That is why the second half is about constant writes only.)             *)
(***************************************************************************)
Executed(k) ==
  SelectSeq(SubSeq(exec, states[k].sequencePrefix, prefixIdx), LAMBDA id : id # SpawnId)
UnderWay(k) == states[k].alpha # 0 /\ ~(replayPoint > prefixIdx /\ k = Len(states))
ConstantWrites == \A t \in Threads : \A i \in DOMAIN program[t] : program[t][i].from = 0

LeadsAreFollowed ==
  \A k \in DOMAIN states : UnderWay(k) =>
    LET alpha == AlphaSequence(states[k])
        done == Executed(k)
    IN  \A i \in (DOMAIN done) \cap (DOMAIN alpha) :
          /\ alpha[i].id = done[i]
          /\ ConstantWrites => alpha[i].val = ev[done[i]].val

(***************************************************************************)
(* Replaying the prefix leads back to the memory the state was made with,  *)
(* and its next lead can be started.                                       *)
(***************************************************************************)
ReplayRestores ==
  status = "run" /\ AtReplayPoint =>
    LET state == states[prefixState[replayPoint]]
    IN  mem = state.mem /\ CanStart(state.leads[NextLead(state)])
============================================================================
