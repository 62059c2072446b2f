----------------------------- MODULE TSOWakeupTree ----------------------------
(* Symbolic events, the conflicts between them, sleep sets and wakeup trees:  *)
(* the parts of src/src/TSOTraceBuilder.cpp (and WakeupTrees.h) that do not   *)
(* depend on the execution at hand.                                           *)
(*                                                                            *)
(* A symbolic event is [kind, ml, num, val, exp]; an event has a sequence of  *)
(* them.  A branch is [pid, alt, size, sym]; a node of a wakeup tree is a     *)
(* branch with its children `kids`, in order.                                 *)
EXTENDS TSOMachine

SymEv(kind, ml, num, val, exp) ==
  [kind |-> kind, ml |-> ml, num |-> num, val |-> val, exp |-> exp]

NoMl == [addr |-> 0, size |-> 0]
At(a) == [addr |-> a, size |-> 1]

SymLoad(ml)          == SymEv("LOAD", ml, 0, 0, 0)
SymStore(ml, v)      == SymEv("STORE", ml, 0, v, 0)
SymCas(ok, ml, v, e) == SymEv(IF ok THEN "CMPXHG" ELSE "CMPXHGFAIL", ml, 0, v, e)
SymObject(kind, a)   == SymEv(kind, At(a), 0, 0, 0)
SymThread(kind, t)   == SymEv(kind, NoMl, t, 0, 0)
SymNondet(n)         == SymEv("NONDET", NoMl, n, 0, 0)
SymFullmem           == SymEv("FULLMEM", NoMl, 0, 0, 0)

(* purge_data: branches in a tree do not record the data of an access.        *)
Purged(sym) == [k \in DOMAIN sym |-> [sym[k] EXCEPT !.val = 0, !.exp = 0]]

(* is_compatible_with: what a replayed event may differ in is its data.       *)
Compatible(e, f) == e.kind = f.kind /\ e.ml = f.ml /\ e.num = f.num

(* ------------------------------- conflicts -------------------------------- *)

HasPid(e)  == e.kind \in {"SPAWN", "JOIN"}
HasAddr(e) == e.kind \notin {"SPAWN", "JOIN", "NONDET", "FULLMEM"}
IsLoad(e)  == e.kind \in {"LOAD", "CMPXHGFAIL"}

SymConflict(e, f) ==
  /\ "NONDET" \notin {e.kind, f.kind}
  /\ \/ "FULLMEM" \in {e.kind, f.kind}
     \/ /\ ~(IsLoad(e) /\ IsLoad(f))
        /\ HasAddr(e) /\ HasAddr(f) /\ Overlaps(e.ml, f.ml)

EventsConflict(p, es, q, fs) ==
  \/ p = q
  \/ \E e \in ToSet(es) : HasPid(e) /\ e.num = q \div 2
  \/ \E f \in ToSet(fs) : HasPid(f) /\ f.num = p \div 2
  \/ \E e \in ToSet(es), f \in ToSet(fs) : SymConflict(e, f)

(* ------------------------------- sleep sets ------------------------------- *)

(* A sleep set is a set of sleepers [pid, sym].  obs_sleep_wake: a step of a  *)
(* sleeping thread blocks; any other wakes the sleepers it conflicts with.    *)
SleepAfter(sleep, v) == 
  {s \in sleep : ~EventsConflict(v.pid, v.sym, s.pid, s.sym)}

(* sequence_clears_sleep: does v run without blocking until nobody sleeps?    *)
SequenceClearsSleep(v, sleep) ==
  LET Step(st, br) ==
        IF st.state # "CONTINUE" THEN st
        ELSE IF \E s \in st.sleep : s.pid = br.pid
        THEN [state |-> "BLOCK", sleep |-> {}]
        ELSE LET left == SleepAfter(st.sleep, br)
             IN  [state |-> IF left = {} THEN "CLEAR" ELSE "CONTINUE",
                  sleep |-> left]
  IN  FoldLeft(Step, [state |-> "CONTINUE", sleep |-> sleep], v).state = "CLEAR"

(* ------------------------------ wakeup trees ------------------------------ *)

SameBranch(b, c) == b.pid = c.pid /\ b.alt = c.alt
HasChild(nodes, br) == \E k \in DOMAIN nodes : SameBranch(nodes[k], br)

Node(br, kids) == [pid |-> br.pid, alt |-> br.alt, size |-> br.size,
                   sym |-> br.sym, kids |-> kids]

(* A sequence of branches as a tree without a fork.                           *)
Chain(v) ==
  FoldRight(LAMBDA br, kids : <<Node([br EXCEPT !.sym = Purged(@)], kids)>>,
            v, <<>>)

(* The place of the child's branch in v, or 0.                                *)
PlaceIn(v, child) ==
  LET same == {k \in DOMAIN v : SameBranch(v[k], child)}
  IN  IF same = {} THEN 0 ELSE Min(same)

(* A child can be followed when its branch can be moved to the front of v:    *)
(* nothing before it in v conflicts with it, with the symbolic event the tree *)
(* has for it and with the one v has for it.                                  *)
Follows(v, child) ==
  LET x == PlaceIn(v, child)
      before == {k \in DOMAIN v : x = 0 \/ k < x}
  IN  \A k \in before :
        /\ ~EventsConflict(v[k].pid, v[k].sym, child.pid, child.sym)
        /\ x # 0 => ~EventsConflict(v[x].pid, v[x].sym, v[k].pid, v[k].sym)

(* v without its first `missing` steps of pid, which have no symbolic event.  *)
DropSteps(v, pid, missing) ==
  LET Step(st, br) ==
        IF br.pid # pid \/ st.missing = 0 THEN [st EXCEPT !.v = Append(@, br)]
        ELSE IF br.size > st.missing
        THEN [v |-> Append(st.v, [br EXCEPT !.size = st.missing]), missing |-> 0]
        ELSE [st EXCEPT !.missing = @ - br.size]
  IN  FoldLeft(Step, [v |-> <<>>, missing |-> missing], v).v

(* v with the steps of the child's branch taken away at place x.              *)
Without(v, x, child) ==
  IF v[x].size < child.size
  THEN SubSeq(v, 1, x - 1)
       \o DropSteps(SubSeq(v, x + 1, Len(v)), child.pid, child.size - v[x].size)
  ELSE IF v[x].size > child.size
  THEN [v EXCEPT ![x].size = @ - child.size, ![x].sym = <<>>, ![x].alt = 0]
  ELSE RemoveAt(v, x)

\* Faulty variant of InsertBelow: v is planned beside what is there already.
PlanBeside(nodes, v) == nodes \o Chain(v)

(* The insertion loop of race_detect_optimal.  Reaching a leaf, or having     *)
(* nothing left of v, means that what v asks for is scheduled already.        *)
RECURSIVE InsertBelow(_, _)
InsertBelow(nodes, v) ==
  LET fits == {k \in DOMAIN nodes : Follows(v, nodes[k])}
      c    == Min(fits)
      x    == PlaceIn(v, nodes[c])
  IN  IF fits = {} THEN nodes \o Chain(v)
      ELSE IF (x # 0 /\ Len(v) = 1) \/ nodes[c].kids = <<>> THEN nodes
      ELSE [nodes EXCEPT ![c].kids =
              InsertBelow(@, IF x = 0 THEN v ELSE Without(v, x, nodes[c]))]
===============================================================================
