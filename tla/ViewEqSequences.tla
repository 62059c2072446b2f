-------------------------- MODULE ViewEqSequences --------------------------
(***************************************************************************)
(* ViewEqTraceBuilder::Sequence and ::EventSequence: orders of memory      *)
(* accesses, how they are rearranged without changing what any read        *)
(* returns, and how two of them are merged into one.                       *)
(*                                                                         *)
(* An access is named by <<thread, index>>; thread 0 is main, which        *)
(* initialises the objects and then spawns the others.  A Sequence is a    *)
(* sequence of names, an EventSequence a sequence of events                *)
(*    [id, kind, obj, val]   kind: "read", "write" or "spawn".             *)
(* `ev` maps a name to its event in the current run (the code's            *)
(* container->get_event).  Read-modify-writes and joins before the last    *)
(* access are outside the fragment.                                        *)
(***************************************************************************)
EXTENDS Integers, Sequences, SequencesExt, Functions

Thread(id) == id[1]
Ids(es) == [i \in DOMAIN es |-> es[i].id]
ById(es) == [id \in ToSet(Ids(es)) |-> es[SelectInSeq(es, LAMBDA e : e.id = id)]]
Index(s, id) == SelectInSeq(s, LAMBDA x : x = id)

(* Event::RWpair: one reads what the other writes. *)
RWpair(e, f) == e.obj = f.obj /\ {e.kind, f.kind} = {"read", "write"}

(* main's accesses all precede its spawns, so they precede every other     *)
(* thread's.                                                               *)
OrderedBySpawn(d, e) == Thread(d) = 0 /\ Thread(e) # 0

(***************************************************************************)
(* conflicts_with: the first two events that `s` and `t` order differently.*)
(***************************************************************************)
Conflicts(s, t) ==
  {ij \in (DOMAIN s) \X (DOMAIN s) :
     /\ ij[1] < ij[2]
     /\ Contains(t, s[ij[1]]) /\ Contains(t, s[ij[2]])
     /\ Index(t, s[ij[1]]) > Index(t, s[ij[2]])}

FirstConflict(s, t) ==
  LET First(C) == CHOOSE c \in C : \A d \in C : c[1] < d[1] \/ (c[1] = d[1] /\ c[2] <= d[2])
      Events(ij) == <<s[ij[1]], s[ij[2]]>>
  IN  Events(First(Conflicts(s, t)))

(***************************************************************************)
(* view_adjust(e1, e2): move the events of e1's thread, from e1 on, past   *)
(* e2; <<>> if one of them would have to pass an event it forms a          *)
(* read-write pair with.                                                   *)
(***************************************************************************)
MoveBehind(s, n1, n2, ev) ==
  LET Moved(i) == i < n2 /\ Thread(s[i]) = Thread(s[n1])
      Events(T(_)) == LET at == SelectSeq([i \in 1 .. n2 - n1 + 1 |-> n1 + i - 1], T)
                      IN  [i \in DOMAIN at |-> s[at[i]]]
  IN  IF \E i, k \in n1 .. n2 :
            i < k /\ Moved(i) /\ ~Moved(k) /\ RWpair(ev[s[i]], ev[s[k]])
      THEN <<>>
      ELSE SubSeq(s, 1, n1 - 1) \o Events(LAMBDA i : ~Moved(i)) \o Events(Moved)
             \o SubSeq(s, n2 + 1, Len(s))

ViewAdjust(s, e1, e2, ev) == MoveBehind(s, Index(s, e1), Index(s, e2), ev)

\* Faulty variant of JoinPrefix: nothing has to come before anything.
PrimaryFirst(merged, primary, other, ev) == merged \o primary \o other

(***************************************************************************)
(* join_prefix: append two sequences without common events to `merged`.    *)
(* The events of `other` are appended in order, and before each the events *)
(* of `primary` up to the last that must precede it.                       *)
(***************************************************************************)
AppendOther(acc, j, primary, other, ev) ==
  LET o == other[j]
      rest == acc.next .. Len(primary)
      Before(i) == \/ ev[o].kind = "write" /\ RWpair(ev[o], ev[primary[i]])
                   \/ OrderedBySpawn(primary[i], o)
      last == CHOOSE i \in {acc.next - 1} \cup rest :
                /\ i \in rest => Before(i)
                /\ \A k \in rest : Before(k) => k <= i
      Fails(to) ==
        \E i \in acc.next .. to, k \in j .. Len(other) :
          \/ OrderedBySpawn(other[k], primary[i])
          \/ k > j /\ ~Before(i) /\ ev[primary[i]].kind = "write"
                /\ RWpair(ev[primary[i]], ev[other[k]])
      Append2(to) == IF Fails(to) THEN [acc EXCEPT !.ok = FALSE]
                     ELSE [ok |-> TRUE, next |-> to + 1,
                           out |-> acc.out \o SubSeq(primary, acc.next, to) \o <<o>>]
  IN  IF acc.ok THEN Append2(last) ELSE acc

AppendPrimary(acc, primary) ==
  IF acc.ok THEN acc.out \o SubSeq(primary, acc.next, Len(primary)) ELSE <<>>

JoinPrefix(merged, primary, other, ev) ==
  IF primary = <<>> THEN merged \o other
  ELSE AppendPrimary(FoldLeft(LAMBDA acc, j : AppendOther(acc, j, primary, other, ev),
                              [ok |-> TRUE, next |-> 1, out |-> merged],
                              [j \in DOMAIN other |-> j]), primary)

(***************************************************************************)
(* join: two sequences that agree on the order of their common events,     *)
(* joined between one common event and the next, i in the one and j in the *)
(* other.  acc: the positions after the last one, what was joined, and     *)
(* whether it could be.                                                    *)
(***************************************************************************)
JoinTo(acc, i, j, primary, other, ev) ==
  JoinPrefix(acc.out, SubSeq(primary, acc.i, i - 1), SubSeq(other, acc.j, j - 1), ev)

AppendCommon(acc, i, j, id, joined) ==
  IF ~acc.ok \/ (joined = <<>> /\ (i # acc.i \/ j # acc.j))
  THEN [acc EXCEPT !.ok = FALSE]
  ELSE [ok |-> TRUE, i |-> i + 1, j |-> j + 1, out |-> Append(joined, id)]

JoinThrough(acc, i, j, primary, other, ev) ==
  AppendCommon(acc, i, j, primary[i], JoinTo(acc, i, j, primary, other, ev))

JoinRest(acc, primary, other, ev) ==
  IF acc.ok THEN JoinTo(acc, Len(primary) + 1, Len(other) + 1, primary, other, ev) ELSE <<>>

Join(primary, other, ev) ==
  JoinRest(FoldLeft(LAMBDA acc, id : JoinThrough(acc, Index(primary, id), Index(other, id),
                                                 primary, other, ev),
                    [ok |-> TRUE, i |-> 1, j |-> 1, out |-> <<>>],
                    SelectSeq(primary, LAMBDA id : Contains(other, id))),
           primary, other, ev)

(***************************************************************************)
(* get_causal_order and co_sanity: the merge may neither lose nor invent   *)
(* a program-order or reads-from edge.                                     *)
(***************************************************************************)
CausalOrder(s, ev) ==
  LET LastBefore(i, T(_)) ==
        LET j == SelectLastInSubSeq(s, 1, i - 1, T) IN IF j = 0 THEN {} ELSE {<<s[j], s[i]>>}
  IN  UNION {LastBefore(i, LAMBDA id : Thread(id) = Thread(s[i])) : i \in DOMAIN s}
      \cup
      UNION {LastBefore(i, LAMBDA id : ev[id].kind = "write" /\ ev[id].obj = ev[s[i]].obj) :
               i \in {k \in DOMAIN s : ev[s[k]].kind = "read"}}

CausallySane(merged, s, t, ev) ==
  /\ merged # <<>>
  /\ CausalOrder(merged, ev) = CausalOrder(s, ev) \cup CausalOrder(t, ev)

(***************************************************************************)
(* consistent_merge: adjust the two until they agree on the order of their *)
(* common events, then join them.  The adjustments stay in the two         *)
(* sequences (they are members of the lead) unless no agreement is found.  *)
(* `out` is empty when there is no coherent merge.                         *)
(***************************************************************************)
Adjusted(s, d, e, ev) == IF OrderedBySpawn(d, e) THEN <<>> ELSE ViewAdjust(s, d, e, ev)

RECURSIVE Agree(_, _, _)
Agree(s, t, ev) ==
  LET Either(s2, t2) == IF s2 # <<>> THEN Agree(s2, t, ev)
                        ELSE IF t2 # <<>> THEN Agree(s, t2, ev)
                        ELSE [ok |-> FALSE]
      Resolve(c) == Either(Adjusted(s, c[1], c[2], ev), Adjusted(t, c[2], c[1], ev))
  IN  IF Conflicts(s, t) = {} THEN [ok |-> TRUE, s |-> s, t |-> t]
      ELSE Resolve(FirstConflict(s, t))

IfSane(merged, s, t, ev) == IF CausallySane(merged, s, t, ev) THEN merged ELSE <<>>

MergeAgreed(agreed, s, t, ev) ==
  IF agreed.ok
  THEN [s |-> agreed.s, t |-> agreed.t,
        out |-> IfSane(Join(agreed.s, agreed.t, ev), agreed.s, agreed.t, ev)]
  ELSE [s |-> s, t |-> t, out |-> <<>>]

ConsistentMerge(s, t, ev) ==
  IF s = <<>> \/ t = <<>> THEN [s |-> s, t |-> t, out |-> s \o t]
  ELSE MergeAgreed(Agree(s, t, ev), s, t, ev)

(***************************************************************************)
(* to_event_sequence: the events with the values the reads return when the *)
(* sequence runs from memory `mem`.                                        *)
(***************************************************************************)
\* Faulty variant of ToEventSequence: reads are taken to read from `mem`.
ValuesOfMemory(s, ev, mem) ==
  [i \in DOMAIN s |-> IF ev[s[i]].kind # "read" THEN ev[s[i]]
                     ELSE [ev[s[i]] EXCEPT !.val = mem[ev[s[i]].obj]]]

ToEventSequence(s, ev, mem) ==
  LET Source(i) == SelectLastInSubSeq(s, 1, i - 1,
                     LAMBDA id : ev[id].kind = "write" /\ ev[id].obj = ev[s[i]].obj)
  IN  [i \in DOMAIN s |->
         IF ev[s[i]].kind # "read" THEN ev[s[i]]
         ELSE [ev[s[i]] EXCEPT !.val = IF Source(i) = 0 THEN mem[ev[s[i]].obj]
                                       ELSE ev[s[Source(i)]].val]]

(* read_value_map *)
ReadValues(es) == {<<es[i].id, es[i].val>> : i \in {k \in DOMAIN es : es[k].kind = "read"}}

\* Faulty variant of CausalPrefix: the pair is taken out of its context.
NoCausalPrefix(between, e1, e2, ev) == [pre |-> <<>>, delim |-> e2]

(***************************************************************************)
(* causal_prefix: the events between e1 and e2 that e2 causally needs: its *)
(* thread's earlier ones, the writes their reads read from, those writes'  *)
(* threads, and so on.  `delim` is the event e1 may not be moved behind    *)
(* (e2 if there is none).                                                  *)
(***************************************************************************)
CausalPrefix(between, e1, e2, ev) ==
  LET Keep(acc, id, objs) ==
        [pre |-> <<id>> \o acc.pre, threads |-> acc.threads \cup {Thread(id)}, need |-> objs,
         delim |-> IF Thread(id) = Thread(e1) THEN id ELSE acc.delim]
      Back(acc, id) ==
        LET e == ev[id] IN
        CASE e.kind = "spawn" ->
               [acc EXCEPT !.threads = @ \cup {0},
                           !.delim = IF Thread(e1) = 0 /\ acc.pre # <<>>
                                     THEN Head(acc.pre) ELSE @]
          [] e.kind = "read" /\ Thread(id) \in acc.threads -> Keep(acc, id, acc.need \cup {e.obj})
          [] e.kind = "write" /\ (Thread(id) \in acc.threads \/ e.obj \in acc.need) ->
               Keep(acc, id, acc.need \ {e.obj})
          [] OTHER -> acc
      WithSource(all) ==
        IF ev[e1].kind = "write" /\ ev[e1].obj \in all.need
        THEN [pre |-> <<e1>> \o all.pre, delim |-> e1]
        ELSE [pre |-> all.pre, delim |-> all.delim]
  IN  WithSource(FoldLeft(Back, [pre |-> <<>>, threads |-> {Thread(e2)}, need |-> {},
                                 delim |-> e2],
                          Reverse(between)))

(***************************************************************************)
(* backseq: a sequence in which one of e1 and e2 reads from the other,     *)
(* built from what e2 causally needs since e1; <<>> when there is none.    *)
(* With events of an EventSequence (`executed` FALSE) the code compares    *)
(* with an event it never filled in, so that no write ever races.          *)
(***************************************************************************)
(* e1, a write, goes behind the last write of another value and the last    *)
(* read that would not read from it, but not behind delim.                  *)
PlaceWrite(pre, delim, e1, e2, ev, executed) ==
  LET Same(id, kind) == executed /\ ev[id].kind = kind /\ ev[id].obj = ev[e1].obj
      Races(id) == Same(id, "write") /\ ev[id].val # ev[e1].val
      before == {i \in DOMAIN pre :
                   \/ Races(pre[i])
                   \/ Same(pre[i], "read") /\ \E k \in 1 .. i - 1 : Races(pre[k])}
      loc == IF before = {} THEN 1
             ELSE 1 + CHOOSE i \in before : \A k \in before : k <= i
  IN  IF Contains(pre, delim) /\ Index(pre, delim) < loc THEN <<>>
      ELSE IF delim = e1 THEN Append(pre, e2)
      ELSE InsertAt(Append(pre, e2), loc, e1)

PlacePair(c, e1, e2, ev, executed) ==
  IF ev[e1].kind = "write" THEN PlaceWrite(c.pre, c.delim, e1, e2, ev, executed)
  ELSE IF c.delim = e2 THEN c.pre \o <<e2, e1>> ELSE <<>>

BackSeq(s, e1, e2, ev, executed) ==
  LET to == IF Contains(s, e2) THEN Index(s, e2) ELSE Len(s) + 1
  IN  PlacePair(CausalPrefix(SubSeq(s, Index(s, e1) + 1, to - 1), e1, e2, ev),
                e1, e2, ev, executed)
===========================================================================
