----------------------------- MODULE TSOAnalysis ------------------------------
(* What src/src/TSOTraceBuilder.cpp does with a finished execution: it        *)
(* computes the vector clocks of its events, keeps the races no other race    *)
(* subsumes, and plans the executions that reverse them.                      *)
EXTENDS TSOPthreads

(* ------------------------------ vector clocks ----------------------------- *)

ClockLeq(c, d) == \A p \in DOMAIN c : c[p] <= d[p]
JoinAll(c, clocks, ks) == 
  [p \in DOMAIN c |-> Max({c[p]} \cup {clocks[k][p] : k \in ks})]

(* find_process_event: the event with the index-th step of p.                 *)
FindProcessEvent(b, p, index) == b.thr[p].idx[index]

(* The first event of a thread happens after the one that spawned it.         *)
SpawnEdges(b, k) ==
  {b.thr[p].spawnEvent : p \in {q \in DOMAIN b.thr :
      b.thr[q].spawnEvent # 0 /\ b.thr[q].idx # <<>> /\ b.thr[q].idx[1] = k}}

(* Failed lock attempts belong to the event that came to stand where they     *)
(* were made; those made at the very end stay apart.                          *)
RacesOf(b, k) == b.prefix[k].races \o SelectSeq(b.fails, LAMBDA r : r.second = k)
FinalFails(b) == SelectSeq(b.fails, LAMBDA r : r.second > Len(b.prefix))

(* The event whose clock a race adds: for two lock acquisitions the unlock in *)
(* between.                                                                   *)
EdgeOf(r) == IF r.kind = "LOCK_SUC" THEN r.aux ELSE r.first

(* The races that are not implied by the clock so far, the clock growing by   *)
(* the unlock of an implied LOCK_SUC race (there is at most one per event).   *)
Implied(r, c, clocks) == r.kind # "NONDET" /\ ClockLeq(clocks[r.first], c)
ClockWithUnlocks(c, races, clocks) ==
  JoinAll(c, clocks, {r.aux : r \in {s \in ToSet(races) :
                        s.kind = "LOCK_SUC" /\ Implied(s, c, clocks)}})

(* Race f is subsumed by race s when its first event is before that of s; a   *)
(* failed lock attempt has no event and subsumes nothing.                     *)
Subsumed(f, s, clocks) ==
  /\ "NONDET" \notin {f.kind, s.kind}
  /\ s.kind # "LOCK_FAIL"
  /\ ClockLeq(clocks[f.first], clocks[EdgeOf(s)])

(* frontier_filter: of races that subsume each other the earlier stays.       *)
Frontier(races, clocks) ==
  LET keep(k) == ~\E j \in DOMAIN races :
                    /\ j # k /\ Subsumed(races[k], races[j], clocks)
                    /\ Subsumed(races[j], races[k], clocks) => j < k
  IN  [n \in 1..Cardinality({k \in DOMAIN races : keep(k)}) |->
         races[Ascending({k \in DOMAIN races : keep(k)})[n]]]

(* The clock of event k before its reversible edges.                          *)
ProgramClock(b, clocks, k) ==
  LET e    == b.prefix[k]
      zero == [p \in DOMAIN b.thr |-> 0]
      last == IF e.index > 1 THEN clocks[FindProcessEvent(b, e.pid, e.index - 1)]
              ELSE zero
  IN  JoinAll([last EXCEPT ![e.pid] = e.index], clocks, e.after \cup SpawnEdges(b, k))

AddEvent(acc, c, races) ==
  LET live == SelectSeq(races, LAMBDA r : ~Implied(r, c, acc.clocks))
      left == Frontier(live, acc.clocks)
  IN  [clocks |-> Append(acc.clocks,
                    JoinAll(c, acc.clocks,
                      {EdgeOf(r) : r \in {s \in ToSet(left) :
                                     s.kind \in {"NONBLOCK", "LOCK_SUC"}}})),
       races  |-> Append(acc.races, left)]

(* compute_vclocks: the clock of every event and the races left to it.        *)
ComputeVClocks(b) ==
  LET Step(acc, k) ==
        LET c == ProgramClock(b, acc.clocks, k)
            r == RacesOf(b, k)
        IN  AddEvent(acc, ClockWithUnlocks(c, r, acc.clocks), r)
  IN  FoldLeft(Step, [clocks |-> <<>>, races |-> <<>>],
               [k \in DOMAIN b.prefix |-> k])

(* ------------------------------- sleep sets ------------------------------- *)

Added(e) == {[pid |-> e.sleep[k], sym |-> e.sleepEv[k]] : k \in DOMAIN e.sleep}

(* The sleepers as each event of the prefix starts (obs_sleep_add and         *)
(* obs_sleep_wake along the prefix).                                          *)
SleepAt(prefix, n) ==
  LET Step(sleep, k) ==
        (IF k = 1 THEN sleep
         ELSE {s \in sleep : s.pid \notin prefix[k - 1].wakeup}) \cup Added(prefix[k])
  IN  FoldLeft(Step, {}, [k \in 1..n |-> k])

(* ---------------------------- reversing a race ---------------------------- *)

(* recompute_cmpxhg_success: the last write before the compare-exchange in    *)
(* prefix[1..i-1] followed by v decides whether it will succeed.              *)
WritesTo(sym, ml) ==
  SelectSeq(sym, LAMBDA e : e.kind \in {"STORE", "CMPXHG"} /\ Overlaps(e.ml, ml))

RecomputeCas(b, i, v, sym) ==
  LET before == FlattenSeq([k \in 1..(i - 1) |-> b.prefix[k].sym])
                \o FlattenSeq([k \in DOMAIN v |-> v[k].sym])
      value(k) == LET ws == WritesTo(before \o SubSeq(sym, 1, k - 1), sym[k].ml)
                  IN  IF ws = <<>> THEN 0 ELSE Last(ws).val
  IN  [k \in DOMAIN sym |->
         IF sym[k].kind \in {"CMPXHG", "CMPXHGFAIL"}
         THEN SymCas(value(k) = sym[k].exp, sym[k].ml, sym[k].val, sym[k].exp)
         ELSE sym[k]]

BranchOf(b, k) == [pid |-> b.prefix[k].pid, alt |-> b.prefix[k].alt,
                   size |-> b.prefix[k].size, sym |-> b.prefix[k].sym]

(* The second event of a race as a branch, with its clock.  A failed lock     *)
(* attempt is reconstructed: it would do what the lock it failed against did. *)
SecondClock(b, clocks, r) ==
  LET before == IF r.index = 1 THEN [p \in DOMAIN b.thr |-> 0]
                ELSE clocks[FindProcessEvent(b, r.pid, r.index - 1)]
  IN  IF r.kind = "LOCK_FAIL" THEN [before EXCEPT ![r.pid] = @ + 1]
      ELSE clocks[r.second]

SecondBranch(b, r) ==
  CASE r.kind = "LOCK_FAIL" -> [pid |-> r.pid, alt |-> 0, size |-> 1,
                                sym |-> b.prefix[r.first].sym]
    [] r.kind = "NONDET"    -> [BranchOf(b, r.first) EXCEPT !.alt = r.aux, !.size = 1]
    [] OTHER                -> [BranchOf(b, r.second) EXCEPT !.size = 1]

(* wakeup_sequence: everything after the first event of the race that does    *)
(* not happen after it, then the second event.                                *)
WakeupSequence(b, clocks, r) ==
  LET v == FoldLeft(LAMBDA w, k : IF ClockLeq(clocks[r.first], clocks[k]) THEN w
                                  ELSE Append(w, BranchOf(b, k)),
                    <<>>, [n \in 1..(Len(b.prefix) - r.first) |-> r.first + n])
      second == SecondBranch(b, r)
  IN  Append(v, IF r.kind # "NONBLOCK" THEN second
                ELSE [second EXCEPT !.sym = RecomputeCas(b, r.first, v, @)])

(* race_detect_optimal.                                                       *)
PlanOptimal(b, clocks, r) ==
  LET v == WakeupSequence(b, clocks, r)
  IN  IF ~SequenceClearsSleep(v, SleepAt(b.prefix, r.first)) THEN b
      ELSE [b EXCEPT !.prefix[r.first].later = InsertBelow(@, v)]

(* race_detect (Source-DPOR): walk from the first event of the race to the    *)
(* second, collecting the threads that could be run instead of the first.     *)
(* Any of them will do: if one is already planned or asleep there, nothing    *)
(* needs doing, else the last one found is planned.                           *)
Planned(b, i, p) ==
  \/ HasChild(b.prefix[i].later, [pid |-> p, alt |-> 0])
  \/ SameBranch(b.prefix[i], [pid |-> p, alt |-> 0])
  \/ \E s \in SleepAt(b.prefix, i) : s.pid = p

Initials(b, clocks, r) ==
  LET Step(acc, k) ==
        LET probe == k = r.second /\ r.kind = "LOCK_FAIL"
            p     == IF probe THEN r.pid ELSE b.prefix[k].pid
            index == IF probe THEN r.index ELSE b.prefix[k].index
            clock == IF k = r.second THEN SecondClock(b, clocks, r) ELSE clocks[k]
            after == \/ p \in DOMAIN acc.cands
                     \/ k # r.second /\ ClockLeq(clocks[r.first], clock)
                     \/ \E q \in DOMAIN acc.cands : acc.cands[q] <= clock[q]
            br    == IF k = r.second THEN SecondBranch(b, r) ELSE BranchOf(b, k)
        IN  IF after THEN acc
            ELSE [cands |-> (p :> index) @@ acc.cands,
                  last  |-> [br EXCEPT !.alt = 0]]
  IN  FoldLeft(Step, [cands |-> <<>>, last |-> [pid |-> -1]],
               [n \in 1..(r.second - r.first) |-> r.first + n])

PutChild(b, i, br) ==
  Assert1([b EXCEPT !.prefix[i].later = Append(@, Node(br, <<>>))],
          "no branch is put twice",
          ~SameBranch(b.prefix[i], br) /\ ~HasChild(b.prefix[i].later, br))

PlanSource(b, clocks, r) ==
  IF r.kind = "NONDET" THEN PutChild(b, r.first, SecondBranch(b, r))
  ELSE LET c == Initials(b, clocks, r)
       IN  IF \E p \in DOMAIN c.cands : Planned(b, r.first, p) THEN b
           ELSE PutChild(b, r.first,
                  IF r.kind # "NONBLOCK" THEN c.last
                  ELSE [c.last EXCEPT !.sym = RecomputeCas(b, r.first, <<>>, @)])

(* do_race_detect: races in the order of their first events; among those, the *)
(* attempts at the end first, then by second event.                           *)
RacesFrom(b, races, i) ==
  SelectSeq(FinalFails(b) \o FlattenSeq(races), LAMBDA r : r.first = i)

DoRaceDetect(alg, b, vc) ==
  LET all == FlattenSeq([i \in DOMAIN b.prefix |-> RacesFrom(b, vc.races, i)])
      plan(c, r) == IF alg = "SOURCE" THEN PlanSource(c, vc.clocks, r)
                    ELSE PlanOptimal(c, vc.clocks, r)
      planned == FoldLeft(plan, b, all)
  IN  [planned EXCEPT !.fails = <<>>,
                      !.prefix = [k \in DOMAIN @ |-> [@[k] EXCEPT !.races = <<>>]]]
===============================================================================
