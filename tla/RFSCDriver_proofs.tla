-------------------------- MODULE RFSCDriver_proofs --------------------------
(***************************************************************************)
(* The tree of decision nodes: facts about Ancestors, Path, NewNodes and   *)
(* Parent that the proofs about both schedulers rest on.                   *)
(***************************************************************************)
EXTENDS RFSCDriver, SequenceTheorems, TLAPS

LEMMA NodeIsSeq ==
  ASSUME NEW n \in Node
  PROVE  n \in Seq(Unf) /\ Len(n) \in Nat
  BY TreeAssumption

LEMMA PrefixOfPrefix ==
  ASSUME NEW n \in Seq(Unf), NEW j \in 1 .. Len(n), NEW k \in 1 .. j
  PROVE  /\ SubSeq(n, 1, j) \in Seq(Unf)
         /\ Len(SubSeq(n, 1, j)) = j
         /\ SubSeq(SubSeq(n, 1, j), 1, k) = SubSeq(n, 1, k)
<1>1. \A i \in 1 .. j : n[i] \in Unf
  OBVIOUS
<1>2. SubSeq(n, 1, j) \in Seq(Unf) /\ Len(SubSeq(n, 1, j)) = j
  BY <1>1, SubSeqProperties
<1>3. SubSeq(SubSeq(n, 1, j), 1, k) = SubSeq(n, 1 + 1 - 1, 1 + k - 1)
  BY SubSeqOfSubSeq
<1>. QED
  BY <1>2, <1>3

LEMMA AncestorsInTree ==
  ASSUME NEW n \in Node, NEW m \in Ancestors(n)
  PROVE  m \in Node \ {Root}
<1>1. PICK k \in 1 .. Len(n) : m = SubSeq(n, 1, k)
  BY DEF Ancestors
<1>2. Len(m) = k
  BY <1>1, NodeIsSeq, PrefixOfPrefix
<1>. QED
  BY <1>1, <1>2, TreeAssumption DEF Root

LEMMA SelfIsAncestor ==
  ASSUME NEW n \in Node, n # Root
  PROVE  n \in Ancestors(n)
<1>1. n = SubSeq(n, 1, Len(n))
  BY NodeIsSeq, SubSeqFull
<1>2. Len(n) \in 1 .. Len(n)
  BY NodeIsSeq DEF Root
<1>. QED
  BY <1>1, <1>2 DEF Ancestors

LEMMA AncestorsOfAncestor ==
  ASSUME NEW n \in Node, NEW m \in Ancestors(n)
  PROVE  Ancestors(m) \subseteq Ancestors(n)
<1>1. PICK j \in 1 .. Len(n) : m = SubSeq(n, 1, j)
  BY DEF Ancestors
<1>2. Len(m) = j
  BY <1>1, NodeIsSeq, PrefixOfPrefix
<1>3. ASSUME NEW k \in 1 .. Len(m)
      PROVE  SubSeq(m, 1, k) \in Ancestors(n)
  <2>1. SubSeq(m, 1, k) = SubSeq(n, 1, k)
    BY <1>1, <1>2, NodeIsSeq, PrefixOfPrefix
  <2>. QED
    BY <2>1, <1>2, NodeIsSeq DEF Ancestors
<1>. QED
  BY <1>3 DEF Ancestors

LEMMA AncestorsOfPath ==
  ASSUME NEW n \in Node
  PROVE  /\ Path(n) \in Node
         /\ Ancestors(n) \subseteq Ancestors(Path(n))
         /\ \A m \in NewNodes(n) : n # Root => n \in Ancestors(m)
<1>1. n \in Seq(Unf) /\ Ext[n] \in Seq(Unf) /\ Path(n) \in Node
  BY TreeAssumption
<1>2. Path(n) \in Seq(Unf) /\ Len(Path(n)) = Len(n) + Len(Ext[n])
  BY <1>1, ConcatProperties DEF Path
<1>3. \A k \in 1 .. Len(n) : SubSeq(Path(n), 1, k) = SubSeq(n, 1, k)
  BY <1>1, SubSeqOfConcat1 DEF Path
<1>4. Ancestors(n) \subseteq Ancestors(Path(n))
  BY <1>1, <1>2, <1>3 DEF Ancestors
<1>5. ASSUME NEW m \in NewNodes(n), n # Root
      PROVE  n \in Ancestors(m)
  <2>1. PICK k \in 1 .. Len(Path(n)) : m = SubSeq(Path(n), 1, k)
    BY <1>5 DEF NewNodes, Ancestors
  <2>2. k \notin 1 .. Len(n)
    BY <1>3, <1>5, <2>1 DEF NewNodes, Ancestors
  <2>3. Len(n) \in 1 .. k
    BY <1>1, <1>2, <1>5, <2>2 DEF Root
  <2>4. SubSeq(m, 1, Len(n)) = SubSeq(Path(n), 1, Len(n)) /\ Len(m) = k
    BY <1>2, <2>1, <2>3, PrefixOfPrefix
  <2>5. SubSeq(Path(n), 1, Len(n)) = n
    BY <1>1, <1>3, <2>3, SubSeqFull
  <2>. QED
    BY <2>3, <2>4, <2>5 DEF Ancestors
<1>. QED
  BY <1>1, <1>4, <1>5

LEMMA NewNodesInTree ==
  ASSUME NEW n \in Node
  PROVE  NewNodes(n) \subseteq Node \ {Root} /\ n \notin NewNodes(n)
<1>1. NewNodes(n) \subseteq Node \ {Root}
  BY AncestorsOfPath, AncestorsInTree DEF NewNodes
<1>. QED
  BY <1>1, SelfIsAncestor DEF NewNodes

LEMMA AncestorsOfParent ==
  ASSUME NEW a \in Node \ {Root}, NEW m \in Ancestors(a), m # a
  PROVE  Parent(a) # Root /\ m \in Ancestors(Parent(a))
<1>1. PICK k \in 1 .. Len(a) : m = SubSeq(a, 1, k)
  BY DEF Ancestors
<1>2. a \in Seq(Unf) /\ SubSeq(a, 1, Len(a)) = a
  BY NodeIsSeq, SubSeqFull
<1>3. k # Len(a)
  BY <1>1, <1>2
<1>4. Len(a) - 1 \in 1 .. Len(a) /\ k \in 1 .. Len(a) - 1
  <2>1. Len(a) \in Nat
    BY NodeIsSeq
  <2>. QED
    BY <2>1, <1>3
<1>5. Len(Parent(a)) = Len(a) - 1 /\ SubSeq(Parent(a), 1, k) = m
  BY <1>1, <1>2, <1>4, PrefixOfPrefix DEF Parent
<1>. QED
  BY <1>4, <1>5 DEF Ancestors, Root

-----------------------------------------------------------------------------
(* The invariant of the workers, for a set P of pending nodes: those that   *)
(* the scheduler has queued and those on their way into a queue.            *)

\* Every node is pending, held by one worker, dropped or done.
OwnedOnce(P) ==
  /\ \A v, w \in Worker : v # w /\ Busy(v) /\ Busy(w) => work_item[v] # work_item[w]
  /\ \A w \in Worker : Busy(w) =>
       work_item[w] \notin P /\ work_item[w] \notin dropped /\ runs[work_item[w]] = 0
  /\ \A n \in P \cup dropped : runs[n] = 0
  /\ P \cap dropped = {}
  /\ \A n \in Node : runs[n] <= 1

\* The siblings being enqueued are pending, each by one worker.
SiblingsOnce(P) ==
  /\ \A w \in Worker : Enqueuing(w) => sibling[w] \in P
  /\ \A v, w \in Worker : v # w /\ Enqueuing(v) /\ Enqueuing(w) => sibling[v] # sibling[w]

\* Every node with a fate, the root excepted, is in its parent's set.
Claimed(P) ==
  /\ P \subseteq Node
  /\ \A n \in P \cup dropped : n = Root \/ n \in children_unf_set
  /\ \A w \in Worker : Busy(w) => work_item[w] = Root \/ work_item[w] \in children_unf_set
  /\ \A n \in Node : runs[n] > 0 => n = Root \/ n \in children_unf_set
  /\ \A n \in children_unf_set : n # Root /\ Ancestors(n) \subseteq children_unf_set

\* The subtree of a node whose run has not begun is empty.
NothingBelow(n) ==
  /\ \A m \in children_unf_set : m # n => n \notin Ancestors(m)
  /\ n = Root => children_unf_set = {}

Untouched(P) ==
  /\ \A n \in P : NothingBelow(n)
  /\ \A w \in Worker : Starting(w) => NothingBelow(work_item[w])

\* The path of a run past compute_unfolding is allocated and crosses no node
\* whose run has not begun.
PathsTaken(P) ==
  \A w \in Worker : Unfolded(w) =>
    /\ Ancestors(Path(work_item[w])) \subseteq children_unf_set
    /\ \A n \in P : n \notin Ancestors(Path(work_item[w]))
    /\ \A v \in Worker : Starting(v) => work_item[v] \notin Ancestors(Path(work_item[w]))

\* The alternatives of a run are allocated, those left to try excepted.
AlternativesTried ==
  /\ \A w \in Worker : Unfolded(w) =>
       /\ todo[w] \subseteq Alt[work_item[w]]
       /\ Alt[work_item[w]] \subseteq children_unf_set \cup todo[w]
  /\ \A w \in Worker : pc[w] = "account" => todo[w] = {}
  /\ \A n \in Node : runs[n] > 0 =>
       Alt[n] \subseteq children_unf_set /\ Ancestors(Path(n)) \subseteq children_unf_set

\* Only errors prune, and the run that met the error is known.
PastRun(w) == Unfolded(w) \/ pc[w] \in {"unfold", "crashed"}
ErrorsBlamed ==
  /\ res.error_trace <=> \E n \in Node : runs[n] > 0 /\ Outcome[n] = "error"
  /\ pruned_subtree # {} => cancelled # {}
  /\ \A n \in cancelled : 
       /\ Outcome[n] = "error"
       /\ runs[n] > 0 \/ \E w \in Worker : PastRun(w) /\ work_item[w] = n

DriverInv(P) ==
  /\ OwnedOnce(P)
  /\ SiblingsOnce(P)
  /\ Claimed(P)
  /\ Untouched(P)
  /\ PathsTaken(P)
  /\ AlternativesTried
  /\ ErrorsBlamed

-----------------------------------------------------------------------------
(* Every step of a worker preserves its part of the invariant.             *)

\* The last step of a worker, or one between two places of dequeue.
Moves(w, l) ==
  /\ l \notin {"check_pruned", "run", "unfold", "crashed", "neighbours", "enqueue", "push",
               "account", "halt"}
  /\ Goto(w, l)
  /\ UNCHANGED <<work_item, todo, sibling, treeVars, resultVars, historyVars>>

LEMMA MovesInv ==
  ASSUME NEW PC, DriverTypeOK(PC), NEW P, DriverInv(P), NEW w \in Worker, ~ Busy(w),
         NEW l, Moves(w, l)
  PROVE  DriverInv(P)'
  BY DEF Moves, DriverInv, OwnedOnce, SiblingsOnce, Claimed, Untouched, NothingBelow, PathsTaken, AlternativesTried, ErrorsBlamed, PastRun, Busy, Starting, Unfolded, Enqueuing, Goto, DriverTypeOK, treeVars, resultVars, historyVars

LEMMA SkipPrunedInv ==
  ASSUME NEW PC, DriverTypeOK(PC), NEW P, DriverInv(P), NEW w \in Worker, SkipPruned(w)
  PROVE  DriverInv(P)'
  BY DEF SkipPruned, DriverInv, OwnedOnce, SiblingsOnce, Claimed, Untouched, NothingBelow, PathsTaken, AlternativesTried, ErrorsBlamed, PastRun, Busy, Starting, Unfolded, Enqueuing, Goto, DriverTypeOK, treeVars, resultVars, historyVars

LEMMA StartReplayInv ==
  ASSUME NEW PC, DriverTypeOK(PC), NEW P, DriverInv(P), NEW w \in Worker, StartReplay(w)
  PROVE  DriverInv(P)'
<1>1. OwnedOnce(P)'
  BY DEF DriverInv, OwnedOnce, StartReplay, Busy, Starting, Unfolded, Enqueuing, Goto,
         DriverTypeOK, treeVars, resultVars, historyVars
<1>2. SiblingsOnce(P)'
  BY DEF DriverInv, SiblingsOnce, StartReplay, Busy, Starting, Unfolded, Enqueuing, Goto,
         DriverTypeOK, treeVars, resultVars, historyVars
<1>3. Claimed(P)'
  BY DEF DriverInv, Claimed, StartReplay, Busy, Starting, Unfolded, Enqueuing, Goto,
         DriverTypeOK, treeVars, resultVars, historyVars
<1>4. Untouched(P)'
  BY DEF DriverInv, Untouched, NothingBelow, StartReplay, Busy, Starting, Unfolded, Enqueuing, Goto,
         DriverTypeOK, treeVars, resultVars, historyVars
<1>5. PathsTaken(P)'
  BY DEF DriverInv, PathsTaken, StartReplay, Busy, Starting, Unfolded, Enqueuing, Goto,
         DriverTypeOK, treeVars, resultVars, historyVars
<1>6. AlternativesTried'
  BY DEF DriverInv, AlternativesTried, StartReplay, Busy, Starting, Unfolded, Enqueuing, Goto,
         DriverTypeOK, treeVars, resultVars, historyVars
<1>7. ErrorsBlamed'
  BY DEF DriverInv, ErrorsBlamed, PastRun, StartReplay, Busy, Starting, Unfolded, Enqueuing, Goto,
         DriverTypeOK, treeVars, resultVars, historyVars
<1>. QED
  BY <1>1, <1>2, <1>3, <1>4, <1>5, <1>6, <1>7 DEF DriverInv

LEMMA RunOnceInv ==
  ASSUME NEW PC, DriverTypeOK(PC), NEW P, DriverInv(P), NEW w \in Worker, RunOnce(w)
  PROVE  DriverInv(P)'
<1>1. OwnedOnce(P)'
  BY DEF DriverInv, OwnedOnce, RunOnce, Busy, Starting, Unfolded, Enqueuing, Goto,
         DriverTypeOK, treeVars, resultVars, historyVars
<1>2. SiblingsOnce(P)'
  BY DEF DriverInv, SiblingsOnce, RunOnce, Busy, Starting, Unfolded, Enqueuing, Goto,
         DriverTypeOK, treeVars, resultVars, historyVars
<1>3. Claimed(P)'
  BY DEF DriverInv, Claimed, RunOnce, Busy, Starting, Unfolded, Enqueuing, Goto,
         DriverTypeOK, treeVars, resultVars, historyVars
<1>4. Untouched(P)'
  BY DEF DriverInv, Untouched, NothingBelow, RunOnce, Busy, Starting, Unfolded, Enqueuing, Goto,
         DriverTypeOK, treeVars, resultVars, historyVars
<1>5. PathsTaken(P)'
  BY DEF DriverInv, PathsTaken, RunOnce, Busy, Starting, Unfolded, Enqueuing, Goto,
         DriverTypeOK, treeVars, resultVars, historyVars
<1>6. AlternativesTried'
  BY DEF DriverInv, AlternativesTried, RunOnce, Busy, Starting, Unfolded, Enqueuing, Goto,
         DriverTypeOK, treeVars, resultVars, historyVars
<1>7. ErrorsBlamed'
  BY DEF DriverInv, ErrorsBlamed, PastRun, RunOnce, Busy, Starting, Unfolded, Enqueuing, Goto,
         DriverTypeOK, treeVars, resultVars, historyVars
<1>. QED
  BY <1>1, <1>2, <1>3, <1>4, <1>5, <1>6, <1>7 DEF DriverInv

LEMMA CrashInv ==
  ASSUME NEW PC, DriverTypeOK(PC), NEW P, DriverInv(P), NEW w \in Worker, Crash(w)
  PROVE  DriverInv(P)'
<1>1. OwnedOnce(P)'
  BY DEF DriverInv, OwnedOnce, Crash, Busy, Starting, Unfolded, Enqueuing, Goto,
         DriverTypeOK, treeVars, resultVars, historyVars
<1>2. SiblingsOnce(P)'
  BY DEF DriverInv, SiblingsOnce, Crash, Busy, Starting, Unfolded, Enqueuing, Goto,
         DriverTypeOK, treeVars, resultVars, historyVars
<1>3. Claimed(P)'
  BY DEF DriverInv, Claimed, Crash, Busy, Starting, Unfolded, Enqueuing, Goto,
         DriverTypeOK, treeVars, resultVars, historyVars
<1>4. Untouched(P)'
  BY DEF DriverInv, Untouched, NothingBelow, Crash, Busy, Starting, Unfolded, Enqueuing, Goto,
         DriverTypeOK, treeVars, resultVars, historyVars
<1>5. PathsTaken(P)'
  BY DEF DriverInv, PathsTaken, Crash, Busy, Starting, Unfolded, Enqueuing, Goto,
         DriverTypeOK, treeVars, resultVars, historyVars
<1>6. AlternativesTried'
  BY DEF DriverInv, AlternativesTried, Crash, Busy, Starting, Unfolded, Enqueuing, Goto,
         DriverTypeOK, treeVars, resultVars, historyVars
<1>7. ErrorsBlamed'
  BY DEF DriverInv, ErrorsBlamed, PastRun, Crash, NullDereference, Busy, Starting, Unfolded, Enqueuing, Goto,
         DriverTypeOK, treeVars, resultVars, historyVars
<1>. QED
  BY <1>1, <1>2, <1>3, <1>4, <1>5, <1>6, <1>7 DEF DriverInv

LEMMA CountJobInv ==
  ASSUME NEW PC, DriverTypeOK(PC), NEW P, DriverInv(P), NEW w \in Worker, CountJob(w)
  PROVE  DriverInv(P)'
  BY DEF CountJob, DriverInv, OwnedOnce, SiblingsOnce, Claimed, Untouched, NothingBelow, PathsTaken, AlternativesTried, ErrorsBlamed, PastRun, Busy, Starting, Unfolded, Enqueuing, Goto, DriverTypeOK, treeVars, resultVars, historyVars

LEMMA PushedInv ==
  ASSUME NEW PC, DriverTypeOK(PC), NEW P, DriverInv(P), NEW w \in Worker, Pushed(w)
  PROVE  DriverInv(P)'
  BY DEF Pushed, DriverInv, OwnedOnce, SiblingsOnce, Claimed, Untouched, NothingBelow, PathsTaken, AlternativesTried, ErrorsBlamed, PastRun, Busy, Starting, Unfolded, Enqueuing, Goto, DriverTypeOK, treeVars, resultVars, historyVars

LEMMA LockStateInv ==
  ASSUME NEW PC, DriverTypeOK(PC), NEW P, DriverInv(P), NEW w \in Worker, LockState(w)
  PROVE  DriverInv(P)'
  BY DEF LockState, DriverInv, OwnedOnce, SiblingsOnce, Claimed, Untouched, NothingBelow, PathsTaken, AlternativesTried, ErrorsBlamed, PastRun, Busy, Starting, Unfolded, Enqueuing, Goto, DriverTypeOK, treeVars, resultVars, historyVars

\* The run of w is over and w goes on to l: Account with a scheduler to halt,
\* and the end of the loop body of run_rfsc_sequential.
Finishes(w, l) ==
  /\ pc[w] \in {"neighbours", "account"}
  /\ todo[w] = {}
  /\ l \notin {"check_pruned", "run", "unfold", "crashed", "neighbours", "enqueue", "push",
               "account"}
  /\ Goto(w, l)
  /\ res' = HandleTrace(Outcome[work_item[w]])
  /\ runs' = [runs EXCEPT ![work_item[w]] = @ + 1]
  /\ work_item' = [work_item EXCEPT ![w] = Root]
  /\ UNCHANGED <<todo, sibling, treeVars, cancelled, dropped>>

LEMMA AccountFinishes ==
  ASSUME NEW P, DriverInv(P), NEW w \in Worker, Account(w)
  PROVE  Finishes(w, IF MustHalt(Outcome[work_item[w]], outstanding_jobs - 1)
                     THEN "halt" ELSE "unlock")
  BY DEF Account, Finishes, DriverInv, AlternativesTried

LEMMA FinishesInv ==
  ASSUME NEW PC, DriverTypeOK(PC), NEW P, DriverInv(P), NEW w \in Worker, NEW l, Finishes(w, l)
  PROVE  DriverInv(P)'
<1>1. OwnedOnce(P)'
  BY DEF DriverInv, OwnedOnce, Finishes, HandleTrace, Busy, Starting, Unfolded, Enqueuing, Goto,
         DriverTypeOK, treeVars, resultVars, historyVars
<1>2. SiblingsOnce(P)'
  BY DEF DriverInv, SiblingsOnce, Finishes, HandleTrace, Busy, Starting, Unfolded, Enqueuing, Goto,
         DriverTypeOK, treeVars, resultVars, historyVars
<1>3. Claimed(P)'
  BY DEF DriverInv, Claimed, Finishes, HandleTrace, Busy, Starting, Unfolded, Enqueuing, Goto,
         DriverTypeOK, treeVars, resultVars, historyVars
<1>4. Untouched(P)'
  BY DEF DriverInv, Untouched, NothingBelow, Finishes, HandleTrace, Busy, Starting, Unfolded, Enqueuing, Goto,
         DriverTypeOK, treeVars, resultVars, historyVars
<1>5. PathsTaken(P)'
  BY DEF DriverInv, PathsTaken, Finishes, HandleTrace, Busy, Starting, Unfolded, Enqueuing, Goto,
         DriverTypeOK, treeVars, resultVars, historyVars
<1>6. AlternativesTried'
  BY DEF DriverInv, AlternativesTried, PathsTaken, Finishes, HandleTrace, Busy, Starting, Unfolded, Enqueuing, Goto,
         DriverTypeOK, treeVars, resultVars, historyVars
<1>7. ErrorsBlamed'
  <2>1. PICK n \in Node : n = work_item[w] /\ runs[n] \in Nat /\ runs' = [runs EXCEPT ![n] = @ + 1]
    BY DEF Finishes, DriverTypeOK
  <2>2. \A m \in Node : runs'[m] > 0 <=> runs[m] > 0 \/ m = n
    BY <2>1 DEF DriverTypeOK
  <2>3. res'.error_trace <=> res.error_trace \/ Outcome[n] = "error"
    BY <2>1 DEF Finishes, HandleTrace
  <2>4. cancelled' = cancelled /\ pruned_subtree' = pruned_subtree /\ cancelled \subseteq Node
    BY DEF Finishes, DriverTypeOK, treeVars
  <2>5. \A v \in Worker : v # w /\ PastRun(v) => PastRun(v)' /\ work_item'[v] = work_item[v]
    BY DEF Finishes, Goto, PastRun, Unfolded, DriverTypeOK
  <2>6. ASSUME NEW m \in cancelled
        PROVE  runs'[m] > 0 \/ \E v \in Worker : PastRun(v)' /\ work_item'[v] = m
    <3>1. runs[m] > 0 \/ \E v \in Worker : PastRun(v) /\ work_item[v] = m
      BY DEF DriverInv, ErrorsBlamed
    <3>. QED
      BY <2>1, <2>2, <2>4, <2>5, <3>1
  <2>. QED
    BY <2>2, <2>3, <2>4, <2>6, <2>1 DEF DriverInv, ErrorsBlamed
<1>. QED
  BY <1>1, <1>2, <1>3, <1>4, <1>5, <1>6, <1>7 DEF DriverInv

LEMMA HaltedInv ==
  ASSUME NEW PC, DriverTypeOK(PC), NEW P, DriverInv(P), NEW w \in Worker, Halted(w)
  PROVE  DriverInv(P)'
  BY DEF Halted, DriverInv, OwnedOnce, SiblingsOnce, Claimed, Untouched, NothingBelow, PathsTaken, AlternativesTried, ErrorsBlamed, PastRun, Busy, Starting, Unfolded, Enqueuing, Goto, DriverTypeOK, treeVars, resultVars, historyVars

LEMMA UnlockStateInv ==
  ASSUME NEW PC, DriverTypeOK(PC), NEW P, DriverInv(P), NEW w \in Worker, UnlockState(w)
  PROVE  DriverInv(P)'
  BY DEF UnlockState, DriverInv, OwnedOnce, SiblingsOnce, Claimed, Untouched, NothingBelow, PathsTaken, AlternativesTried, ErrorsBlamed, PastRun, Busy, Starting, Unfolded, Enqueuing, Goto, DriverTypeOK, treeVars, resultVars, historyVars

LEMMA GotWorkInv ==
  ASSUME NEW PC, DriverTypeOK(PC), NEW P, DriverInv(P), NEW w \in Worker,
         ~ Busy(w), NEW n \in P, GotWork(w, n),
         \A v \in Worker : Enqueuing(v) => sibling[v] # n
  PROVE  DriverInv(P \ {n})'
<1>. DEFINE Q == P \ {n}
<1>1. n \in Node /\ n \notin dropped /\ runs[n] = 0 /\ \A v \in Worker : Busy(v) => work_item[v] # n
  BY DEF DriverInv, OwnedOnce, Claimed
<1>2. OwnedOnce(Q)'
  BY <1>1 DEF DriverInv, OwnedOnce, GotWork, Busy, Starting, Unfolded, Enqueuing, Goto,
         DriverTypeOK, treeVars, resultVars, historyVars
<1>3. Claimed(Q)'
  BY DEF DriverInv, Claimed, GotWork, Busy, Starting, Unfolded, Enqueuing, Goto,
         DriverTypeOK, treeVars, resultVars, historyVars
<1>4. SiblingsOnce(Q)'
  BY DEF DriverInv, SiblingsOnce, GotWork, Busy, Starting, Unfolded, Enqueuing, Goto,
         DriverTypeOK, treeVars, resultVars, historyVars
<1>5. Untouched(Q)'
  BY DEF DriverInv, Untouched, NothingBelow, GotWork, Busy, Starting, Unfolded, Enqueuing, Goto,
         DriverTypeOK, treeVars, resultVars, historyVars
<1>6. PathsTaken(Q)'
  BY DEF DriverInv, PathsTaken, GotWork, Busy, Starting, Unfolded, Enqueuing, Goto,
         DriverTypeOK, treeVars, resultVars, historyVars
<1>7. AlternativesTried'
  BY DEF DriverInv, AlternativesTried, GotWork, Busy, Starting, Unfolded, Enqueuing, Goto,
         DriverTypeOK, treeVars, resultVars, historyVars
<1>8. ErrorsBlamed'
  BY DEF DriverInv, ErrorsBlamed, PastRun, GotWork, Busy, Starting, Unfolded, Enqueuing, Goto,
         DriverTypeOK, treeVars, resultVars, historyVars
<1>. QED
  BY <1>2, <1>3, <1>4, <1>5, <1>6, <1>7, <1>8 DEF DriverInv

\* The nodes that a run adds were allocated by nobody.
LEMMA NewNodesAreFresh ==
  ASSUME NEW PC, DriverTypeOK(PC), NEW P, DriverInv(P), NEW w \in Worker, Starting(w)
  PROVE  NewNodes(work_item[w]) \cap children_unf_set = {}
<1>. DEFINE n == work_item[w]
<1>1. n \in Node /\ NothingBelow(n)
  BY DEF DriverInv, Untouched, DriverTypeOK
<1>2. ASSUME NEW m \in NewNodes(n), m \in children_unf_set
      PROVE  FALSE
  <2>1. n # Root => n \in Ancestors(m) /\ m # n
    BY <1>1, <1>2, AncestorsOfPath, NewNodesInTree
  <2>. QED
    BY <1>1, <1>2, <2>1 DEF NothingBelow
<1>. QED
  BY <1>2

LEMMA ComputeUnfoldingInv ==
  ASSUME NEW PC, DriverTypeOK(PC), NEW P, DriverInv(P), NEW w \in Worker,
         ComputeUnfolding(w)
  PROVE  DriverInv(P)'
<1>. DEFINE n == work_item[w]
<1>1. /\ n \in Node
      /\ Starting(w)
      /\ Busy(w)
      /\ children_unf_set' = children_unf_set \cup NewNodes(n)
      /\ NewNodes(n) \cap children_unf_set = {}
      /\ NewNodes(n) \subseteq Node \ {Root}
  BY NewNodesAreFresh, NewNodesInTree DEF ComputeUnfolding, Starting, Busy, DriverTypeOK
<1>2. Ancestors(Path(n)) \subseteq children_unf_set'
  <2>1. CASE n = Root
    BY <1>1, <2>1 DEF NewNodes, Ancestors, Root
  <2>2. CASE n \in children_unf_set
    BY <1>1, <2>2 DEF NewNodes, DriverInv, Claimed
  <2>. QED
    BY <1>1, <2>1, <2>2 DEF DriverInv, Claimed
\* No other node whose run has not begun is on the path.
<1>3. ASSUME NEW m \in Node, m # n, NothingBelow(m),
             m = Root \/ m \in children_unf_set
      PROVE  m \notin Ancestors(Path(n))
  <2>1. SUFFICES ASSUME m \in Ancestors(Path(n))
                 PROVE  FALSE
    OBVIOUS
  <2>2. m # Root
    BY <1>1, <2>1, AncestorsOfPath, AncestorsInTree
  <2>3. m \notin NewNodes(n)
    BY <1>1, <1>3, <2>2
  <2>4. m \in Ancestors(n)
    BY <2>1, <2>3 DEF NewNodes
  <2>5. n # Root
    BY <2>4 DEF Ancestors, Root
  <2>6. n \in children_unf_set
    BY <1>1, <2>5 DEF DriverInv, Claimed
  <2>. QED
    BY <1>3, <2>4, <2>6 DEF NothingBelow
<1>4. ASSUME NEW m \in Node, m # n, NothingBelow(m),
             m = Root \/ m \in children_unf_set
      PROVE  NothingBelow(m)'
  <2>1. ASSUME NEW k \in NewNodes(n), m \in Ancestors(k)
        PROVE  FALSE
    <3>1. k \in Ancestors(Path(n))
      BY <2>1 DEF NewNodes
    <3>2. m \in Ancestors(Path(n))
      BY <1>1, <2>1, <3>1, AncestorsOfPath, AncestorsOfAncestor
    <3>. QED
      BY <1>3, <1>4, <3>2
  <2>2. m # Root
    <3>1. CASE n \in children_unf_set
      BY <1>4, <3>1 DEF NothingBelow
    <3>2. CASE n = Root
      BY <1>4, <3>2
    <3>. QED
      BY <1>1, <3>1, <3>2 DEF DriverInv, Claimed
  <2>. QED
    BY <1>1, <1>4, <2>1, <2>2 DEF NothingBelow
<1>5. OwnedOnce(P)'
  BY DEF DriverInv, OwnedOnce, ComputeUnfolding, Busy, Starting, Unfolded, Enqueuing, Goto,
         DriverTypeOK, treeVars, resultVars, historyVars
<1>6. SiblingsOnce(P)'
  BY DEF DriverInv, SiblingsOnce, ComputeUnfolding, Busy, Starting, Unfolded, Enqueuing, Goto,
         DriverTypeOK, treeVars, resultVars, historyVars
<1>7. Claimed(P)'
  <2>1. \A m \in children_unf_set' : m # Root /\ Ancestors(m) \subseteq children_unf_set'
    <3>1. ASSUME NEW m \in NewNodes(n)
          PROVE  m # Root /\ Ancestors(m) \subseteq children_unf_set'
      BY <1>1, <1>2, AncestorsOfPath, AncestorsOfAncestor DEF NewNodes
    <3>. QED
      BY <1>1, <3>1 DEF DriverInv, Claimed
  <2>. QED
    BY <1>1, <2>1 DEF DriverInv, Claimed, ComputeUnfolding, Busy, Starting, Unfolded, Enqueuing, Goto,
         DriverTypeOK, treeVars, resultVars, historyVars
\* The nodes whose run has not begun are those of before, without n.
<1>8. ASSUME NEW m \in P
      PROVE  m \in Node /\ m # n /\ NothingBelow(m) /\ (m = Root \/ m \in children_unf_set)
  BY <1>1 DEF DriverInv, OwnedOnce, Claimed, Untouched
<1>9. ASSUME NEW v \in Worker, Starting(v)'
      PROVE  /\ v # w /\ Starting(v) /\ work_item'[v] = work_item[v]
             /\ work_item[v] \in Node /\ work_item[v] # n /\ NothingBelow(work_item[v])
             /\ work_item[v] = Root \/ work_item[v] \in children_unf_set
  BY <1>9, <1>1 DEF DriverInv, OwnedOnce, Claimed, Untouched, ComputeUnfolding, Busy, Starting, Unfolded, Enqueuing, Goto,
         DriverTypeOK, treeVars, resultVars, historyVars
<1>10. Untouched(P)'
  BY <1>4, <1>8, <1>9 DEF Untouched
<1>11. PathsTaken(P)'
  <2>1. ASSUME NEW v \in Worker, Unfolded(v)', v # w
        PROVE  Unfolded(v) /\ work_item'[v] = work_item[v]
    BY <2>1 DEF ComputeUnfolding, Unfolded, Goto, DriverTypeOK
  <2>2. work_item'[w] = n
    BY DEF ComputeUnfolding
  <2>. QED
    BY <1>1, <1>2, <1>3, <1>8, <1>9, <2>1, <2>2 DEF PathsTaken, DriverInv
<1>12. AlternativesTried'
  BY <1>1 DEF DriverInv, AlternativesTried, ComputeUnfolding, Busy, Starting, Unfolded, Enqueuing, Goto,
         DriverTypeOK, treeVars, resultVars, historyVars
<1>13. ErrorsBlamed'
  BY DEF DriverInv, ErrorsBlamed, PastRun, ComputeUnfolding, Busy, Starting, Unfolded, Enqueuing, Goto,
         DriverTypeOK, treeVars, resultVars, historyVars
<1>. QED
  BY <1>5, <1>6, <1>7, <1>10, <1>11, <1>12, <1>13 DEF DriverInv

\* The nodes above an alternative are on the path of the run that found it.
LEMMA AboveAlternative ==
  ASSUME NEW n \in Node, NEW a \in Alt[n]
  PROVE  /\ a \in Node \ {Root}
         /\ \A m \in Ancestors(a) : m # a => m \in Ancestors(Path(n))
<1>1. a \in Node \ {Root} /\ (Parent(a) = Root \/ Parent(a) \in Ancestors(Path(n)))
  BY TreeAssumption
<1>2. ASSUME NEW m \in Ancestors(a), m # a
      PROVE  m \in Ancestors(Path(n))
  <2>1. Parent(a) # Root /\ m \in Ancestors(Parent(a))
    BY <1>1, <1>2, AncestorsOfParent
  <2>. QED
    BY <1>1, <2>1, AncestorsOfPath, AncestorsOfAncestor
<1>. QED
  BY <1>1, <1>2

\* The sibling that TryAlternative makes, if any.
NewSibling(a) == IF IsNew(a) /\ a \in Sat THEN {a} ELSE {}

LEMMA TryAlternativeInv ==
  ASSUME NEW PC, DriverTypeOK(PC), NEW P, DriverInv(P), NEW w \in Worker,
         NEW a, TryAlternative(w, a), NEW S, S = NewSibling(a)
  PROVE  DriverInv(P \cup S)'
<1>. DEFINE n == work_item[w]
            Q == P \cup S
<1>1. /\ n \in Node
      /\ Unfolded(w) /\ Busy(w) /\ ~ Enqueuing(w)
      /\ a \in Alt[n]
      /\ Ancestors(Path(n)) \subseteq children_unf_set
      /\ children_unf_set' = children_unf_set \cup {a}
  BY DEF TryAlternative, DriverInv, AlternativesTried, PathsTaken, Unfolded, Busy, Enqueuing,
         DriverTypeOK
<1>2. a \in Node \ {Root} /\ \A m \in Ancestors(a) : m # a => m \in Ancestors(Path(n))
  BY <1>1, AboveAlternative
<1>3. /\ S \subseteq {a}
      /\ S # {} => a \notin children_unf_set /\ a \in Sat
  BY DEF NewSibling, IsNew
<1>4. /\ work_item' = work_item /\ runs' = runs /\ dropped' = dropped
      /\ todo' = [todo EXCEPT ![w] = @ \ {a}]
      /\ IF S # {} THEN pc' = [pc EXCEPT ![w] = "enqueue"] /\ sibling' = [sibling EXCEPT ![w] = a]
                    ELSE pc' = pc /\ sibling' = sibling
  BY <1>1 DEF TryAlternative, NewSibling, Goto, historyVars
<1>5. \A v \in Worker :
        /\ Busy(v)' <=> Busy(v)
        /\ Starting(v)' <=> Starting(v)
        /\ Unfolded(v)' <=> Unfolded(v)
        /\ Enqueuing(v)' <=> Enqueuing(v) \/ (v = w /\ S # {})
  BY <1>1, <1>4 DEF TryAlternative, Busy, Starting, Unfolded, Enqueuing, DriverTypeOK
\* A new node has no fate yet.
<1>6. S # {} =>
        /\ a \notin P \cup dropped
        /\ runs[a] = 0
        /\ \A v \in Worker : Busy(v) => work_item[v] # a
  BY <1>2, <1>3 DEF DriverInv, Claimed, DriverTypeOK
<1>7. OwnedOnce(Q)'
  BY <1>3, <1>4, <1>5, <1>6 DEF DriverInv, OwnedOnce
<1>8. SiblingsOnce(Q)'
  <2>1. \A v \in Worker : Enqueuing(v) => sibling[v] \in P
    BY DEF DriverInv, SiblingsOnce
  <2>2. CASE S = {}
    BY <1>4, <1>5, <2>2 DEF DriverInv, SiblingsOnce
  <2>3. CASE S # {}
    <3>1. a \in S /\ \A v \in Worker : sibling'[v] = IF v = w THEN a ELSE sibling[v]
      BY <1>3, <1>4, <2>3 DEF DriverTypeOK
    <3>. QED
      BY <1>1, <1>5, <1>6, <2>1, <2>3, <3>1 DEF DriverInv, SiblingsOnce
  <2>. QED
    BY <2>2, <2>3
<1>9. Claimed(Q)'
  BY <1>1, <1>2, <1>3, <1>4, <1>5 DEF DriverInv, Claimed
\* A node whose run has not begun is not above a.
<1>10. ASSUME NEW m \in Node, NothingBelow(m), m \notin Ancestors(Path(n)), m # n
       PROVE  NothingBelow(m)'
  <2>1. m # Root
    <3>1. CASE n = Root
      BY <1>10, <3>1
    <3>2. CASE n \in children_unf_set
      BY <1>10, <3>2 DEF NothingBelow
    <3>. QED
      BY <1>1, <3>1, <3>2 DEF DriverInv, Claimed
  <2>. QED
    BY <1>1, <1>2, <1>10, <2>1 DEF NothingBelow
<1>11. S # {} => NothingBelow(a)'
  BY <1>1, <1>2, <1>3 DEF NothingBelow, DriverInv, Claimed
<1>12. ASSUME NEW m \in P
       PROVE  m \in Node /\ NothingBelow(m) /\ m \notin Ancestors(Path(n)) /\ m # n
  BY <1>1 DEF DriverInv, OwnedOnce, Claimed, Untouched, PathsTaken
<1>13. ASSUME NEW v \in Worker, Starting(v)
       PROVE  /\ work_item[v] \in Node /\ NothingBelow(work_item[v])
              /\ work_item[v] \notin Ancestors(Path(n)) /\ work_item[v] # n
  <2>1. v # w /\ Busy(v)
    BY <1>1, <1>13 DEF Starting, Unfolded, Busy
  <2>. QED
    BY <1>1, <1>13, <2>1 DEF DriverInv, OwnedOnce, Untouched, PathsTaken, DriverTypeOK
<1>14. Untouched(Q)'
  BY <1>3, <1>4, <1>5, <1>10, <1>11, <1>12, <1>13 DEF Untouched
<1>15. PathsTaken(Q)'
  BY <1>1, <1>3, <1>4, <1>5 DEF DriverInv, PathsTaken
<1>16. AlternativesTried'
  <2>1. pc'[w] # "account" /\ \A v \in Worker \ {w} : pc'[v] = pc[v] /\ todo'[v] = todo[v]
    BY <1>4 DEF TryAlternative, DriverTypeOK
  <2>2. todo'[w] = todo[w] \ {a}
    BY <1>4 DEF DriverTypeOK
  <2>. QED
    BY <1>1, <1>4, <1>5, <2>1, <2>2 DEF DriverInv, AlternativesTried
<1>17. ErrorsBlamed'
  <2>1. \A v \in Worker : PastRun(v) => PastRun(v)'
    BY <1>1, <1>4, <1>5 DEF PastRun, TryAlternative, DriverTypeOK
  <2>. QED
    BY <1>4, <2>1 DEF DriverInv, ErrorsBlamed, TryAlternative, resultVars, historyVars
<1>. QED
  BY <1>7, <1>8, <1>9, <1>14, <1>15, <1>16, <1>17 DEF DriverInv

-----------------------------------------------------------------------------
LEMMA DriverTypes ==
  ASSUME NEW PC, DriverPC \subseteq PC, DriverTypeOK(PC), NEW w \in Worker,
         \/ GotNull(w) \/ (\E n \in Node : GotWork(w, n)) \/ SkipPruned(w) \/ StartReplay(w)
         \/ RunOnce(w) \/ Crash(w) \/ ComputeUnfolding(w) \/ (\E a : TryAlternative(w, a))
         \/ CountJob(w) \/ Pushed(w) \/ LockState(w) \/ Account(w) \/ Halted(w)
         \/ UnlockState(w)
  PROVE  DriverTypeOK(PC)'
<1>. USE DEF DriverTypeOK, DriverPC, Goto, treeVars, resultVars, historyVars
<1>1. CASE GotNull(w)
  BY <1>1 DEF GotNull
<1>2. CASE SkipPruned(w)
  BY <1>2, TreeAssumption DEF SkipPruned
<1>3. CASE StartReplay(w)
  BY <1>3 DEF StartReplay
<1>4. CASE RunOnce(w)
  BY <1>4 DEF RunOnce
<1>5. CASE Crash(w)
  BY <1>5 DEF Crash
<1>6. CASE ComputeUnfolding(w)
  BY <1>6, TreeAssumption, NewNodesInTree DEF ComputeUnfolding
<1>7. CASE CountJob(w)
  BY <1>7 DEF CountJob
<1>8. CASE Pushed(w)
  BY <1>8, TreeAssumption DEF Pushed
<1>9. CASE LockState(w)
  BY <1>9 DEF LockState
<1>10. CASE Account(w)
  <2>1. res' \in [trace_count : Nat, assume_blocked_trace_count : Nat, error_trace : BOOLEAN]
    BY <1>10 DEF Account, HandleTrace
  <2>2. runs' \in [Node -> Nat]
    BY <1>10 DEF Account
  <2>. QED
    BY <1>10, <2>1, <2>2, TreeAssumption DEF Account
<1>11. CASE Halted(w)
  BY <1>11 DEF Halted
<1>12. CASE UnlockState(w)
  BY <1>12 DEF UnlockState
<1>13. CASE \E n \in Node : GotWork(w, n)
  BY <1>13, TreeAssumption DEF GotWork
<1>14. CASE \E a : TryAlternative(w, a)
  BY <1>14 DEF TryAlternative
<1>. QED
  BY <1>1, <1>2, <1>3, <1>4, <1>5, <1>6, <1>7, <1>8, <1>9, <1>10, <1>11, <1>12, <1>13, <1>14
=============================================================================
