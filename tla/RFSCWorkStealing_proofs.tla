---------------------- MODULE RFSCWorkStealing_proofs ----------------------
(***************************************************************************)
(* The parallel exploration with work stealing, for every number of        *)
(* workers, every tree of decisions and every outcome of its runs.         *)
(***************************************************************************)
EXTENDS RFSCWorkStealing, RFSCScheduler_proofs

\* A deque holds nodes of its own depth, each once.
QueueOK(q) ==
  /\ q \in [DepthOf -> Seq(Node)]
  /\ \A d \in DepthOf : IsInjective(q[d]) /\ \A n \in ToSet(q[d]) : Depth(n) = d

QueuesDisjoint ==
  \A v, w \in Worker : v # w => Queued(v) \cap Queued(w) = {}

\* The slow path runs under the big mutex, sleepers do not hold it, and nobody
\* looks for work to steal once halting is set.
SlowPathLocked ==
  /\ \A w \in Worker : pc[w] \in {"retest", "scan"} => mutex = w
  /\ \A w \in waiting : pc[w] = "lock_sched"
  /\ halting => \A w \in Worker : pc[w] # "scan"

QueuesOK ==
  /\ DOMAIN work_queue = Worker
  /\ work_queue = [w \in Worker |-> work_queue[w]]
  /\ \A w \in Worker : QueueOK(work_queue[w])
  /\ QueuesDisjoint

SlowPathOK ==
  /\ mutex \in Worker \cup {NoWorker}
  /\ others \in [Worker -> SUBSET Worker] /\ \A w \in Worker : w \notin others[w]
  /\ waiting \subseteq Worker
  /\ halting \in BOOLEAN
  /\ SlowPathLocked
  /\ OwnerAwake

IInv ==
  /\ SchedulerInv(StealingPC, AllQueued, halting)
  /\ QueuesOK
  /\ SlowPathOK

-----------------------------------------------------------------------------
(* ThreadWorkQueue: what its operations do to the set of nodes queued.      *)

\* A set of numbers that is finite and not empty has a greatest and a least one.
LEMMA Extremes ==
  ASSUME NEW S, S \subseteq Int, IsFiniteSet(S), S # {}
  PROVE  /\ Max(S) \in S /\ \A x \in S : x <= Max(S)
         /\ Min(S) \in S /\ \A x \in S : Min(S) <= x
<1>. DEFINE Above(x) == {y \in S : y > x}
            Below(x) == {y \in S : y < x}
            R == OpToRel(<, Nat)
<1>1. IsWellFoundedOn(R, Nat)
  BY NatLessThanWellFounded
<1>2. \A i, j \in Nat : i < j => <<i, j>> \in R
  BY DEF OpToRel
<1>3. \E m \in S : \A x \in S : x <= m
  <2>. DEFINE T == {Cardinality(Above(x)) : x \in S}
  <2>1. \A x \in S : IsFiniteSet(Above(x)) /\ Cardinality(Above(x)) \in Nat
    BY FS_Subset, FS_CardinalityType
  <2>2. T \subseteq Nat /\ T # {}
    BY <2>1
  <2>3. PICK k \in T : \A j \in T : ~ (<<j, k>> \in R)
    <3>. HIDE DEF T, R
    <3>. QED
      BY <1>1, <2>2, WFMin
  <2>4. PICK m \in S : k = Cardinality(Above(m))
    BY <2>3
  <2>5. ASSUME NEW x \in S, m < x
        PROVE  FALSE
    <3>1. Above(x) \subseteq Above(m) /\ x \in Above(m) /\ x \notin Above(x)
      <4>1. \A y \in S : y > x => y > m
        BY <2>5
      <4>2. x > m /\ ~ (x > x)
        BY <2>5
      <4>. QED
        BY <4>1, <4>2
    <3>2. Cardinality(Above(x)) < Cardinality(Above(m))
      <4>1. /\ Cardinality(Above(x)) <= Cardinality(Above(m))
            /\ Cardinality(Above(m)) = Cardinality(Above(x)) => Above(m) = Above(x)
        BY <2>1, <3>1, FS_Subset
      <4>. QED
        BY <2>1, <3>1, <4>1
    <3>. QED
      BY <1>2, <2>1, <2>3, <2>4, <3>2
  <2>. QED
    BY <2>5
<1>4. \E m \in S : \A x \in S : m <= x
  <2>. DEFINE T == {Cardinality(Below(x)) : x \in S}
  <2>1. \A x \in S : IsFiniteSet(Below(x)) /\ Cardinality(Below(x)) \in Nat
    BY FS_Subset, FS_CardinalityType
  <2>2. T \subseteq Nat /\ T # {}
    BY <2>1
  <2>3. PICK k \in T : \A j \in T : ~ (<<j, k>> \in R)
    <3>. HIDE DEF T, R
    <3>. QED
      BY <1>1, <2>2, WFMin
  <2>4. PICK m \in S : k = Cardinality(Below(m))
    BY <2>3
  <2>5. ASSUME NEW x \in S, x < m
        PROVE  FALSE
    <3>1. Below(x) \subseteq Below(m) /\ x \in Below(m) /\ x \notin Below(x)
      <4>1. \A y \in S : y < x => y < m
        BY <2>5
      <4>2. x < m /\ ~ (x < x)
        BY <2>5
      <4>. QED
        BY <4>1, <4>2
    <3>2. Cardinality(Below(x)) < Cardinality(Below(m))
      <4>1. /\ Cardinality(Below(x)) <= Cardinality(Below(m))
            /\ Cardinality(Below(m)) = Cardinality(Below(x)) => Below(m) = Below(x)
        BY <2>1, <3>1, FS_Subset
      <4>. QED
        BY <2>1, <3>1, <4>1
    <3>. QED
      BY <1>2, <2>1, <2>3, <2>4, <3>2
  <2>. QED
    BY <2>5
<1>. QED
  BY <1>3, <1>4 DEF Max, Min

LEMMA DepthsAreNumbers == DepthOf \subseteq Int
  BY NodeIsSeq DEF DepthOf, Depth

\* A queue that holds something has a deepest and a shallowest deque.
LEMMA FilledDepths ==
  ASSUME NEW q, QueueOK(q), IsFiniteSet(NodesOf(q)), ~ Empty(q)
  PROVE  Deepest(q) \in Filled(q) /\ Shallowest(q) \in Filled(q)
<1>. DEFINE f == [d \in Filled(q) |-> Head(q[d])]
<1>1. \A d \in DepthOf : q[d] \in Seq(Node)
  BY DEF QueueOK
<1>2. \A d \in Filled(q) : Head(q[d]) \in ToSet(q[d])
  BY <1>1 DEF Filled, ToSet
<1>3. \A d \in Filled(q) : Head(q[d]) \in NodesOf(q) /\ Depth(Head(q[d])) = d
  BY <1>2 DEF Filled, QueueOK, NodesOf
<1>4. f \in Injection(Filled(q), NodesOf(q))
  BY <1>3 DEF Injection, IsInjective
<1>5. IsFiniteSet(Filled(q))
  BY <1>4, FS_Injection
<1>6. Filled(q) \subseteq Int /\ Filled(q) # {}
  BY DepthsAreNumbers DEF Filled, Empty
<1>. QED
  BY <1>5, <1>6, Extremes DEF Deepest, Shallowest

LEMMA EmptyHasNone ==
  ASSUME NEW q, QueueOK(q)
  PROVE  Empty(q) <=> NodesOf(q) = {}
<1>1. \A d \in DepthOf : q[d] \in Seq(Node)
  BY DEF QueueOK
<1>2. ASSUME NEW d \in DepthOf
      PROVE  q[d] = << >> <=> ToSet(q[d]) = {}
  <2>1. q[d] # << >> => 1 \in DOMAIN q[d]
    BY <1>1
  <2>2. DOMAIN << >> = {}
    OBVIOUS
  <2>. QED
    BY <2>1, <2>2 DEF ToSet
<1>. QED
  BY <1>2 DEF Empty, NodesOf

LEMMA EmptyQueueOK == QueueOK(EmptyQueue) /\ NodesOf(EmptyQueue) = {}
<1>1. << >> \in Seq(Node) /\ ToSet(<< >>) = {} /\ IsInjective(<< >>)
  BY DEF ToSet, IsInjective
<1>. QED
  BY <1>1 DEF QueueOK, NodesOf, EmptyQueue

\* The nodes at one depth of a queue are those of a deque s put there.
With(q, d, s) == [q EXCEPT ![d] = s]

LEMMA ReplaceDeque ==
  ASSUME NEW q, QueueOK(q), NEW d \in DepthOf, NEW s \in Seq(Node), IsInjective(s),
         \A n \in ToSet(s) : Depth(n) = d
  PROVE  /\ QueueOK(With(q, d, s))
         /\ NodesOf(With(q, d, s)) = (NodesOf(q) \ ToSet(q[d])) \cup ToSet(s)
<1>. DEFINE r == With(q, d, s)
<1>1. /\ r \in [DepthOf -> Seq(Node)] /\ r[d] = s /\ \A e \in DepthOf \ {d} : r[e] = q[e]
  BY DEF QueueOK, With
<1>. HIDE DEF r
<1>2. QueueOK(r)
  BY <1>1 DEF QueueOK
<1>3. \A e \in DepthOf \ {d} : ToSet(q[e]) \cap ToSet(q[d]) = {}
  BY DEF QueueOK
<1>4. NodesOf(r) = (UNION {ToSet(q[e]) : e \in DepthOf \ {d}}) \cup ToSet(s)
  BY <1>1 DEF NodesOf
<1>5. NodesOf(q) \ ToSet(q[d]) = UNION {ToSet(q[e]) : e \in DepthOf \ {d}}
  BY <1>3 DEF NodesOf
<1>. QED
  BY <1>2, <1>4, <1>5 DEF r

LEMMA PushBackNodes ==
  ASSUME NEW q, QueueOK(q), NEW n \in Node, n \notin NodesOf(q)
  PROVE  /\ QueueOK(PushBack(q, n))
         /\ NodesOf(PushBack(q, n)) = NodesOf(q) \cup {n}
<1>. DEFINE d == Depth(n)
            s == Append(q[d], n)
<1>1. d \in DepthOf /\ q[d] \in Seq(Node) /\ n \notin ToSet(q[d]) /\ IsInjective(q[d])
  BY DEF DepthOf, QueueOK, NodesOf
<1>2. /\ s \in Seq(Node) /\ DOMAIN s = 1 .. Len(q[d]) + 1 /\ Len(q[d]) \in Nat
      /\ DOMAIN q[d] = 1 .. Len(q[d])
      /\ \A i \in 1 .. Len(q[d]) : s[i] = q[d][i]
      /\ s[Len(q[d]) + 1] = n
  BY <1>1
<1>3. ToSet(s) = ToSet(q[d]) \cup {n}
  BY <1>2 DEF ToSet
<1>4. IsInjective(s)
  BY <1>1, <1>2 DEF IsInjective, ToSet
<1>5. \A m \in ToSet(s) : Depth(m) = d
  BY <1>1, <1>3 DEF QueueOK
<1>6. ToSet(q[d]) \subseteq NodesOf(q)
  BY <1>1 DEF NodesOf
<1>7. PushBack(q, n) = With(q, d, s)
  BY DEF PushBack, With
<1>8. s \in Seq(Node)
  BY <1>2
<1>. HIDE DEF d, s
<1>9. /\ QueueOK(PushBack(q, n))
      /\ NodesOf(PushBack(q, n)) = (NodesOf(q) \ ToSet(q[d])) \cup ToSet(s)
  BY <1>1, <1>4, <1>5, <1>7, <1>8, ReplaceDeque
<1>. QED
  BY <1>3, <1>6, <1>9

LEMMA PopFrontNodes ==
  ASSUME NEW q, QueueOK(q), IsFiniteSet(NodesOf(q)), ~ Empty(q)
  PROVE  /\ FrontOf(q) \in NodesOf(q)
         /\ QueueOK(PopFront(q))
         /\ NodesOf(PopFront(q)) = NodesOf(q) \ {FrontOf(q)}
<1>. DEFINE d == Deepest(q)
            s == Tail(q[d])
            n == Head(q[d])
<1>1. d \in DepthOf /\ q[d] \in Seq(Node) /\ q[d] # << >> /\ IsInjective(q[d])
  BY FilledDepths DEF Filled, QueueOK
<1>2. /\ Len(q[d]) \in Nat \ {0} /\ DOMAIN q[d] = 1 .. Len(q[d])
      /\ s \in Seq(Node) /\ DOMAIN s = 1 .. Len(q[d]) - 1
      /\ \A i \in 1 .. Len(q[d]) - 1 : s[i] = q[d][i + 1]
      /\ n = q[d][1]
  BY <1>1
<1>3. ToSet(q[d]) = ToSet(s) \cup {n}
  <2>1. ASSUME NEW i \in 1 .. Len(q[d]), i # 1
        PROVE  i - 1 \in 1 .. Len(q[d]) - 1 /\ q[d][i] = s[i - 1]
    BY <1>2, <2>1
  <2>2. ASSUME NEW i \in 1 .. Len(q[d]) - 1
        PROVE  i + 1 \in 1 .. Len(q[d])
    BY <1>2
  <2>3. 1 \in 1 .. Len(q[d])
    BY <1>2
  <2>. QED
    BY <1>2, <2>1, <2>2, <2>3 DEF ToSet
<1>4. IsInjective(s) /\ n \notin ToSet(s)
  <2>1. ASSUME NEW i \in 1 .. Len(q[d]) - 1
        PROVE  i + 1 \in 1 .. Len(q[d]) /\ i + 1 # 1 /\ 1 \in 1 .. Len(q[d])
    BY <1>2
  <2>2. \A i, j \in DOMAIN q[d] : q[d][i] = q[d][j] => i = j
    BY <1>1 DEF IsInjective
  <2>3. \A i, j \in DOMAIN s : s[i] = s[j] => i + 1 = j + 1
    BY <1>2, <2>1, <2>2
  <2>4. \A i \in DOMAIN s : s[i] # n
    BY <1>2, <2>1, <2>2
  <2>5. \A i, j \in DOMAIN s : i + 1 = j + 1 => i = j
    BY <1>2
  <2>. QED
    BY <2>3, <2>4, <2>5 DEF IsInjective, ToSet
<1>5. \A m \in ToSet(s) : Depth(m) = d
  BY <1>1, <1>3 DEF QueueOK
<1>6. n \in NodesOf(q) /\ ToSet(q[d]) \subseteq NodesOf(q)
  BY <1>1, <1>3 DEF NodesOf
<1>7. PopFront(q) = With(q, d, s) /\ FrontOf(q) = n
  BY DEF PopFront, FrontOf, With
<1>8. s \in Seq(Node)
  BY <1>2
<1>. HIDE DEF d, s
<1>9. /\ QueueOK(PopFront(q))
      /\ NodesOf(PopFront(q)) = (NodesOf(q) \ ToSet(q[d])) \cup ToSet(s)
  BY <1>1, <1>4, <1>5, <1>7, <1>8, ReplaceDeque
<1>. QED
  BY <1>3, <1>4, <1>6, <1>7, <1>9

LEMMA RoundedHalf ==
  ASSUME NEW L \in Nat \ {0}
  PROVE  (L + 1) \div 2 \in 1 .. L
  BY Z3

\* Cutting a deque in two, the last c nodes apart, shares out its nodes.
Before(D, c) == SubSeq(D, 1, Len(D) - c)
LastOf(D, c) == SubSeq(D, Len(D) - c + 1, Len(D))

LEMMA SplitDeque ==
  ASSUME NEW D \in Seq(Node), IsInjective(D), NEW c \in 1 .. Len(D)
  PROVE  /\ Before(D, c) \in Seq(Node) /\ LastOf(D, c) \in Seq(Node)
         /\ Len(LastOf(D, c)) = c
         /\ IsInjective(Before(D, c)) /\ IsInjective(LastOf(D, c))
         /\ ToSet(D) = ToSet(Before(D, c)) \cup ToSet(LastOf(D, c))
         /\ ToSet(Before(D, c)) \cap ToSet(LastOf(D, c)) = {}
<1>. DEFINE front == Before(D, c)
            back == LastOf(D, c)
<1>1. PICK k \in Nat : k = Len(D) - c /\ Len(D) = k + c
  <2>1. Len(D) \in Nat /\ Len(D) - c \in Nat /\ Len(D) = Len(D) - c + c
    OBVIOUS
  <2>. QED
    BY <2>1
<1>2. /\ Len(D) \in Nat /\ c \in Nat /\ DOMAIN D = 1 .. k + c
      /\ \A i \in 1 .. k + c : D[i] \in Node
  BY <1>1
<1>3. front = SubSeq(D, 1, k) /\ back = SubSeq(D, k + 1, k + c)
  BY <1>1 DEF Before, LastOf
<1>. HIDE DEF front, back
<1>4. /\ back \in Seq(Node) /\ Len(back) = c /\ DOMAIN back = 1 .. c
      /\ \A i \in 1 .. c : back[i] = D[k + i]
  BY <1>1, <1>2, <1>3
<1>5. /\ front \in Seq(Node) /\ DOMAIN front = 1 .. k
      /\ \A i \in 1 .. k : front[i] = D[i]
  BY <1>1, <1>2, <1>3
<1>6. \A i, j \in 1 .. k + c : D[i] = D[j] => i = j
  BY <1>2 DEF IsInjective
<1>7. /\ \A i \in 1 .. k : i \in 1 .. k + c
      /\ \A i \in 1 .. c : k + i \in 1 .. k + c
      /\ \A i \in 1 .. k + c : i \in 1 .. k \/ \E j \in 1 .. c : i = k + j
  <2>1. \A i \in 1 .. k + c : i \notin 1 .. k => i - k \in 1 .. c /\ i = k + (i - k)
    BY <1>2
  <2>. QED
    BY <1>2, <2>1
<1>8. /\ \A x : x \in ToSet(D) <=> \E i \in 1 .. k + c : x = D[i]
      /\ \A x : x \in ToSet(front) <=> \E i \in 1 .. k : x = D[i]
      /\ \A x : x \in ToSet(back) <=> \E i \in 1 .. c : x = D[k + i]
  BY <1>2, <1>4, <1>5 DEF ToSet
<1>9. ToSet(D) = ToSet(front) \cup ToSet(back)
  <2>1. ASSUME NEW x \in ToSet(D)
        PROVE  x \in ToSet(front) \/ x \in ToSet(back)
    <3>1. PICK i \in 1 .. k + c : x = D[i]
      BY <1>8
    <3>. QED
      BY <1>7, <1>8, <3>1
  <2>2. \A x \in ToSet(front) : x \in ToSet(D)
    BY <1>7, <1>8
  <2>3. \A x \in ToSet(back) : x \in ToSet(D)
    BY <1>7, <1>8
  <2>. QED
    BY <2>1, <2>2, <2>3
<1>10. ToSet(front) \cap ToSet(back) = {}
  <2>1. \A i \in 1 .. k, j \in 1 .. c : i # k + j
    BY <1>2
  <2>2. \A i \in 1 .. k, j \in 1 .. c : D[i] # D[k + j]
    BY <1>6, <1>7, <2>1
  <2>3. ASSUME NEW x \in ToSet(front), x \in ToSet(back)
        PROVE  FALSE
    <3>1. PICK i \in 1 .. k : x = D[i]
      BY <1>8
    <3>2. PICK j \in 1 .. c : x = D[k + j]
      BY <1>8, <2>3
    <3>. QED
      BY <2>2, <3>1, <3>2
  <2>. QED
    BY <2>3
<1>11. IsInjective(front)
  BY <1>5, <1>6, <1>7 DEF IsInjective
<1>12. IsInjective(back)
  <2>1. ASSUME NEW i \in 1 .. c, NEW j \in 1 .. c, back[i] = back[j]
        PROVE  i = j
    <3>1. back[i] = D[k + i] /\ back[j] = D[k + j]
      BY <1>4
    <3>2. k + i \in 1 .. k + c /\ k + j \in 1 .. k + c
      BY <1>7
    <3>3. k + i = k + j
      BY <1>6, <2>1, <3>1, <3>2
    <3>. QED
      BY <1>2, <3>3
  <2>3. \A i, j \in DOMAIN back : back[i] = back[j] => i = j
    BY <1>4, <2>1
  <2>. QED
    BY <2>3 DEF IsInjective
<1>. QED
  BY <1>4, <1>5, <1>9, <1>10, <1>11, <1>12 DEF front, back

\* The thief takes from the back of the shallowest deque; what it takes and
\* what it leaves are the nodes of before, each in one of the two.
LEMMA StealNodes ==
  ASSUME NEW q, QueueOK(q), IsFiniteSet(NodesOf(q)), ~ Empty(q)
  PROVE  /\ QueueOK(Robbed(q)) /\ QueueOK(Loot(q)) /\ ~ Empty(Loot(q))
         /\ NodesOf(Robbed(q)) \cap NodesOf(Loot(q)) = {}
         /\ NodesOf(Robbed(q)) \cup NodesOf(Loot(q)) = NodesOf(q)
<1>1. PICK d \in DepthOf : d = Shallowest(q) /\ q[d] # << >>
  BY FilledDepths DEF Filled
<1>2. PICK D \in Seq(Node) : D = q[d] /\ IsInjective(D)
  BY <1>1 DEF QueueOK
<1>3. Len(D) \in Nat \ {0}
  BY <1>1, <1>2
<1>4. PICK c \in 1 .. Len(D) : c = (Len(D) + 1) \div 2
  BY <1>3, RoundedHalf
<1>5. PICK back : back = LastOf(D, c)
  OBVIOUS
<1>6. PICK front : front = Before(D, c)
  OBVIOUS
<1>7. /\ front \in Seq(Node) /\ back \in Seq(Node) /\ Len(back) = c
      /\ IsInjective(front) /\ IsInjective(back)
      /\ ToSet(D) = ToSet(front) \cup ToSet(back)
      /\ ToSet(front) \cap ToSet(back) = {}
  BY <1>2, <1>5, <1>6, SplitDeque
<1>8. Stolen(q) = back
  BY <1>1, <1>2, <1>4, <1>5 DEF Stolen, LastOf
<1>9. Robbed(q) = With(q, d, front) /\ Loot(q) = With(EmptyQueue, d, back)
  BY <1>1, <1>2, <1>6, <1>7, <1>8 DEF Robbed, Loot, With, Before
<1>10. \A n \in ToSet(front) \cup ToSet(back) : Depth(n) = d
  BY <1>2, <1>7 DEF QueueOK
<1>11. ToSet(D) \subseteq NodesOf(q)
  BY <1>2 DEF NodesOf
<1>12. QueueOK(Robbed(q)) /\ NodesOf(Robbed(q)) = (NodesOf(q) \ ToSet(D)) \cup ToSet(front)
  BY <1>2, <1>7, <1>9, <1>10, ReplaceDeque
<1>13. QueueOK(Loot(q)) /\ NodesOf(Loot(q)) = ToSet(back)
  <2>1. ToSet(EmptyQueue[d]) = {}
    BY DEF EmptyQueue, ToSet
  <2>2. /\ QueueOK(Loot(q))
        /\ NodesOf(Loot(q)) = (NodesOf(EmptyQueue) \ ToSet(EmptyQueue[d])) \cup ToSet(back)
    <3>1. \A n \in ToSet(back) : Depth(n) = d
      BY <1>10
    <3>2. QueueOK(EmptyQueue)
      BY EmptyQueueOK
    <3>. QED
      BY <1>7, <1>9, <3>1, <3>2, ReplaceDeque
  <2>. QED
    BY <2>1, <2>2, EmptyQueueOK
<1>14. ~ Empty(Loot(q))
  <2>1. 1 \in DOMAIN back
    BY <1>3, <1>7
  <2>2. back[1] \in ToSet(back)
    BY <2>1 DEF ToSet
  <2>. QED
    BY <1>13, <2>2, EmptyHasNone
<1>. QED
  BY <1>7, <1>11, <1>12, <1>13, <1>14

-----------------------------------------------------------------------------
(* The invariant is preserved.                                              *)

LEMMA PCs == DriverPC \subseteq StealingPC
  BY DEF StealingPC

\* One queue is replaced by another whose nodes are in no other queue.
LEMMA ReplaceQueue ==
  ASSUME QueuesOK, NEW w \in Worker, NEW q, QueueOK(q),
         \A v \in Worker \ {w} : Queued(v) \cap NodesOf(q) = {},
         work_queue' = [work_queue EXCEPT ![w] = q]
  PROVE  /\ QueuesOK'
         /\ AllQueued' = (AllQueued \ Queued(w)) \cup NodesOf(q)
<1>1. /\ work_queue'[w] = q /\ \A v \in Worker \ {w} : work_queue'[v] = work_queue[v]
      /\ DOMAIN work_queue' = Worker
      /\ work_queue' = [v \in Worker |-> work_queue'[v]]
  BY DEF QueuesOK
<1>2. Queued(w)' = NodesOf(q) /\ \A v \in Worker \ {w} : Queued(v)' = Queued(v)
  BY <1>1 DEF Queued, NodesOf
<1>3. QueuesOK'
  BY <1>1, <1>2 DEF QueuesOK, QueuesDisjoint
<1>4. AllQueued' = (UNION {Queued(v) : v \in Worker \ {w}}) \cup NodesOf(q)
  BY <1>2 DEF AllQueued
<1>5. AllQueued \ Queued(w) = UNION {Queued(v) : v \in Worker \ {w}}
  BY DEF AllQueued, QueuesOK, QueuesDisjoint
<1>. QED
  BY <1>3, <1>4, <1>5

LEMMA SameQueues ==
  ASSUME QueuesOK, work_queue' = work_queue
  PROVE  QueuesOK' /\ AllQueued' = AllQueued
  BY DEF QueuesOK, QueuesDisjoint, Queued, NodesOf, AllQueued

\* Every queue is finite and part of what is queued.
LEMMA FiniteQueues ==
  ASSUME IInv, NEW w \in Worker
  PROVE  Queued(w) \subseteq AllQueued /\ IsFiniteSet(Queued(w)) /\ QueueOK(work_queue[w])
<1>1. Queued(w) \subseteq AllQueued
  BY DEF AllQueued
<1>2. AllQueued \subseteq JobsOf(AllQueued) /\ IsFiniteSet(JobsOf(AllQueued))
  BY DEF JobsOf, IInv, SchedulerInv, WorkersInv, JobsCounted
<1>. QED
  BY <1>1, <1>2, FS_Subset DEF IInv, QueuesOK

LEMMA DepthOfRoot == -1 \in DepthOf /\ Depth(Root) = -1
  BY TreeAssumption DEF Root, Depth, DepthOf

\* The root is in the queue of the main thread.
LEMMA InitQueues ==
  ASSUME Init
  PROVE  /\ QueuesOK
         /\ \E main \in Worker : Queued(main) = {Root} /\ \A w \in Worker \ {main} : Queued(w) = {}
<1>1. PICK main \in Worker :
        work_queue = [w \in Worker |->
                        IF w = main THEN [EmptyQueue EXCEPT ![-1] = <<Root>>] ELSE EmptyQueue]
  BY DEF Init
<1>2. QueueOK(work_queue[main]) /\ NodesOf(work_queue[main]) = {Root}
  <2>1. <<Root>> \in Seq(Node) /\ ToSet(<<Root>>) = {Root} /\ IsInjective(<<Root>>)
    BY TreeAssumption DEF ToSet, IsInjective
  <2>2. PICK d \in DepthOf : d = -1
    BY DepthOfRoot
  <2>3. PICK s \in Seq(Node) : s = <<Root>>
    BY <2>1
  <2>4. ToSet(s) = {Root} /\ IsInjective(s) /\ \A n \in ToSet(s) : Depth(n) = d
    BY <2>1, <2>2, <2>3, DepthOfRoot
  <2>5. work_queue[main] = With(EmptyQueue, d, s)
    BY <1>1, <2>2, <2>3 DEF With
  <2>6. ToSet(EmptyQueue[d]) = {}
    BY DEF EmptyQueue, ToSet
  <2>7. QueueOK(EmptyQueue) /\ NodesOf(EmptyQueue) = {}
    BY EmptyQueueOK
  <2>8. /\ QueueOK(With(EmptyQueue, d, s))
        /\ NodesOf(With(EmptyQueue, d, s)) = (NodesOf(EmptyQueue) \ ToSet(EmptyQueue[d])) \cup ToSet(s)
    BY <2>4, <2>7, ReplaceDeque
  <2>. QED
    BY <2>4, <2>5, <2>6, <2>7, <2>8
<1>3. \A w \in Worker \ {main} : work_queue[w] = EmptyQueue /\ Queued(w) = {}
  BY <1>1, EmptyQueueOK DEF Queued
<1>4. QueuesOK
  BY <1>1, <1>2, <1>3, EmptyQueueOK DEF QueuesOK, QueuesDisjoint, Queued
<1>. QED
  BY <1>2, <1>3, <1>4 DEF Queued

LEMMA InitInv == Init => IInv
<1>. SUFFICES ASSUME Init PROVE IInv
  OBVIOUS
<1>1. AllQueued = {Root}
  BY InitQueues DEF AllQueued
<1>2. SchedulerInv(StealingPC, AllQueued, halting)
  BY <1>1, InitKeeps, PCs DEF Init
<1>3. SlowPathOK
  BY DEF SlowPathOK, SlowPathLocked, OwnerAwake, Init, DriverInit
<1>. QED
  BY <1>2, <1>3, InitQueues DEF IInv

LEMMA DriverStepInv ==
  ASSUME IInv, NEW w \in Worker, DriverStep(w), UNCHANGED schedVars
  PROVE  IInv'
<1>1. /\ AllQueued' = AllQueued /\ QueuesOK' /\ halting' = halting
      /\ UNCHANGED <<work_queue, mutex, others, waiting, halting>>
  BY SameQueues DEF schedVars, IInv
<1>2. SchedulerInv(StealingPC, AllQueued, halting)'
  <2>1. PICK Q : Q = AllQueued
    OBVIOUS
  <2>2. PICK stop : stop = halting
    OBVIOUS
  <2>3. SchedulerInv(StealingPC, Q, stop)
    BY <2>1, <2>2 DEF IInv
  <2>4. SchedulerInv(StealingPC, Q, stop)'
    BY <2>3, DriverStepKeeps, PCs
  <2>. QED
    BY <1>1, <2>1, <2>2, <2>4
<1>3. /\ pc \in [Worker -> StealingPC]
      /\ \E l \in DriverPC \ {"exit"} : pc' = [pc EXCEPT ![w] = l] \/ pc' = pc
      /\ pc[w] \notin {"lock_sched", "retest", "scan", "exit"}
  <2>1. pc[w] \in {"check_pruned", "run", "unfold", "neighbours", "enqueue", "account", "unlock"}
    BY DEF DriverStep, Explore, SkipPruned, StartReplay, RunOnce, Crash, ComputeUnfolding, TryAlternative, CountJob,
     LockState, Account, UnlockState
  <2>2. \E l \in DriverPC \ {"exit"} : pc' = [pc EXCEPT ![w] = l] \/ pc' = pc
    BY DEF DriverStep, Explore, SkipPruned, StartReplay, RunOnce, Crash, ComputeUnfolding, TryAlternative, CountJob,
     LockState, Account, UnlockState, Goto, DriverPC
  <2>. QED
    BY <2>1, <2>2 DEF IInv, SchedulerInv, WorkersInv, DriverTypeOK
<1>4. SlowPathOK'
  BY <1>1, <1>3 DEF IInv, SlowPathOK, SlowPathLocked, OwnerAwake, DriverPC
<1>. QED
  BY <1>1, <1>2, <1>4 DEF IInv

\* A worker moves on in the scheduler's code and no queue changes.
LEMMA MoveInv ==
  ASSUME IInv, NEW w \in Worker, ~ Busy(w), NEW l \in StealingPC, Moves(w, l),
         UNCHANGED <<work_queue, halting>>, SlowPathOK'
  PROVE  IInv'
<1>1. AllQueued' = AllQueued /\ QueuesOK'
  BY SameQueues DEF IInv
<1>2. SchedulerInv(StealingPC, AllQueued, halting)'
  <2>1. PICK Q : Q = AllQueued
    OBVIOUS
  <2>2. PICK stop : stop = halting
    OBVIOUS
  <2>3. SchedulerInv(StealingPC, Q, stop)
    BY <2>1, <2>2 DEF IInv
  <2>4. SchedulerInv(StealingPC, Q, stop)'
    BY <2>3, MovesKeeps, PCs
  <2>. QED
    BY <1>1, <2>1, <2>2, <2>4
<1>. QED
  BY <1>1, <1>2 DEF IInv

LEMMA FastNullInv == ASSUME IInv, NEW w \in Worker, FastNull(w) PROVE IInv'
<1>1. Moves(w, "exit") /\ ~ Busy(w) /\ UNCHANGED schedVars
  BY DEF FastNull, GotNull, Moves, Busy, Starting, Unfolded
<1>2. SlowPathOK'
  BY <1>1 DEF FastNull, IInv, SchedulerInv, WorkersInv, DriverTypeOK, SlowPathOK, SlowPathLocked, OwnerAwake, Moves, Goto,
              schedVars
<1>. QED
  BY <1>1, <1>2, MoveInv DEF schedVars, StealingPC, DriverPC

LEMMA FastMissInv == ASSUME IInv, NEW w \in Worker, FastMiss(w) PROVE IInv'
<1>1. Moves(w, "lock_sched") /\ ~ Busy(w) /\ UNCHANGED schedVars
  BY DEF FastMiss, Moves, Busy, Starting, Unfolded
<1>2. SlowPathOK'
  BY <1>1 DEF FastMiss, IInv, SchedulerInv, WorkersInv, DriverTypeOK, SlowPathOK, SlowPathLocked, OwnerAwake, Moves, Goto,
              schedVars
<1>. QED
  BY <1>1, <1>2, MoveInv DEF schedVars, StealingPC

LEMMA LockSchedInv == ASSUME IInv, NEW w \in Worker, LockSched(w) PROVE IInv'
<1>1. Moves(w, "retest") /\ ~ Busy(w) /\ UNCHANGED <<work_queue, halting>>
  BY DEF LockSched, Moves, Busy, Starting, Unfolded
<1>2. SlowPathOK'
  BY WorkerAssumption
  DEF LockSched, IInv, SchedulerInv, WorkersInv, DriverTypeOK, SlowPathOK, SlowPathLocked, OwnerAwake, Goto
<1>. QED
  BY <1>1, <1>2, MoveInv DEF StealingPC

LEMMA SlowNullInv == ASSUME IInv, NEW w \in Worker, SlowNull(w) PROVE IInv'
<1>1. Moves(w, "exit") /\ ~ Busy(w) /\ UNCHANGED <<work_queue, halting>>
  BY DEF SlowNull, GotNull, Moves, Busy, Starting, Unfolded
<1>2. SlowPathOK'
  BY WorkerAssumption
  DEF SlowNull, GotNull, IInv, SchedulerInv, WorkersInv, DriverTypeOK, SlowPathOK, SlowPathLocked, OwnerAwake, Goto
<1>. QED
  BY <1>1, <1>2, MoveInv DEF StealingPC, DriverPC

LEMMA StartScanInv == ASSUME IInv, NEW w \in Worker, StartScan(w) PROVE IInv'
<1>1. Moves(w, "scan") /\ ~ Busy(w) /\ UNCHANGED <<work_queue, halting>>
  BY DEF StartScan, Moves, Busy, Starting, Unfolded
<1>2. SlowPathOK'
  BY DEF StartScan, IInv, SchedulerInv, WorkersInv, DriverTypeOK, SlowPathOK, SlowPathLocked, OwnerAwake, Goto
<1>. QED
  BY <1>1, <1>2, MoveInv DEF StealingPC

LEMMA WaitInv == ASSUME IInv, NEW w \in Worker, Wait(w) PROVE IInv'
<1>1. Moves(w, "lock_sched") /\ ~ Busy(w) /\ UNCHANGED <<work_queue, halting>>
  BY DEF Wait, Moves, Busy, Starting, Unfolded
<1>2. SlowPathOK'
  BY WorkerAssumption
  DEF Wait, IInv, SchedulerInv, WorkersInv, DriverTypeOK, SlowPathOK, SlowPathLocked, OwnerAwake, Goto
<1>. QED
  BY <1>1, <1>2, MoveInv DEF StealingPC

\* Nothing but others or waiting changes.
LEMMA IdleInv ==
  ASSUME IInv, UNCHANGED <<driverVars, work_queue, mutex, halting>>,
         others' \in [Worker -> SUBSET Worker], \A w \in Worker : others'[w] \subseteq others[w],
         waiting' \subseteq waiting
  PROVE  IInv'
<1>1. AllQueued' = AllQueued /\ QueuesOK'
  BY SameQueues DEF IInv
<1>2. SchedulerInv(StealingPC, AllQueued, halting)'
  <2>1. PICK Q : Q = AllQueued
    OBVIOUS
  <2>2. PICK stop : stop = halting
    OBVIOUS
  <2>3. SchedulerInv(StealingPC, Q, stop)
    BY <2>1, <2>2 DEF IInv
  <2>4. SchedulerInv(StealingPC, Q, stop)'
    BY <2>3, IdleKeeps
  <2>. QED
    BY <1>1, <2>1, <2>2, <2>4
<1>3. SlowPathOK'
  BY DEF IInv, SlowPathOK, SlowPathLocked, OwnerAwake, driverVars
<1>. QED
  BY <1>1, <1>2, <1>3 DEF IInv

LEMMA NothingToStealInv ==
  ASSUME IInv, NEW w \in Worker, NEW v \in Worker, NothingToSteal(w, v) PROVE IInv'
  BY IdleInv DEF NothingToSteal, IInv, SlowPathOK

LEMMA SpuriousWakeupInv == ASSUME IInv, NEW w \in Worker, SpuriousWakeup(w) PROVE IInv'
  BY IdleInv DEF SpuriousWakeup, IInv, SlowPathOK

\* halt() takes the big mutex, so nobody is looking for work to steal.
LEMMA HaltInv == ASSUME IInv, NEW w \in Worker, Halt(w) PROVE IInv'
<1>1. AllQueued' = AllQueued /\ QueuesOK' /\ halting' = TRUE
  BY SameQueues DEF IInv, Halt
<1>2. SchedulerInv(StealingPC, AllQueued, halting)'
  <2>1. PICK Q : Q = AllQueued
    OBVIOUS
  <2>2. PICK stop : stop = halting
    OBVIOUS
  <2>3. SchedulerInv(StealingPC, Q, stop)
    BY <2>1, <2>2 DEF IInv
  <2>4. SchedulerInv(StealingPC, Q, TRUE)'
    BY <2>3, HaltedKeeps, PCs DEF Halt
  <2>. QED
    BY <1>1, <2>1, <2>4
<1>3. SlowPathOK'
  BY WorkerAssumption
  DEF IInv, SchedulerInv, WorkersInv, DriverTypeOK, SlowPathOK, SlowPathLocked, OwnerAwake, Halt, Halted, Goto
<1>. QED
  BY <1>1, <1>2, <1>3 DEF IInv

\* What is pushed was in no queue.
LEMMA PushedQueue ==
  ASSUME IInv, NEW w \in Worker, Push(w)
  PROVE  QueuesOK' /\ AllQueued' = AllQueued \cup {sibling[w]}
<1>. DEFINE n == sibling[w]
<1>1. n \in Node /\ n \notin AllQueued
  BY DEF Push, Pushed, IInv, SchedulerInv, WorkersInv, DriverTypeOK, NotYetQueued, Enqueuing
<1>2. QueueOK(work_queue[w]) /\ n \notin NodesOf(work_queue[w]) /\ Queued(w) \subseteq AllQueued
  BY <1>1, FiniteQueues DEF Queued
<1>3. PICK q : q = PushBack(work_queue[w], n)
  OBVIOUS
<1>4. QueueOK(q) /\ NodesOf(q) = Queued(w) \cup {n}
  BY <1>1, <1>2, <1>3, PushBackNodes DEF Queued
<1>5. \A v \in Worker \ {w} : Queued(v) \cap NodesOf(q) = {}
  BY <1>1, <1>4 DEF AllQueued, IInv, QueuesOK, QueuesDisjoint
<1>6. work_queue' = [work_queue EXCEPT ![w] = q]
  BY <1>3 DEF Push
<1>. QED
  BY <1>2, <1>4, <1>5, <1>6, ReplaceQueue DEF IInv

LEMMA PushInv == ASSUME IInv, NEW w \in Worker, Push(w) PROVE IInv'
<1>. DEFINE n == sibling[w]
<1>1. QueuesOK' /\ AllQueued' = AllQueued \cup {n}
  BY PushedQueue
<1>2. SchedulerInv(StealingPC, AllQueued, halting)'
  <2>1. PICK Q : Q = AllQueued
    OBVIOUS
  <2>2. PICK stop : stop = halting
    OBVIOUS
  <2>3. PICK R : R = Q \cup {n}
    OBVIOUS
  <2>4. SchedulerInv(StealingPC, Q, stop)
    BY <2>1, <2>2 DEF IInv
  <2>5. SchedulerInv(StealingPC, R, stop)'
    BY <2>3, <2>4, PushedKeeps, PCs DEF Push
  <2>. QED
    BY <1>1, <2>1, <2>2, <2>3, <2>5 DEF Push
<1>3. SlowPathOK'
  <2>1. \A v \in Worker \ {w} : work_queue'[v] = work_queue[v] /\ pc'[v] = pc[v]
    BY DEF Push, Pushed, Goto, IInv, QueuesOK, SchedulerInv, WorkersInv, DriverTypeOK
  <2>2. pc[w] = "push" /\ pc'[w] = "neighbours"
    BY DEF Push, Pushed, Goto, IInv, SchedulerInv, WorkersInv, DriverTypeOK
  <2>3. waiting' \subseteq waiting /\ UNCHANGED <<mutex, others, halting>>
    BY DEF Push
  <2>. QED
    BY <2>1, <2>2, <2>3 DEF IInv, SlowPathOK, SlowPathLocked, OwnerAwake
<1>. QED
  BY <1>1, <1>2, <1>3 DEF IInv

\* The scheduler's invariant when n leaves the queues for worker w.
LEMMA TakenKeeps ==
  ASSUME IInv, NEW w \in Worker, ~ Busy(w), NEW n \in AllQueued, GotWork(w, n),
         AllQueued' = AllQueued \ {n}, halting' = halting
  PROVE  SchedulerInv(StealingPC, AllQueued, halting)'
<1>1. PICK Q : Q = AllQueued
  OBVIOUS
<1>2. PICK stop : stop = halting
  OBVIOUS
<1>3. PICK R : R = Q \ {n}
  OBVIOUS
<1>4. SchedulerInv(StealingPC, Q, stop)
  BY <1>1, <1>2 DEF IInv
<1>5. SchedulerInv(StealingPC, R, stop)'
  BY <1>1, <1>3, <1>4, GotWorkKeeps, PCs
<1>. QED
  BY <1>1, <1>2, <1>3, <1>5

LEMMA PoppedQueue ==
  ASSUME IInv, NEW w \in Worker, FastPop(w)
  PROVE  QueuesOK' /\ \E n \in AllQueued : GotWork(w, n) /\ AllQueued' = AllQueued \ {n}
<1>1. PICK n : n = FrontOf(work_queue[w])
  OBVIOUS
<1>2. PICK q : q = PopFront(work_queue[w])
  OBVIOUS
<1>3. n \in Queued(w) /\ QueueOK(q) /\ NodesOf(q) = Queued(w) \ {n}
  <2>1. /\ QueueOK(work_queue[w]) /\ IsFiniteSet(NodesOf(work_queue[w]))
        /\ ~ Empty(work_queue[w])
    BY FiniteQueues DEF FastPop, Queued
  <2>. QED
    BY <1>1, <1>2, <2>1, PopFrontNodes DEF Queued
<1>4. \A v \in Worker \ {w} : Queued(v) \cap NodesOf(q) = {}
  BY <1>3 DEF IInv, QueuesOK, QueuesDisjoint
<1>5. work_queue' = [work_queue EXCEPT ![w] = q]
  BY <1>2 DEF FastPop
<1>6. QueuesOK' /\ AllQueued' = (AllQueued \ Queued(w)) \cup NodesOf(q)
  BY <1>3, <1>4, <1>5, ReplaceQueue DEF IInv
<1>7. n \in AllQueued /\ AllQueued' = AllQueued \ {n}
  BY <1>3, <1>6, FiniteQueues
<1>. QED
  BY <1>1, <1>6, <1>7 DEF FastPop

LEMMA FastPopInv == ASSUME IInv, NEW w \in Worker, FastPop(w) PROVE IInv'
<1>1. QueuesOK'
  BY PoppedQueue
<1>2. PICK n \in AllQueued : GotWork(w, n) /\ AllQueued' = AllQueued \ {n}
  BY PoppedQueue
<1>3. SchedulerInv(StealingPC, AllQueued, halting)'
  BY <1>2, TakenKeeps DEF FastPop, Busy, Starting, Unfolded
<1>4. SlowPathOK'
  <2>1. /\ \A v \in Worker \ {w} : work_queue'[v] = work_queue[v] /\ pc'[v] = pc[v]
        /\ pc[w] = "dequeue" /\ pc'[w] = "check_pruned"
    BY DEF FastPop, GotWork, Goto, IInv, QueuesOK, SchedulerInv, WorkersInv, DriverTypeOK
  <2>2. UNCHANGED <<mutex, others, waiting, halting>>
    BY DEF FastPop
  <2>. QED
    BY <2>1, <2>2 DEF IInv, SlowPathOK, SlowPathLocked, OwnerAwake
<1>. QED
  BY <1>1, <1>3, <1>4 DEF IInv

\* The thief holds the big mutex and its own queue is empty, so it loses
\* nothing by overwriting it with the loot.
LEMMA StealInv ==
  ASSUME IInv, NEW w \in Worker, NEW v \in Worker, Steal(w, v)
  PROVE  /\ IInv' /\ ~ Busy(w)
         /\ \E n \in AllQueued : GotWork(w, n) /\ AllQueued' = AllQueued \ {n}
<1>1. v # w /\ Queued(w) = {} /\ ~ halting
  <2>1. ~ halting /\ Empty(work_queue[w])
    BY DEF Steal, IInv, SlowPathOK, SlowPathLocked, OwnerAwake
  <2>2. v # w
    BY DEF Steal, IInv, SlowPathOK
  <2>. QED
    BY <2>1, <2>2, FiniteQueues, EmptyHasNone DEF Queued
<1>2. PICK loot : loot = Loot(work_queue[v])
  OBVIOUS
<1>3. PICK rest : rest = Robbed(work_queue[v])
  OBVIOUS
<1>4. /\ QueueOK(rest) /\ QueueOK(loot) /\ ~ Empty(loot)
      /\ NodesOf(rest) \cap NodesOf(loot) = {} /\ NodesOf(rest) \cup NodesOf(loot) = Queued(v)
  <2>1. /\ QueueOK(work_queue[v]) /\ IsFiniteSet(NodesOf(work_queue[v]))
        /\ ~ Empty(work_queue[v])
    BY FiniteQueues DEF Steal, Queued
  <2>. QED
    BY <1>2, <1>3, <2>1, StealNodes DEF Queued
<1>5. PICK n : n = FrontOf(loot)
  OBVIOUS
<1>6. PICK q : q = PopFront(loot)
  OBVIOUS
<1>7. n \in NodesOf(loot) /\ QueueOK(q) /\ NodesOf(q) = NodesOf(loot) \ {n}
  <2>1. IsFiniteSet(NodesOf(loot))
    BY <1>4, FiniteQueues, FS_Subset
  <2>. QED
    BY <1>4, <1>5, <1>6, <2>1, PopFrontNodes
<1>8. GotWork(w, n) /\ work_queue' = [work_queue EXCEPT ![v] = rest, ![w] = q]
  BY <1>2, <1>3, <1>5, <1>6 DEF Steal
<1>9. /\ work_queue'[v] = rest /\ work_queue'[w] = q
      /\ \A u \in Worker \ {v, w} : work_queue'[u] = work_queue[u]
      /\ DOMAIN work_queue' = Worker /\ work_queue' = [u \in Worker |-> work_queue'[u]]
  BY <1>1, <1>8 DEF IInv, QueuesOK
<1>10. /\ Queued(v)' = NodesOf(rest) /\ Queued(w)' = NodesOf(q)
       /\ \A u \in Worker \ {v, w} : Queued(u)' = Queued(u)
  BY <1>9 DEF Queued, NodesOf
<1>11. QueuesOK'
  <2>1. \A u \in Worker \ {v, w} : Queued(u) \cap Queued(v) = {}
    BY DEF IInv, QueuesOK, QueuesDisjoint
  <2>2. QueuesDisjoint'
    BY <1>4, <1>7, <1>10, <2>1 DEF IInv, QueuesOK, QueuesDisjoint
  <2>. QED
    BY <1>4, <1>7, <1>9, <2>2 DEF IInv, QueuesOK
<1>12. n \in AllQueued /\ AllQueued' = AllQueued \ {n}
  <2>1. n \in Queued(v) /\ \A u \in Worker \ {v} : n \notin Queued(u)
    BY <1>4, <1>7 DEF IInv, QueuesOK, QueuesDisjoint
  <2>2. AllQueued' \subseteq AllQueued \ {n}
    BY <1>4, <1>7, <1>10, <2>1 DEF AllQueued
  <2>3. \A m \in AllQueued \ {n} : m \in Queued(v)' \/ m \in Queued(w)' \/ \E u \in Worker \ {v, w} : m \in Queued(u)'
    BY <1>1, <1>4, <1>7, <1>10 DEF AllQueued
  <2>4. AllQueued \ {n} \subseteq AllQueued'
    BY <2>3 DEF AllQueued
  <2>. QED
    BY <2>1, <2>2, <2>4 DEF AllQueued
<1>13. ~ Busy(w)
  BY DEF Steal, Busy, Starting, Unfolded
<1>14. SchedulerInv(StealingPC, AllQueued, halting)'
  BY <1>8, <1>12, <1>13, TakenKeeps DEF Steal
<1>15. SlowPathOK'
  <2>1. /\ \A u \in Worker \ {w} : pc'[u] = pc[u]
        /\ pc[w] = "scan" /\ pc'[w] = "check_pruned"
    BY <1>8 DEF Steal, GotWork, Goto, IInv, SchedulerInv, WorkersInv, DriverTypeOK
  <2>2. /\ mutex = w /\ mutex' = NoWorker /\ UNCHANGED <<waiting, halting>>
        /\ others' = [others EXCEPT ![w] = {}]
    BY DEF Steal, IInv, SlowPathOK, SlowPathLocked
  <2>3. pc[v] \notin {"lock_sched", "retest", "scan", "exit"}
    BY <1>1 DEF Steal, IInv, SlowPathOK, OwnerAwake
  <2>4. OwnerAwake'
    BY <1>1, <1>9, <2>1, <2>2, <2>3 DEF IInv, SlowPathOK, OwnerAwake
  <2>5. SlowPathLocked'
    BY <1>1, <2>1, <2>2 DEF IInv, SlowPathOK, SlowPathLocked
  <2>. QED
    BY <2>2, <2>4, <2>5 DEF IInv, SlowPathOK
<1>. QED
  BY <1>8, <1>11, <1>12, <1>13, <1>14, <1>15 DEF IInv

LEMMA StepInv == ASSUME IInv, NEW w \in Worker, Step(w) PROVE IInv'
<1>1. \A v \in others[w] : v \in Worker
  BY DEF IInv, SlowPathOK
<1>. QED
  BY <1>1, DriverStepInv, PushInv, FastNullInv, FastPopInv, FastMissInv, LockSchedInv,
     SlowNullInv, StartScanInv, StealInv, NothingToStealInv, WaitInv, HaltInv
  DEF Step

LEMMA NextInv == IInv /\ [Next]_vars => IInv'
<1>. SUFFICES ASSUME IInv, [Next]_vars PROVE IInv'
  OBVIOUS
<1>1. CASE UNCHANGED vars
  BY <1>1, IdleInv DEF vars, schedVars, IInv, SlowPathOK
<1>2. CASE Joined
  BY <1>1, <1>2 DEF Joined
<1>. QED
  BY <1>1, <1>2, StepInv, SpuriousWakeupInv DEF Next

(* The strengthened invariant, of which all below are consequences. *)
THEOREM Invariant == Spec => []IInv
  BY InitInv, NextInv, PTL DEF Spec

-----------------------------------------------------------------------------
\* dequeue, enqueue, handle_trace and reset keep every variable in its type, a
\* ThreadWorkQueue holds a node at its own depth, and the unsigned
\* outstanding_jobs is never taken below zero.
THEOREM TypesHold == Spec => []TypeOK
<1>1. IInv => TypeOK
  <2>. SUFFICES ASSUME IInv PROVE TypeOK
    OBVIOUS
  <2>1. outstanding_jobs >= 0 /\ DriverTypeOK(StealingPC)
    BY FS_CardinalityType DEF IInv, SchedulerInv, WorkersInv, JobsCounted
  <2>. QED
    BY <2>1 DEF IInv, QueuesOK, QueueOK, SlowPathOK, TypeOK
<1>. QED
  BY <1>1, Invariant, PTL

\* The assertion of alloc_unf holds: the node that compute_unfolding allocates
\* for a load past the replay was allocated by no worker before.
THEOREM AllocationsAreFresh == Spec => []AllocFresh
<1>1. IInv => AllocFresh
  BY NewNodesAreFresh DEF IInv, SchedulerInv, WorkersInv, AllocFresh, Starting
<1>. QED
  BY <1>1, Invariant, PTL

\* No two workers run the same work item, and none runs an item that was run,
\* although items move between queues.
THEOREM NothingExploredTwice == Spec => []ExploredOnce
<1>1. IInv => ExploredOnce
  BY DEF IInv, SchedulerInv, WorkersInv, DriverInv, OwnedOnce, ExploredOnce
<1>. QED
  BY <1>1, Invariant, PTL

\* outstanding_jobs counts the jobs while enqueue, steal and pop run under
\* different mutexes, and a node is in one place of one ThreadWorkQueue.
THEOREM CounterIsExact == Spec => []JobsExact
<1>1. IInv => JobsExact
  BY DEF IInv, SchedulerInv, WorkersInv, JobsCounted, JobsExact, Jobs, QueuedOnce, QueuesOK, QueueOK,
         QueuesDisjoint
<1>. QED
  BY <1>1, Invariant, PTL

\* notify_one is called without the big mutex and may be missed, but a worker
\* in the slow path of dequeue, asleep or gone has nothing in its queue.
THEOREM SleepersOwnNothing == Spec => []OwnerAwake
  BY Invariant, PTL DEF IInv, SlowPathOK

\* No two workers are between taking and releasing the big mutex, which lets
\* steal write the thief's queue without its own mutex.
THEOREM BigLockHolds == Spec => []BigLockProtects
<1>1. IInv => BigLockProtects
  BY DEF IInv, SlowPathOK, SlowPathLocked, BigLockProtects
<1>. QED
  BY <1>1, Invariant, PTL

\* Once halt() has set halting, no worker steals: the store, the test at the
\* top of the slow path and the theft are all under the big mutex.
THEOREM NothingStolenAfterHalt == Spec => NoStealAfterHalt
<1>. DEFINE Quiescent == halting => \A w \in Worker : pc[w] = "scan" => ~ Starting(w)'
<1>1. ASSUME IInv, [Next]_vars
      PROVE  Quiescent
  BY <1>1 DEF IInv, SlowPathOK, SlowPathLocked
<1>. QED
  BY <1>1, Invariant, PTL DEF Spec, NoStealAfterHalt

-----------------------------------------------------------------------------
(* The workers and their queues implement the exploration.                  *)

LEMMA InitMaps == Init => Exp!Init
<1>. SUFFICES ASSUME Init PROVE Exp!Init
  OBVIOUS
<1>1. PICK main \in Worker : Queued(main) = {Root} /\ \A w \in Worker \ {main} : Queued(w) = {}
  BY InitQueues
<1>2. AllQueued = {Root}
  BY <1>1 DEF AllQueued
<1>3. Siblings = {} /\ Running = {} /\ Done = {} /\ ~ Crashed
  BY InitKeeps, PCs DEF Init
<1>. QED
  BY <1>2, <1>3 DEF Exp!Init, Init, DriverInit

\* A step that leaves the queues alone.
LEMMA ExploresMaps ==
  ASSUME Explores(AllQueued), AllQueued' = AllQueued, halting' = halting, ~ Crashed
  PROVE  [Exp!Next]_(Exp!vars)
<1>1. CASE Unseen(AllQueued)
  BY <1>1 DEF Unseen, Exp!vars
<1>2. CASE Dies(AllQueued)
  BY <1>2 DEF Dies, FailingIn, Exp!Next, Exp!Crash, Exp!Failing
<1>3. ASSUME NEW n \in Node \cap Running, Drops(n, AllQueued)
      PROVE  Exp!Next
  BY <1>3 DEF Drops, FailingIn, Exp!Next, Exp!Drop, Exp!Failing
<1>4. ASSUME NEW n \in Node \cap Running, Unfolds(n, AllQueued)
      PROVE  Exp!Next
  BY <1>4 DEF Unfolds, Exp!Next, Exp!Unfold
<1>5. ASSUME NEW n \in Node \cap Running, NEW a \in Alt[n], Discovers(n, a, AllQueued)
      PROVE  Exp!Next
  BY <1>5 DEF Discovers, Exp!Next, Exp!Discover, Exp!Discovered
<1>6. ASSUME NEW n \in Node \cap Running, Completes(n, AllQueued)
      PROVE  Exp!Next
  BY <1>6 DEF Completes, Exp!Next, Exp!Finish
<1>. QED
  BY <1>1, <1>2, <1>3, <1>4, <1>5, <1>6 DEF Explores

LEMMA QueueAlone ==
  ASSUME IInv, NEW w \in Worker, ~ Crashed, UNCHANGED <<work_queue, halting>>,
         DriverStep(w) \/ (~ Busy(w) /\ \E l : Moves(w, l))
  PROVE  [Exp!Next]_(Exp!vars)
<1>1. PICK Q : Q = AllQueued
  OBVIOUS
<1>2. PICK stop : stop = halting
  OBVIOUS
<1>3. SchedulerInv(StealingPC, Q, stop)
  BY <1>1, <1>2 DEF IInv
<1>4. Explores(Q)
  BY <1>3, DriverStepExplores, QuietExplores DEF Quiet, SchedulerInv
<1>5. Explores(AllQueued)
  BY <1>1, <1>4
<1>6. AllQueued' = AllQueued
  BY SameQueues DEF IInv
<1>. QED
  BY <1>5, <1>6, ExploresMaps

LEMMA PushMaps ==
  ASSUME IInv, NEW w \in Worker, Push(w), ~ Crashed
  PROVE  UNCHANGED Exp!vars
<1>1. PICK Q : Q = AllQueued
  OBVIOUS
<1>2. PICK stop : stop = halting
  OBVIOUS
<1>3. PICK R : R = Q \cup {sibling[w]}
  OBVIOUS
<1>4. SchedulerInv(StealingPC, Q, stop)
  BY <1>1, <1>2 DEF IInv
<1>5. /\ R \cup Siblings' = Q \cup Siblings
      /\ Running' = Running /\ Done' = Done /\ Crashed' = Crashed
      /\ UNCHANGED <<children_unf_set, dropped>>
  BY <1>3, <1>4, PushedExplores DEF Push, SchedulerInv
<1>6. AllQueued' = AllQueued \cup {sibling[w]}
  BY PushedQueue
<1>. QED
  BY <1>1, <1>3, <1>5, <1>6 DEF Exp!vars, Push

\* A node that leaves the queues, through pop or steal, is started.
LEMMA TakenMaps ==
  ASSUME IInv, NEW w \in Worker, ~ Busy(w), NEW n \in AllQueued, GotWork(w, n),
         AllQueued' = AllQueued \ {n}, halting' = halting, ~ Crashed
  PROVE  [Exp!Next]_(Exp!vars)
<1>1. n \in Node /\ n \notin Siblings
  BY DEF IInv, SchedulerInv, WorkersInv, DriverInv, Claimed, Pending, NotYetQueued, Siblings
<1>2. /\ Siblings' = Siblings /\ Done' = Done /\ dropped' = dropped
      /\ Running' = Running \cup {n} /\ Crashed' = Crashed
  BY GotWorkSets, CrashedStays DEF IInv, SchedulerInv, WorkersInv
<1>3. children_unf_set' = children_unf_set
  BY DEF GotWork, treeVars
<1>4. Exp!Start(n)
  BY <1>1, <1>2, <1>3 DEF Exp!Start
<1>. QED
  BY <1>1, <1>4 DEF Exp!Next

\* halt() is called for a reason that the exploration accepts: no job at all is
\* left, or the finished run of an error.
LEMMA HaltMaps ==
  ASSUME IInv, NEW w \in Worker, Halt(w), ~ Crashed
  PROVE  [Exp!Next]_(Exp!vars)
<1>1. /\ AllQueued' = AllQueued /\ Siblings' = Siblings /\ Running' = Running /\ Done' = Done
      /\ Crashed' = Crashed /\ UNCHANGED <<children_unf_set, dropped>> /\ halting' = TRUE
  BY SameQueues, QuietSets, CrashedStays
  DEF Halt, Halted, Quiet, IInv, SchedulerInv, WorkersInv, treeVars, historyVars
<1>2. Exp!MayStop
  <2>1. CASE res.error_trace /\ ~ KeepGoing
    BY <2>1 DEF Exp!MayStop, Exp!Failing, Done, IInv, SchedulerInv, WorkersInv, DriverInv, ErrorsBlamed
  <2>2. CASE JobsOf(AllQueued) = {}
    <3>1. \A v \in Worker : ~ Busy(v)
      BY <2>2 DEF JobsOf, Running
    <3>2. Siblings = {} /\ Running = {} /\ dropped = {} /\ AllQueued = {}
      BY <2>2, <3>1 DEF Siblings, Running, Enqueuing, Busy, Unfolded, JobsOf
    <3>. QED
      BY <3>2 DEF Exp!MayStop
  <2>. QED
    BY <2>1, <2>2 DEF IInv, SchedulerInv, WorkersInv, HaltReason, Halt, Halted
<1>3. Exp!Stop
  BY <1>1, <1>2 DEF Exp!Stop
<1>. QED
  BY <1>3 DEF Exp!Next

LEMMA IdleMaps ==
  ASSUME IInv, UNCHANGED <<driverVars, work_queue, halting>>
  PROVE  UNCHANGED Exp!vars
<1>1. AllQueued' = AllQueued
  BY SameQueues DEF IInv
<1>. QED
  BY <1>1, IdleSets DEF Exp!vars

LEMMA StepMaps ==
  ASSUME IInv, NEW w \in Worker, Step(w)
  PROVE  [Exp!Next]_(Exp!vars)
<1>1. CASE FastNull(w) \/ FastMiss(w) \/ LockSched(w) \/ SlowNull(w) \/ StartScan(w) \/ Wait(w)
  <2>1. ~ Busy(w) /\ UNCHANGED <<work_queue, halting>>
    BY <1>1 DEF FastNull, FastMiss, LockSched, SlowNull, StartScan, Wait, Busy, Starting, Unfolded,
                schedVars
  <2>2. \E l : Moves(w, l)
    <3>1. Moves(w, "exit") \/ Moves(w, "lock_sched") \/ Moves(w, "retest") \/ Moves(w, "scan")
      BY <1>1 DEF FastNull, FastMiss, LockSched, SlowNull, StartScan, Wait, GotNull, Moves
    <3>. QED
      BY <3>1
  <2>. QED
    BY <2>1, <2>2, QueueAlone DEF Step
<1>2. CASE DriverStep(w) /\ UNCHANGED schedVars
  BY <1>2, QueueAlone DEF Step, schedVars
<1>3. CASE FastPop(w)
  <2>1. \E n \in AllQueued : GotWork(w, n) /\ AllQueued' = AllQueued \ {n}
    BY <1>3, PoppedQueue
  <2>. QED
    BY <1>3, <2>1, TakenMaps DEF FastPop, Step, Busy, Starting, Unfolded
<1>4. CASE \E v \in others[w] : Steal(w, v)
  <2>1. \A v \in others[w] : v \in Worker
    BY DEF IInv, SlowPathOK
  <2>. QED
    BY <1>4, <2>1, StealInv, TakenMaps DEF Steal, Step
<1>5. CASE \E v \in others[w] : NothingToSteal(w, v)
  BY <1>5, IdleMaps DEF NothingToSteal
<1>. QED
  BY <1>1, <1>2, <1>3, <1>4, <1>5, PushMaps, HaltMaps DEF Step

LEMMA NextMaps == IInv /\ [Next]_vars => [Exp!Next]_(Exp!vars)
<1>. SUFFICES ASSUME IInv, [Next]_vars PROVE [Exp!Next]_(Exp!vars)
  OBVIOUS
<1>1. ASSUME NEW w \in Worker, SpuriousWakeup(w)
      PROVE  [Exp!Next]_(Exp!vars)
  BY <1>1, IdleMaps DEF SpuriousWakeup
<1>2. CASE UNCHANGED vars
  BY <1>2, IdleMaps DEF vars, schedVars
<1>. QED
  BY <1>1, <1>2, StepMaps DEF Next, Joined

\* Every step of the workers, with their stealing, is a step of the abstract
\* exploration or none, for any number of workers.
THEOREM Implements == Spec => ImplementsExploration
  BY InitMaps, NextMaps, Invariant, PTL DEF Spec, ImplementsExploration, Exp!Spec

-----------------------------------------------------------------------------
\* What was proved of the exploration holds of what implements it.
ExpP == INSTANCE Exploration_proofs WITH
  First <- Root,
  New <- [n \in Node |-> NewNodes(n)],
  known <- children_unf_set,
  pending <- AllQueued \cup Siblings,
  running <- Running,
  done <- Done,
  stopped <- halting,
  crashed <- Crashed

LEMMA ExpAssumption == ExpP!ExplorationAssumption
  BY TreeAssumption, NewNodesInTree DEF ExpP!ExplorationAssumption

\* When halt() is called without an error to end the exploration, no job is
\* left in any queue, and for every finished run each alternative that try_sat
\* can realise was run or is on the path of a finished run.
THEOREM HaltsWhenComplete == Spec => []HaltComplete
<1>1. Exp!Spec => []ExpP!StopsComplete
  <2>1. Exp!Init => ExpP!Init
    BY DEF Exp!Init, ExpP!Init
  <2>2. [Exp!Next]_(Exp!vars) => [ExpP!Next]_(ExpP!vars)
    BY DEF Exp!Next, Exp!Start, Exp!Drop, Exp!Failing, Exp!Unfold, Exp!Discovered, Exp!Discover,
       Exp!Finish, Exp!MayStop, Exp!Stop, Exp!Crash, Exp!vars,
       ExpP!Next, ExpP!Start, ExpP!Drop, ExpP!Failing, ExpP!Unfold, ExpP!Discovered,
       ExpP!Discover, ExpP!Finish, ExpP!MayStop, ExpP!Stop, ExpP!Crash, ExpP!vars
  <2>. QED
    BY <2>1, <2>2, ExpP!StoppingMeansComplete, ExpAssumption, PTL DEF Exp!Spec, ExpP!Spec
<1>2. IInv /\ ExpP!StopsComplete => HaltComplete
  <2>1. \A n \in Node : NewNodes(n) \subseteq Ancestors(Path(n))
    BY DEF NewNodes
  <2>. QED
    BY <2>1 DEF IInv, SchedulerInv, WorkersInv, HaltReason, ExpP!StopsComplete, ExpP!Failing, HaltComplete,
       Complete, OnPath, Done, DriverInv, ErrorsBlamed, Jobs
<1>. QED
  BY <1>1, <1>2, Implements, Invariant, PTL DEF ImplementsExploration
=============================================================================
