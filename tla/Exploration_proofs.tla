------------------------- MODULE Exploration_proofs -------------------------
(***************************************************************************)
(* The invariants of Exploration, for every tree of decisions.             *)
(***************************************************************************)
EXTENDS Exploration, TLAPS

\* Every node that has a fate was found, or is the root, and nothing is new
\* about the alternatives of a finished run.
Accounted ==
  /\ pending \cup running \cup done \cup dropped \subseteq known \cup {First}
  /\ First \in pending \cup running \cup done \cup dropped
  /\ \A n \in done : New[n] \cup Alt[n] \subseteq known

\* An exploration that stopped has nothing left to do, or an error to blame.
StopIsFinal ==
  stopped =>
    \/ Failing(done) /\ ~ KeepGoing
    \/ pending = {} /\ running = {} /\ dropped = {}

\* The root is no alternative, and no run adds it to the tree.
NotKnown == First \notin known

IInv ==
  /\ TypeOK
  /\ OneFate
  /\ NothingLost
  /\ Accounted
  /\ StopIsFinal
  /\ NotKnown

-----------------------------------------------------------------------------
LEMMA InitInv == Init => IInv
  BY ExplorationAssumption
  DEF Init, IInv, TypeOK, OneFate, NothingLost, Accounted, StopIsFinal, NotKnown, OnPath

LEMMA StartInv ==
  ASSUME IInv, NEW n \in Node, Start(n)
  PROVE  IInv'
  BY DEF IInv, Start, TypeOK, OneFate, NothingLost, Accounted, StopIsFinal, NotKnown,
         OnPath, Failing

LEMMA DropInv ==
  ASSUME IInv, NEW n \in Node, Drop(n)
  PROVE  IInv'
  BY DEF IInv, Drop, TypeOK, OneFate, NothingLost, Accounted, StopIsFinal, NotKnown,
         OnPath, Failing

LEMMA UnfoldInv ==
  ASSUME IInv, NEW n \in Node, Unfold(n)
  PROVE  IInv'
  BY ExplorationAssumption
  DEF IInv, Unfold, TypeOK, OneFate, NothingLost, Accounted, StopIsFinal, NotKnown,
      OnPath, Failing

LEMMA DiscoverInv ==
  ASSUME IInv, NEW n \in Node, NEW a \in Alt[n], Discover(n, a)
  PROVE  IInv'
  BY ExplorationAssumption
  DEF IInv, Discover, Discovered, TypeOK, OneFate, NothingLost, Accounted, StopIsFinal,
      NotKnown, OnPath, Failing

LEMMA FinishInv ==
  ASSUME IInv, NEW n \in Node, Finish(n)
  PROVE  IInv'
  BY DEF IInv, Finish, TypeOK, OneFate, NothingLost, Accounted, StopIsFinal, NotKnown,
         OnPath, Failing

LEMMA StopInv ==
  ASSUME IInv, Stop
  PROVE  IInv'
  BY DEF IInv, Stop, MayStop, TypeOK, OneFate, NothingLost, Accounted, StopIsFinal,
         NotKnown, OnPath, Failing

LEMMA CrashInv ==
  ASSUME IInv, Crash
  PROVE  IInv'
  BY DEF IInv, Crash, TypeOK, OneFate, NothingLost, Accounted, StopIsFinal, NotKnown,
         OnPath, Failing

LEMMA NextInv ==
  ASSUME IInv, [Next]_vars
  PROVE  IInv'
<1>1. ASSUME NEW n \in Node, Start(n) \/ Drop(n) \/ Unfold(n) \/ Finish(n)
      PROVE  IInv'
  BY <1>1, StartInv, DropInv, UnfoldInv, FinishInv
<1>2. ASSUME NEW n \in Node, NEW a \in Alt[n], Discover(n, a)
      PROVE  IInv'
  BY <1>2, DiscoverInv
<1>3. CASE Stop
  BY <1>3, StopInv
<1>4. CASE Crash
  BY <1>4, CrashInv
<1>5. CASE UNCHANGED vars
  BY <1>5 DEF vars, IInv, TypeOK, OneFate, NothingLost, Accounted, StopIsFinal,
              NotKnown, OnPath, Failing
<1>. QED
  BY <1>1, <1>2, <1>3, <1>4, <1>5 DEF Next

THEOREM Invariant == Spec => []IInv
<1>1. Init => IInv
  BY InitInv
<1>2. IInv /\ [Next]_vars => IInv'
  BY NextInv
<1>. QED
  BY <1>1, <1>2, PTL DEF Spec

-----------------------------------------------------------------------------
\* A node is waiting, being run, finished or given up, and never two of these:
\* whatever the number of threads, no node is run twice.
THEOREM EachNodeHasOneFate == Spec => []OneFate
<1>1. IInv => OneFate
  BY DEF IInv
<1>. QED
  BY <1>1, Invariant, PTL

\* No node that some execution realises is forgotten once it was found.
THEOREM NoNodeIsLost == Spec => []NothingLost
<1>1. IInv => NothingLost
  BY DEF IInv
<1>. QED
  BY <1>1, Invariant, PTL

\* Nothing is waiting, being run or given up.
Idle == pending = {} /\ running = {} /\ dropped = {}

\* An idle exploration has run the root and every realisable alternative to the
\* decisions of its runs.
IdleComplete ==
  Idle =>
    /\ First \in done
    /\ \A n \in done : Alt[n] \cap Sat \subseteq done \cup UNION {New[m] : m \in done}

LEMMA IdlenessInv ==
  ASSUME IInv
  PROVE  IdleComplete
<1>. SUFFICES ASSUME Idle
              PROVE  /\ First \in done
                     /\ \A n \in done :
                          Alt[n] \cap Sat \subseteq done \cup UNION {New[m] : m \in done}
  BY DEF IdleComplete
<1>1. First \in done
  BY DEF Idle, IInv, Accounted
<1>2. ASSUME NEW n \in done, NEW a \in Alt[n] \cap Sat
      PROVE  a \in done \cup UNION {New[m] : m \in done}
  <2>1. a # First /\ a \in known
    BY <1>2, ExplorationAssumption DEF IInv, Accounted, TypeOK
  <2>. QED
    BY <1>2, <2>1 DEF Idle, IInv, NothingLost, OnPath
<1>. QED
  BY <1>1, <1>2

\* With or without a Stop, an exploration that runs out of work is complete.
THEOREM IdleMeansComplete == Spec => []IdleComplete
  BY IdlenessInv, Invariant, PTL

\* An exploration that stops for another reason than an error has explored
\* every realisable alternative to the decisions of every run it made.
THEOREM StoppingMeansComplete == Spec => []StopsComplete
<1>1. IInv => StopsComplete
  BY IdlenessInv DEF IInv, StopIsFinal, StopsComplete, IdleComplete, Idle
<1>. QED
  BY <1>1, Invariant, PTL
=============================================================================
