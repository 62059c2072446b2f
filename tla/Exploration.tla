----------------------------- MODULE Exploration -----------------------------
(***************************************************************************)
(* What the reads-from exploration promises, whatever scheduler hands out  *)
(* the work and however many threads there are: every decision node is     *)
(* explored at most once, nothing that was found is lost, and the          *)
(* exploration stops only when all is explored or an error ends it.        *)
(***************************************************************************)
EXTENDS FiniteSets

CONSTANTS
  Node,       \* the decision nodes
  First,      \* the root node
  New,        \* New[n]: the nodes that the run of n adds to the tree
  Alt,        \* Alt[n]: siblings of decisions of the run of n
  Sat,        \* the nodes that some execution realises
  Outcome,    \* how the run of n ends
  KeepGoing   \* errors do not end the exploration

ASSUME ExplorationAssumption ==
  /\ First \in Node
  /\ \A n \in Node : New[n] \subseteq Node \ {First}
  /\ \A n \in Node : Alt[n] \subseteq Node \ {First}

VARIABLES
  known,      \* nodes found so far, the root excepted
  pending,    \* nodes waiting to be run
  running,    \* nodes being run
  done,       \* nodes whose run is finished
  dropped,    \* nodes pruned because of an error
  stopped,    \* no more nodes will be run
  crashed     \* the process is gone

vars == <<known, pending, running, done, dropped, stopped, crashed>>

Init ==
  /\ known = {}
  /\ pending = {First}
  /\ running = {}
  /\ done = {}
  /\ dropped = {}
  /\ stopped = FALSE
  /\ crashed = FALSE

Failing(S) == \E n \in S : Outcome[n] = "error"

\* Faulty variant of Start: the node stays in the queue.
StartAgain(n) ==
  /\ n \in pending
  /\ running' = running \cup {n}
  /\ UNCHANGED <<known, pending, done, dropped, stopped, crashed>>

Start(n) ==
  /\ n \in pending
  /\ pending' = pending \ {n}
  /\ running' = running \cup {n}
  /\ UNCHANGED <<known, done, dropped, stopped, crashed>>

\* Only an error makes the exploration give up nodes, and only before it runs
\* them.
Drop(n) ==
  /\ n \in running
  /\ New[n] \cap known = {}
  /\ Failing(running \cup done)
  /\ running' = running \ {n}
  /\ dropped' = dropped \cup {n}
  /\ UNCHANGED <<known, pending, done, stopped, crashed>>

\* The nodes below n are all new.
Unfold(n) ==
  /\ n \in running
  /\ New[n] \cap known = {}
  /\ known' = known \cup New[n]
  /\ UNCHANGED <<pending, running, done, dropped, stopped, crashed>>

\* Faulty variant of Discovered: a sibling is found and not queued.
Forgotten(a) == {}

\* The siblings of a that can be realised are pending.
Discovered(a) == IF a \in Sat THEN {a} ELSE {}

Discover(n, a) ==
  /\ n \in running
  /\ New[n] \subseteq known
  /\ a \in Alt[n] \ known
  /\ known' = known \cup {a}
  /\ pending' = pending \cup Discovered(a)
  /\ UNCHANGED <<running, done, dropped, stopped, crashed>>

Finish(n) ==
  /\ n \in running
  /\ New[n] \subseteq known
  /\ Alt[n] \subseteq known
  /\ running' = running \ {n}
  /\ done' = done \cup {n}
  /\ UNCHANGED <<known, pending, dropped, stopped, crashed>>

\* Faulty variant of MayStop: nodes that are still being run are overlooked.
StopWhenIdle ==
  \/ Failing(done) /\ ~ KeepGoing
  \/ pending = {} /\ dropped = {}

MayStop ==
  \/ Failing(done) /\ ~ KeepGoing
  \/ pending = {} /\ running = {} /\ dropped = {}

Stop ==
  /\ MayStop
  /\ stopped' = TRUE
  /\ UNCHANGED <<known, pending, running, done, dropped, crashed>>

\* The process may die while it handles an error.
Crash ==
  /\ Failing(running)
  /\ crashed' = TRUE
  /\ UNCHANGED <<known, pending, running, done, dropped, stopped>>

Next ==
  /\ ~ crashed
  /\ \/ \E n \in Node :
          \/ Start(n) \/ Drop(n) \/ Unfold(n) \/ Finish(n)
          \/ \E a \in Alt[n] : Discover(n, a)
     \/ Stop
     \/ Crash

Spec == Init /\ [][Next]_vars

-----------------------------------------------------------------------------
TypeOK ==
  /\ known \subseteq Node
  /\ pending \subseteq Node
  /\ running \subseteq Node
  /\ done \subseteq Node
  /\ dropped \subseteq Node
  /\ stopped \in BOOLEAN
  /\ crashed \in BOOLEAN

\* Every node has one fate at a time: it is waiting, being run, finished or
\* given up, so it is run once at most.
OneFate ==
  /\ pending \cap (running \cup done \cup dropped) = {}
  /\ running \cap (done \cup dropped) = {}
  /\ done \cap dropped = {}

\* The nodes whose decision was made by a run that is not given up.
OnPath == {First} \cup UNION {New[n] : n \in running \cup done}

\* Nothing found is forgotten: a node that can be realised is on the path of a
\* run, or has the fate of an alternative.
NothingLost ==
  known \cap Sat \subseteq pending \cup running \cup done \cup dropped \cup OnPath

\* When the exploration stops without an error to blame, every alternative to a
\* decision of a finished run that can be realised was explored.
StopsComplete ==
  stopped =>
    \/ Failing(done) /\ ~ KeepGoing
    \/ /\ First \in done
       /\ \A n \in done : Alt[n] \cap Sat \subseteq done \cup UNION {New[m] : m \in done}
=============================================================================
