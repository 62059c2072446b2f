---------------------------- MODULE POWERReference ----------------------------
(* All executions of a program under POWER or ARM, by brute force, from the   *)
(* axioms of Alglave, Maranget and Tautschnig ("Herding Cats", 2014), which   *)
(* Nidhugg "operates under the instantiation of" (doc/manual.tex): the values *)
(* that loads return are guessed, then matched with stores, and the           *)
(* executions that satisfy the four axioms are kept.  It shares with the      *)
(* trace builder what an interpreter makes of an instruction, and nothing of  *)
(* how executions are found.                                                  *)
EXTENDS POWERExecution

(* --------------------------- guesses of values ---------------------------- *)

(* A guess: the interpreter's state, the values given to loads, and the       *)
(* events taken to block for ever.  A new thread never blocks: its creator    *)
(* has stored that it runs.                                                   *)
Pending1(g) ==
  {x \in Iids(g.s.c) : LET e == Ev(g.s.c, x)
                       IN  ~e.committed /\ x \notin g.stuck /\ AllKnown(e)}

Guessed(g, x, v) ==
  [g EXCEPT !.s = RunEvent([@ EXCEPT !.c.fch[x[1]][x[2]].committed = TRUE], x, v),
            !.val = (x :> v) @@ @]

NextGuesses(g, x, known) ==
  LET e == Ev(g.s.c, x)
      a == e.acc[1].addr
      possible == IF Requires(e) THEN {e.acc[1].req}
                  ELSE IF HasLoad(e) THEN {0} \cup {w.val : w \in {u \in known : u.addr = a}} ELSE {0}
      blocks == IF Requires(e) /\ x[2] > 1 THEN {[g EXCEPT !.stuck = @ \cup {x}]} ELSE {}
  IN  blocks \cup {Guessed(g, x, v) : v \in possible}

RECURSIVE GuessesFrom(_, _)
GuessesFrom(g, known) ==
  IF Pending1(g) = {} THEN {g}
  ELSE LET x == CHOOSE y \in Pending1(g) : \A w \in Pending1(g) :
                  y[1] < w[1] \/ (y[1] = w[1] /\ y[2] <= w[2])
       IN  UNION {GuessesFrom(h, known) : h \in NextGuesses(g, x, known)}

EmptyBuilder(mm) ==
  [mm |-> mm, fch |-> <<<<>>>>, thr |-> <<ClearThread>>, pending |-> 0]

(* What the events of a guess access, all of them but the blocked ones.       *)
DoneIn(g) == Iids(g.s.c) \ g.stuck
StoredIn(g) ==
  UNION {LET e == Ev(g.s.c, x)
         IN  {[iid |-> x, addr |-> e.acc[k].addr, val |-> e.acc[k].data] : k \in (e.ld + 1)..(e.ld + e.st)} :
         x \in DoneIn(g)}
LoadedIn(g) ==
  {[iid |-> x, addr |-> Ev(g.s.c, x).acc[1].addr, val |-> g.val[x]] :
     x \in {y \in DoneIn(g) : HasLoad(Ev(g.s.c, y))}}

(* Guesses from all values that may be stored, found by guessing until there  *)
(* is nothing new.                                                            *)
RECURSIVE Settled(_, _, _), AllGuesses(_, _)
Settled(start, known, guesses) ==
  LET all == known \cup UNION {StoredIn(g) : g \in guesses}
  IN  IF all = known THEN guesses ELSE AllGuesses(start, all)
AllGuesses(start, known) == Settled(start, known, GuessesFrom(start, known))
GuessesOf(prog, mm) ==
  AllGuesses([s |-> StartRun(prog.code, EmptyBuilder(mm)), val |-> <<>>, stuck |-> {}], {})

(* --------------------------- reads-from, coherence ------------------------ *)

Product(options) ==      \* one of options[a] for each a
  FoldSet(LAMBDA a, acc : {f @@ (a :> o) : f \in acc, o \in options[a]}, {<<>>}, DOMAIN options)

PoOrdered(seq) ==
  \A j \in DOMAIN seq : \A i \in 1..(j - 1) : ~(seq[i][1] = seq[j][1] /\ seq[i][2] > seq[j][2])

PlaceOf(seq, x) == IF \E k \in DOMAIN seq : seq[k] = x
                   THEN CHOOSE k \in DOMAIN seq : seq[k] = x ELSE 0

(* Communication at one byte: read-from, coherence, from-read.                *)
ComAt(e, h) ==
  LET n == IF e \in DOMAIN h.rf THEN PlaceOf(h.co, h.rf[e]) + 1 ELSE Len(h.co) + 1
      p == PlaceOf(h.co, e)
  IN  ({r \in DOMAIN h.rf : h.rf[r] = e}
       \cup {h.co[k] : k \in {i \in DOMAIN h.co : i >= n \/ (p > 0 /\ i > p)}}) \ {e}

(* SC per location.                                                           *)
HistoriesAt(g, a) ==
  LET stores == {w \in StoredIn(g) : w.addr = a}
      loads == {r \in LoadedIn(g) : r.addr = a}
      E == {u.iid : u \in stores \cup loads}
      from == [x \in {r.iid : r \in loads} |->
                 {w.iid : w \in {u \in stores : u.val = g.val[x] /\ u.iid # x}}
                 \cup (IF g.val[x] = 0 THEN {NullIid} ELSE {})]
      orders == {q \in SetToSeqs({w.iid : w \in stores}) : PoOrdered(q)}
      next(h) == [e \in E |-> ComAt(e, h) \cup {f \in E : f[1] = e[1] /\ f[2] > e[2]}]
  IN  {h \in {[rf |-> f, co |-> q] : f \in Product(from), q \in orders} :
         Acyclic(E, next(h))}

(* --------------------------- the other axioms ----------------------------- *)

(* Relations are functions from events to sets of events.                     *)
Then(R, S) == [e \in DOMAIN R |-> UNION {S[f] : f \in R[e]}]
Either(R, S) == [e \in DOMAIN R |-> R[e] \cup S[e]]
Star(R) == [e \in DOMAIN R |-> ReachedFrom({e}, R)]

(* Preserved program order: the least solution of these equations.            *)
RECURSIVE PpoFrom(_, _)
PpoFrom(base, r) ==
  LET new == [ii |-> [e \in DOMAIN r.ii |-> base.ii[e] \cup r.ci[e] \cup Then(r.ic, r.ci)[e] \cup Then(r.ii, r.ii)[e]],
              ic |-> [e \in DOMAIN r.ii |-> r.ii[e] \cup r.cc[e] \cup Then(r.ic, r.cc)[e] \cup Then(r.ii, r.ic)[e]],
              ci |-> [e \in DOMAIN r.ii |-> base.ci[e] \cup Then(r.ci, r.ii)[e] \cup Then(r.cc, r.ci)[e]],
              cc |-> [e \in DOMAIN r.ii |-> base.cc[e] \cup r.ci[e] \cup Then(r.ci, r.ic)[e] \cup Then(r.cc, r.cc)[e]]]
  IN  IF new = r THEN r ELSE PpoFrom(base, new)

Consistent(g, hist) ==
  LET c == g.s.c
      E == DoneIn(g)
      own(e, S) == {f \in E : f[1] = e[1] /\ f[2] \in S}
      po(e, f) == e[1] = f[1] /\ e[2] < f[2]
      at(e) == Targets(Ev(c, e))
      com == [e \in E |-> UNION {ComAt(e, hist[a]) : a \in at(e)}]
      readers == [e \in E |-> UNION {{r \in DOMAIN hist[a].rf : hist[a].rf[r] = e} : a \in at(e)}]
      later(e, a) == LET p == PlaceOf(hist[a].co, e)
                     IN  {hist[a].co[k] : k \in {i \in DOMAIN hist[a].co : i > p}}
      co == [e \in E |-> UNION {later(e, a) : a \in {d \in at(e) : PlaceOf(hist[d].co, e) > 0}}]
      external == [e \in E |-> {f \in E : f[1] # e[1]}]
      both(R, S) == [e \in E |-> R[e] \cap S[e]]
      rfe == both(readers, external)
      fre == [e \in E |-> IF ~HasLoad(Ev(c, e)) THEN {}
                          ELSE LET a == Ev(c, e).acc[1].addr
                               IN  {f \in later(hist[a].rf[e], a) : f[1] # e[1]}]
      poloc == [e \in E |-> {f \in E : po(e, f) /\ at(e) \cap at(f) # {}}]
      dp == [e \in E |-> {f \in E : e \in own(f, Ev(c, f).addr \cup Ev(c, f).data)}]
      addrPo == [e \in E |-> {f \in E : \E d \in E : e \in own(d, Ev(c, d).addr) /\ po(d, f)}]
      ctrl == [e \in E |-> {f \in E : e \in own(f, Ev(c, f).ctrl \cup Ev(c, f).isync)}]
      isync == [e \in E |-> {f \in E : e \in own(f, Ev(c, f).isync)}]
      rfi == [e \in E |-> readers[e] \ external[e]]
      rdw == both(poloc, Then(fre, rfe))
      detour == both(poloc, Then(both(co, external), rfe))
      none == [e \in E |-> {}]
      base == [ii |-> Either(dp, Either(rdw, rfi)), ic |-> none, ci |-> Either(isync, detour),
               cc |-> Either(Either(dp, addrPo), IF c.mm = "POWER" THEN Either(ctrl, poloc) ELSE ctrl)]
      ppo == PpoFrom(base, [ii |-> none, ic |-> none, ci |-> none, cc |-> none])
      R == {e \in E : HasLoad(Ev(c, e))}
      W == {e \in E : HasStore(Ev(c, e))}
      past(e, f, kind) == po(e, f) /\ Ev(c, f).before[kind] >= e[2]
      sync == [e \in E |-> {f \in E : past(e, f, "sync")}]
      fences == [e \in E |-> sync[e] \cup
                  {f \in E : \/ past(e, f, "lwsync") /\ (e \in R \/ f \in W)
                             \/ past(e, f, "eieio") /\ e \in W /\ f \in W}]
      hb == [e \in E |-> rfe[e] \cup fences[e]
                         \cup (IF e \in R THEN (ppo.ii[e] \cap R) \cup (ppo.ic[e] \cap W) ELSE {})]
      hbs == Star(hb)
      propBase == Then(Either([e \in E |-> {e}], rfe), Then(fences, hbs))
      strong == Then(Star(com), Then(Star(propBase), Then(sync, hbs)))
      prop == [e \in E |-> strong[e] \cup (IF e \in W THEN propBase[e] \cap W ELSE {})]
      seen == Then(fre, Then(prop, hbs))
  IN  /\ Acyclic(E, [e \in E |-> com[e] \cup poloc[e]])
      /\ Acyclic(E, hb)
      /\ \A e \in E : e \notin seen[e]
      /\ Acyclic(E, Either(co, prop))

(* An execution with blocked events counts when none of them can go on.       *)
LogOf(g, hist) ==
  [co |-> {<<a, hist[a].co>> : a \in {d \in DOMAIN hist : hist[d].co # <<>>}},
   rf |-> UNION {{<<r, a, hist[a].rf[r]>> : r \in DOMAIN hist[a].rf} : a \in DOMAIN hist}]

Extends(log, more) ==
  /\ log # more /\ log.rf \subseteq more.rf
  /\ \A p \in log.co : \E q \in more.co :
       q[1] = p[1] /\ p[2] = SelectSeq(q[2], LAMBDA e : e \in Range(p[2]))

Histories(g) == Product([a \in {u.addr : u \in StoredIn(g) \cup LoadedIn(g)} |-> HistoriesAt(g, a)])
Logs(guesses) ==
  UNION {{[stuck |-> g.stuck # {}, log |-> LogOf(g, h)] : h \in {k \in Histories(g) : Consistent(g, k)}} :
           g \in guesses}
Final(logs) == {l.log : l \in {k \in logs : k.stuck => \A more \in logs : ~Extends(k.log, more.log)}}
PowerExecutions(prog, mm) == Final(Logs(GuessesOf(prog, mm)))
===============================================================================
