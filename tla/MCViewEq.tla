------------------------------ MODULE MCViewEq -----------------------------
(***************************************************************************)
(* The programs ViewEqExploration is checked on.                           *)
(***************************************************************************)
EXTENDS ViewEqExploration

x == 1
y == 2
z == 3
R(o) == [kind |-> "read", obj |-> o, val |-> 0, from |-> 0]
W(o, v) == [kind |-> "write", obj |-> o, val |-> v, from |-> 0]
Inc(o, i) == [kind |-> "write", obj |-> o, val |-> 1, from |-> i]

(* Threads of one and of two accesses over two objects and two values. *)
Accesses == {R(o) : o \in {x, y}} \cup {W(o, v) : o \in {x, y}, v \in {1, 2}}
One == {<<a>> : a \in Accesses}
Two == {<<a, b>> : a, b \in Accesses} \cup {<<R(o), Inc(p, 1)>> : o, p \in {x, y}}

(* Every pair of such threads; every one beside two threads of one access. *)
Pairs == (One \cup Two) \X (One \cup Two)
Triples == {<<a, b, c>> : a \in One \cup Two, b, c \in One}
             \cup {<<b, a, c>> : a \in Two, b, c \in One}
             \cup {<<b, c, a>> : a \in Two, b, c \in One}

(* The straight-line programs of tests/ViewEq_RegressionSuite/basic. *)
RegressionSuite == {
  (* Test1_RW, Test2_3W1R, Test3_WW_RR, Test6_2W_WR, Test7_SB *)
  << <<W(x, 1)>>, <<R(x)>> >>,
  << <<W(x, 1)>>, <<W(x, 2)>>, <<W(x, 1)>>, <<R(x)>> >>,
  << <<W(y, 1)>>, <<W(x, 1)>>, <<R(x)>>, <<R(y)>> >>,
  << <<W(x, 2)>>, <<W(x, 1), R(x)>>, <<W(x, 1)>> >>,
  << <<W(x, 1), R(y)>>, <<W(y, 1), R(x)>> >>,
  (* Test8_2W4R, Test9_2W4R, Test11_RW_4W, Test13_MP *)
  << <<W(x, 1)>>, <<R(y), R(x)>>, <<W(y, 1)>>, <<R(x)>>, <<R(x)>> >>,
  << <<W(x, 1)>>, <<R(y), R(x)>>, <<W(y, 1)>>, <<R(x)>>, <<R(y)>> >>,
  << <<R(y), W(x, 2)>>, <<W(z, 2), W(x, 1)>>, <<W(z, 3), W(y, 1)>> >>,
  << <<R(x), W(y, 1)>>, <<R(y), W(x, 1)>> >>,
  (* Test15_2W_3R, Test16_W3R_WW, Test17_RR_WR, Test18_3R_2W *)
  << <<W(x, 1)>>, <<W(x, 2)>>, <<R(x)>>, <<R(y), R(x)>> >>,
  << <<W(x, 1), R(x), R(y), R(y)>>, <<W(x, 2)>>, <<W(y, 1)>> >>,
  << <<R(x), R(x)>>, <<W(x, 1)>>, <<R(x)>> >>,
  << <<R(x), R(y), R(y)>>, <<W(y, 1)>>, <<W(y, 2)>> >>,
  (* Test19_later_writes, Test24_same_extensions, Test25_backseq *)
  << <<W(x, 1)>>, <<R(x)>>, <<R(y), W(x, 2)>>, <<R(z), W(x, 3)>> >>,
  << <<W(x, 1)>>, <<W(x, 1)>>, <<R(y), R(x)>>, <<R(y), R(x)>> >>,
  << <<W(x, 1)>>, <<R(x), W(y, 1)>>, <<R(y), W(x, 2)>>, <<R(z), W(x, 2)>> >>,
  (* Test26_forbidden_sufficiency, Test29_causality *)
  << <<W(y, 1)>>, <<R(y), R(z), R(x)>>, <<R(z), W(x, 1)>>, <<R(z), R(x), W(y, 0)>> >>,
  << <<W(x, 1), R(x), W(y, 1)>>, <<W(y, 1), R(y), W(x, 1)>> >>,
  (* Test32_covered_by_backward_read_and_write, Test33_reads_causality *)
  << <<W(x, 1)>>, <<R(y), R(x)>>, <<R(y), R(y), W(x, 0)>> >>,
  << <<W(y, 1)>>, <<R(y), W(x, 1)>>, <<R(x), R(y)>>, <<W(x, 1)>> >> }

(* Programs on which the leads of one state meet, and have to be merged.    *)
MeetingLeads == {
  << <<W(y, 1), R(x)>>, <<R(y), W(x, 1)>>, <<R(x), R(y)>> >>,
  << <<R(y), R(y)>>, <<R(x), W(y, 1)>>, <<W(x, 2), R(y)>> >>,
  << <<R(x)>>, <<W(y, 1), R(y), W(y, 2)>>, <<W(x, 1), R(x), R(y)>> >>,
  << <<R(x)>>, <<R(x), W(x, 2)>>, <<W(x, 1), R(x), W(x, 1)>> >>,
  << <<R(x), W(x, 1), R(x)>>, <<R(y)>>, <<R(x), W(y, 1), W(x, 1)>> >> }

AllPrograms == Pairs \cup Triples \cup RegressionSuite \cup MeetingLeads

(* A program one of whose views is missed. *)
MissedProgram == { << <<W(y, 2), W(x, 1), R(y)>>, <<W(y, 1), R(x)>> >> }

(* Not run: a program one of whose views is explored twice (OnceEach fails). *)
RepeatedProgram == { << <<W(x, 2), W(x, 2), R(x)>>, <<W(x, 1), R(x)>> >> }
=============================================================================
