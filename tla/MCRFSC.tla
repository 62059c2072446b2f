------------------------------- MODULE MCRFSC -------------------------------
(***************************************************************************)
(* A program under test for the models of the RFSC exploration, as the     *)
(* decision tree that it gives rise to:                                    *)
(*                                                                         *)
(*   main:  spawn t; r = x; s = y          t:  y = a; x = a; y = b; x = b  *)
(*                                                                         *)
(* A run decides what the load of x reads (depth 0) and what the load of y *)
(* reads (depth 1): "i", the initial value, or "a" or "b".                 *)
(***************************************************************************)
EXTENDS Integers, Sequences, FiniteSets

MCUnf == {"i", "a", "b"}
MCNode == UNION {[1 .. k -> MCUnf] : k \in 0 .. 2}

\* Past the replay main runs before t, so a load reads the latest write that was
\* replayed: that of y precedes that of x.
MCExt == [n \in MCNode |->
            CASE Len(n) = 0 -> <<"i", "i">>
              [] Len(n) = 1 -> <<n[1]>>
              [] Len(n) = 2 -> << >>]

\* All siblings of the decisions on the path of a run.
MCAlt == [n \in MCNode |->
            LET path == n \o MCExt[n]
            IN {Append(SubSeq(path, 1, k - 1), u) : k \in 1 .. Len(path), u \in MCUnf} \
               {SubSeq(path, 1, k) : k \in 1 .. Len(path)}]

\* s is never older than r.
MCSat == {<<"a">>, <<"b">>, <<"i", "a">>, <<"i", "b">>, <<"a", "b">>}

\* The decision depths of the events of a replay: the spawn, the writes of t
\* that have to come first, the load of x, more writes, the load of y.
WritesBeforeX == [i |-> 0, a |-> 2, b |-> 4]
WritesBeforeY == [i |-> 0, a |-> 1, b |-> 3]
Undecided(k) == [j \in 1 .. k |-> -1]
MCLayout == [n \in MCNode |->
               IF n = << >> THEN << >>
               ELSE LET first == WritesBeforeX[n[1]]
                        to_x == Undecided(1 + first) \o <<0>>
                    IN IF Len(n) = 1 THEN to_x
                       ELSE LET all == WritesBeforeY[n[2]]
                            IN to_x \o Undecided(IF all > first THEN all - first ELSE 0) \o <<1>>]
MCExecuted == [n \in MCNode |-> Len(MCLayout[n])]

\* How the traces end: all well but one that is blocked in an assume at the end;
\* with one assertion at the end, and with two, that some traces violate.
NoErrors == [n \in MCNode |-> IF n = <<"b">> THEN "assume" ELSE "ok"]
OneError == [n \in MCNode |-> IF n = <<"i", "a">> THEN "error" ELSE "ok"]
TwoErrors == [n \in MCNode |-> IF n \in {<<"i", "a">>, <<"a", "b">>} THEN "error" ELSE "ok"]
=============================================================================
