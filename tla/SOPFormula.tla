---------------------------- MODULE SOPFormula ----------------------------
(***************************************************************************)
(* SOPFormula.cpp: the values a continuation must not let its reads return.*)
(* A formula is a disjunction of products of (read, value) pairs.  It is   *)
(* kept as the code keeps it: a list of products, each a list of pairs,    *)
(* with the field `result` that says whether the formula is a constant.    *)
(* Only the operations the view-equivalence explorer calls are here;       *)
(* ProductTerm::evaluate, SOPFormula::evaluate and their kin are dead.     *)
(***************************************************************************)
EXTENDS Integers, Sequences, SequencesExt

False == [terms |-> <<>>, result |-> "FALSE"]
True  == [terms |-> <<>>, result |-> "TRUE"]
Term(rv) == [terms |-> << <<rv>> >>, result |-> "DEPENDENT"]

(* ProductTerm::operator==: the same pairs, in whatever order. *)
SameProduct(p, q) == Len(p) = Len(q) /\ ToSet(p) \subseteq ToSet(q)

OrProduct(f, p) ==
  IF f.result = "TRUE" \/ \E i \in DOMAIN f.terms : SameProduct(f.terms[i], p)
  THEN f
  ELSE [terms |-> Append(f.terms, p), result |-> "DEPENDENT"]

OrTerm(f, rv) == OrProduct(f, <<rv>>)

Or(f, g) ==
  CASE f.result = "TRUE" \/ g.result = "FALSE" -> f
    [] f.result # "TRUE" /\ (g.result = "TRUE" \/ f.result = "FALSE") -> g
    [] OTHER -> FoldLeft(OrProduct, f, g.terms)

AddTerm(p, rv) == IF Contains(p, rv) THEN p ELSE Append(p, rv)

AndProduct(f, p) ==
  [f EXCEPT !.terms = [i \in DOMAIN f.terms |-> FoldLeft(AddTerm, f.terms[i], p)]]

And(f, g) ==
  CASE g.result = "TRUE" \/ f.result = "FALSE" -> f
    [] g.result # "TRUE" /\ f.result # "FALSE"
         /\ (g.result = "FALSE" \/ f.result = "TRUE") -> g
    [] OTHER ->
         FoldLeft(LAMBDA acc, p : Or(acc, AndProduct(f, p)),
                  AndProduct(f, Head(g.terms)), Tail(g.terms))

(* ProductTerm::reduce: the first pair about rv's read decides.  The result *)
(* is the set of products left: none when the product became false.         *)
ReduceProduct(p, rv) ==
  LET i == SelectInSeq(p, LAMBDA t : t[1] = rv[1])
  IN  IF i = 0 THEN <<p>> ELSE IF p[i] = rv THEN <<RemoveAt(p, i)>> ELSE <<>>

(* SOPFormula::reduce: ground rv to true, the read's other values to false. *)
Reduce(f, rv) ==
  LET left == FoldLeft(LAMBDA acc, p : acc \o ReduceProduct(p, rv), <<>>, f.terms)
  IN  IF f.result = "TRUE" \/ Contains(left, <<>>) THEN True
      ELSE IF left = <<>> THEN False
      ELSE [f EXCEPT !.terms = left]

(* check_evaluation(rv) == RESULT::TRUE, the only outcome its callers test: *)
(* rv by itself is a product.  (On the constant TRUE this is FALSE.)        *)
Forbids(f, rv) == Contains(f.terms, <<rv>>)
===========================================================================
