---------------------------- MODULE LLVMInstructions ----------------------------
(* What the instructions that touch no memory compute: comparisons,           *)
(* arithmetic, shifts, casts, vectors and aggregates, as the interpreter of   *)
(* src/src/Execution.cpp runs them.  (src/src/POWERExecution.cpp has the same *)
(* code again; POWERExecution.tla says which instruction goes where.)         *)
(*                                                                            *)
(* A value (GenericValue) is the sequence of its lanes; one that is no vector *)
(* has one lane.  A lane is                                                   *)
(*   - for an integer of w bits, its bits as a number below 2^w (an APInt),   *)
(*   - for a pointer, its address,                                            *)
(*   - for a float or a double, [nan, val]: not a number, or a number.  The   *)
(*     numbers are integers small enough to be exact in either format.        *)
(* A struct or an array is the sequence of its members, each of them a value. *)
(* A type is [kind, w]: "int", "ptr" or "float", and its width in bits.       *)
(* What the code gives up on (llvm_unreachable) no program here does.         *)
EXTENDS Integers, Sequences, SequencesExt, FiniteSetsExt

(* --------------------------------- APInt ---------------------------------- *)

(* The number that the bits v stand for as a signed integer, m being the      *)
(* number of values of its type.                                              *)
Signed(v, m) == IF 2 * v < m THEN v ELSE v - m

AsBit(b) == IF b THEN 1 ELSE 0

BitOf(v, k) == (v \div 2^k) % 2
FromBits(bits, w) == FoldSet(LAMBDA k, acc : acc + bits[k] * 2^k, 0, 0 .. w - 1)

Abs(n) == IF n < 0 THEN -n ELSE n

(* Division that rounds to zero, and what it leaves.                          *)
Quotient(a, b) ==
  IF (a < 0) = (b < 0) THEN Abs(a) \div Abs(b) ELSE -(Abs(a) \div Abs(b))
Remainder(a, b) == IF a < 0 THEN -(Abs(a) % Abs(b)) ELSE a % Abs(b)

(* ------------------------------- comparisons ------------------------------ *)

(* One lane.  Pointers are compared as addresses, whatever the predicate.     *)
ICmpHolds(pred, a, b, ty) ==
  LET sa == IF ty.kind = "ptr" THEN a ELSE Signed(a, 2^ty.w)
      sb == IF ty.kind = "ptr" THEN b ELSE Signed(b, 2^ty.w)
  IN  CASE pred = "eq"  -> a = b
        [] pred = "ne"  -> a # b
        [] pred = "ult" -> a < b
        [] pred = "slt" -> sa < sb
        [] pred = "ugt" -> a > b
        [] pred = "sgt" -> sa > sb
        [] pred = "ule" -> a <= b
        [] pred = "sle" -> sa <= sb
        [] pred = "uge" -> a >= b
        [] pred = "sge" -> sa >= sb

executeICMP(pred, a, b, ty) ==
  [k \in DOMAIN a |-> AsBit(ICmpHolds(pred, a[k], b[k], ty))]

(* The comparisons of C++: with a NaN only != holds.                          *)
FEq(a, b) == ~a.nan /\ ~b.nan /\ a.val = b.val
FLess(a, b) == ~a.nan /\ ~b.nan /\ a.val < b.val
IsNaN(a) == ~FEq(a, a)
AnyNaN(a, b) == IsNaN(a) \/ IsNaN(b)

(* executeFCMP_O..: the ordered predicates.  ONE checks for NaNs first.       *)
OrderedHolds(pred, a, b) ==
  CASE pred = "oeq" -> FEq(a, b)
    [] pred = "one" -> IF AnyNaN(a, b) THEN FALSE ELSE ~FEq(a, b)
    [] pred = "ole" -> FLess(a, b) \/ FEq(a, b)
    [] pred = "oge" -> FLess(b, a) \/ FEq(a, b)
    [] pred = "olt" -> FLess(a, b)
    [] pred = "ogt" -> FLess(b, a)

(* executeFCMP_U..: true of NaNs, else as the ordered one.                    *)
OrderedOf == [ueq |-> "oeq", une |-> "one", ule |-> "ole", uge |-> "oge",
              ult |-> "olt", ugt |-> "ogt"]
UnorderedHolds(pred, a, b) ==
  IF AnyNaN(a, b) THEN TRUE ELSE OrderedHolds(OrderedOf[pred], a, b)

FCmpHolds(pred, a, b) ==
  CASE pred = "false" -> FALSE
    [] pred = "true"  -> TRUE
    [] pred = "ord"   -> FEq(a, a) /\ FEq(b, b)
    [] pred = "uno"   -> ~FEq(a, a) \/ ~FEq(b, b)
    [] pred \in DOMAIN OrderedOf -> UnorderedHolds(pred, a, b)
    [] OTHER          -> OrderedHolds(pred, a, b)

executeFCMP(pred, a, b) == [k \in DOMAIN a |-> AsBit(FCmpHolds(pred, a[k], b[k]))]

visitICmpInst(i, v) == executeICMP(i.pred, v[1], v[2], i.ty)
visitFCmpInst(i, v) == executeFCMP(i.pred, v[1], v[2])

(* -------------------------------- arithmetic ------------------------------ *)

(* One lane of integers.  (Division by zero is undefined in the program.)     *)
IntBinary(f, a, b, w) ==
  LET m == 2^w
  IN  CASE f = "add"  -> (a + b) % m
        [] f = "sub"  -> (a - b) % m
        [] f = "mul"  -> (a * b) % m
        [] f = "udiv" -> a \div b
        [] f = "urem" -> a % b
        [] f = "sdiv" -> Quotient(Signed(a, m), Signed(b, m)) % m
        [] f = "srem" -> Remainder(Signed(a, m), Signed(b, m)) % m
        [] f = "and"  -> FromBits([k \in 0 .. w - 1 |-> BitOf(a, k) * BitOf(b, k)], w)
        [] f = "or"   -> FromBits([k \in 0 .. w - 1 |-> Max({BitOf(a, k), BitOf(b, k)})], w)
        [] f = "xor"  -> FromBits([k \in 0 .. w - 1 |-> (BitOf(a, k) + BitOf(b, k)) % 2], w)

(* One lane of floats: IEEE arithmetic, by IMPLEMENT_BINARY_OPERATOR and      *)
(* fmod.  (The quotients of fdiv need not be integers and are left out.)      *)
NaN == [nan |-> TRUE, val |-> 0]
Num(n) == [nan |-> FALSE, val |-> n]
FloatBinary(f, a, b) ==
  IF a.nan \/ b.nan THEN NaN
  ELSE CASE f = "fadd" -> Num(a.val + b.val)
         [] f = "fsub" -> Num(a.val - b.val)
         [] f = "fmul" -> Num(a.val * b.val)
         [] f = "frem" -> IF b.val = 0 THEN NaN ELSE Num(Remainder(a.val, b.val))

FloatOps == {"fadd", "fsub", "fmul", "frem"}
IntOps == {"add", "sub", "mul", "udiv", "urem", "sdiv", "srem", "and", "or", "xor"}
visitBinaryOperator(i, v) ==
  [k \in DOMAIN v[1] |-> IF i.f \in FloatOps THEN FloatBinary(i.f, v[1][k], v[2][k])
                         ELSE IntBinary(i.f, v[1][k], v[2][k], i.ty.w)]

(* A condition that is a vector selects lane by lane.                         *)
executeSelectInst(c, a, b) ==
  IF Len(c) = 1 THEN (IF c[1] = 0 THEN b ELSE a)
  ELSE [k \in DOMAIN c |-> IF c[k] = 0 THEN b[k] ELSE a[k]]
visitSelectInst(v) == executeSelectInst(v[1], v[2], v[3])

(* What an atomic read-modify-write stores.                                   *)
RMWResult(op, old, val, w) ==
  LET s(n) == Signed(n, 2^w)
  IN  CASE op = "xchg" -> val
        [] op \in {"add", "sub", "and", "or", "xor"} -> IntBinary(op, old, val, w)
        [] op = "nand" -> 2^w - 1 - IntBinary("and", old, val, w)
        [] op = "max"  -> IF s(old) > s(val) THEN old ELSE val
        [] op = "min"  -> IF s(old) < s(val) THEN old ELSE val
        [] op = "umax" -> Max({old, val})
        [] op = "umin" -> Min({old, val})

(* ---------------------------------- shifts -------------------------------- *)

(* NextPowerOf2 of the library: the least one above n.                        *)
PowersOfTwo == {2^j : j \in 0 .. 20}
NextPowerOf2(n) == CHOOSE p \in PowersOfTwo : p > n /\ \A q \in PowersOfTwo : q > n => p <= q

(* Too large an amount is cut down to the bits that a smaller one needs.      *)
getShiftAmount(n, w) == IF n < w THEN n ELSE n % NextPowerOf2(w - 1)

(* One lane, by an amount the code gives the APInt.                           *)
ShiftBy(f, a, n, w) ==
  CASE f = "shl"  -> (a * 2^n) % 2^w
    [] f = "lshr" -> a \div 2^n
    [] f = "ashr" -> (Signed(a, 2^w) \div 2^n) % 2^w

ShiftOps == {"shl", "lshr", "ashr"}
visitShift(i, v) ==
  [k \in DOMAIN v[1] |->
     ShiftBy(i.f, v[1][k], getShiftAmount(v[2][k], i.ty.w), i.ty.w)]

(* ---------------------------------- casts --------------------------------- *)

(* One lane of type sty becomes one of type dty.                              *)
Trunc(v, dm) == v % dm
SExt(v, sm, dm) == Signed(v, sm) % dm
executeTruncInst(v, dty) == [k \in DOMAIN v |-> Trunc(v[k], 2^dty.w)]
executeSExtInst(v, sty, dty) == [k \in DOMAIN v |-> SExt(v[k], 2^sty.w, 2^dty.w)]
executeZExtInst(v) == v

(* RoundDoubleToAPInt keeps the low bits; the numbers are integers already.   *)
executeFPToIntInst(v, dty) == [k \in DOMAIN v |-> v[k].val % 2^dty.w]
executeUIToFPInst(v) == [k \in DOMAIN v |-> Num(v[k])]
executeSIToFPInst(v, sty) == [k \in DOMAIN v |-> Num(Signed(v[k], 2^sty.w))]
executeFPResize(v) == v         \* fptrunc and fpext

executePtrToIntInst(v, dty) == <<v[1] % 2^dty.w>>
executeIntToPtrInst(v, dty) == <<v[1] % 2^dty.w>>     \* zextOrTrunc

(* A bit cast of integer lanes: `Ratio` narrow ones make up one wide one, the *)
(* first being its low end on a little-endian target.                         *)
LaneShift(j, ratio, w, little) == IF little THEN j * w ELSE (ratio - 1 - j) * w
JoinLanes(v, ratio, w, little) ==
  [i \in 1 .. Len(v) \div ratio |->
     FoldSet(LAMBDA j, acc : acc + v[(i - 1) * ratio + j + 1] * 2^LaneShift(j, ratio, w, little),
             0, 0 .. ratio - 1)]
SplitLanes(v, ratio, w, little) ==
  [i \in 1 .. Len(v) * ratio |->
     LET j == (i - 1) % ratio
     IN  (v[(i - 1) \div ratio + 1] \div 2^LaneShift(j, ratio, w, little)) % 2^w]
executeBitCastInst(v, sty, dty, little) ==
  IF sty.kind # "int" \/ dty.kind # "int" THEN v      \* pointers, equal floats
  ELSE IF sty.w < dty.w THEN JoinLanes(v, dty.w \div sty.w, sty.w, little)
  ELSE SplitLanes(v, sty.w \div dty.w, dty.w, little)

CastOps == {"trunc", "sext", "zext", "fptrunc", "fpext", "fptoui", "fptosi", "uitofp",
            "sitofp", "ptrtoint", "inttoptr", "bitcast"}
visitCast(i, v) ==
  CASE i.f = "trunc"    -> executeTruncInst(v[1], i.to)
    [] i.f = "sext"     -> executeSExtInst(v[1], i.ty, i.to)
    [] i.f = "zext"     -> executeZExtInst(v[1])
    [] i.f \in {"fptrunc", "fpext"} -> executeFPResize(v[1])
    [] i.f \in {"fptoui", "fptosi"} -> executeFPToIntInst(v[1], i.to)
    [] i.f = "uitofp"   -> executeUIToFPInst(v[1])
    [] i.f = "sitofp"   -> executeSIToFPInst(v[1], i.ty)
    [] i.f = "ptrtoint" -> executePtrToIntInst(v[1], i.to)
    [] i.f = "inttoptr" -> executeIntToPtrInst(v[1], i.to)
    [] i.f = "bitcast"  -> executeBitCastInst(v[1], i.ty, i.to, i.little)

(* ---------------------------- vectors, aggregates ------------------------- *)

(* An index that is out of range leaves an empty value, GenericValue(), which *)
(* reads as zero.                                                             *)
visitExtractElementInst(v) ==
  LET k == v[2][1] + 1 IN <<IF k <= Len(v[1]) THEN v[1][k] ELSE 0>>
visitInsertElementInst(v) == [v[1] EXCEPT ![v[3][1] + 1] = v[2][1]]
visitShuffleVectorInst(v) == [k \in DOMAIN v[3] |-> (v[1] \o v[2])[v[3][k] + 1]]

(* `path` are the indices, from the outermost in.                             *)
Member(agg, path) == FoldLeft(LAMBDA a, k : a[k + 1], agg, path)
visitExtractValueInst(i, v) == Member(v[1], i.path)
visitInsertValueInst(i, v) ==
  LET n == Len(i.path)
      new[k \in 0 .. n] ==
        IF k = n THEN v[2]
        ELSE [Member(v[1], SubSeq(i.path, 1, k)) EXCEPT ![i.path[k + 1] + 1] = new[k + 1]]
  IN  new[0]

(* ----------------------------- constant expressions ----------------------- *)

(* getConstantExprValue: as the instructions, but that shifts do not cut down *)
(* their amount.                                                              *)
executeCmpInst(i, v) ==
  IF i.f = "icmp" THEN executeICMP(i.pred, v[1], v[2], i.ty)
  ELSE executeFCMP(i.pred, v[1], v[2])
ConstantBinary(i, v) ==
  CASE i.f \in ShiftOps -> <<ShiftBy(i.f, v[1][1], v[2][1], i.ty.w)>>
    [] i.f \in FloatOps -> <<FloatBinary(i.f, v[1][1], v[2][1])>>
    [] OTHER            -> <<IntBinary(i.f, v[1][1], v[2][1], i.ty.w)>>
getConstantExprValue(i, v) ==
  CASE i.f \in CastOps -> visitCast(i, v)
    [] i.f \in {"icmp", "fcmp"} -> executeCmpInst(i, v)
    [] i.f = "select"  -> executeSelectInst(v[1], v[2], v[3])
    [] OTHER           -> ConstantBinary(i, v)

(* visit: the value of instruction i, its operands being v.                   *)
InstructionValue(i, v) ==
  CASE i.f = "icmp"   -> visitICmpInst(i, v)
    [] i.f = "fcmp"   -> visitFCmpInst(i, v)
    [] i.f \in IntOps \cup FloatOps -> visitBinaryOperator(i, v)
    [] i.f = "select" -> visitSelectInst(v)
    [] i.f \in ShiftOps -> visitShift(i, v)
    [] i.f \in CastOps  -> visitCast(i, v)
    [] i.f = "extractelement" -> visitExtractElementInst(v)
    [] i.f = "insertelement"  -> visitInsertElementInst(v)
    [] i.f = "shufflevector"  -> visitShuffleVectorInst(v)
    [] i.f = "extractvalue"   -> visitExtractValueInst(i, v)
    [] i.f = "insertvalue"    -> visitInsertValueInst(i, v)
===============================================================================
