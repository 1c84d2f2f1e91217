------------------------------ MODULE Evaluator ------------------------------
(***************************************************************************)
(* The integer constant folding of the optimizing compiler                *)
(* (src/runtime/vm/compiler/backend/evaluator.cc).                         *)
(*                                                                         *)
(* The evaluator is a set of pure functions. Each folding request is a     *)
(* query the model answers in one step, so a run enumerates every query of *)
(* the chosen input sets. Widths are scaled: an int64 has IntBits bits, an *)
(* int32 Int32Bits (= IntBits / 2, as 32 = 64 / 2), a Smi SmiBits bits and *)
(* a sign bit, and a double a DoublePrecision-bit significand, fewer than  *)
(* the IntBits - 1 value bits of an int, as 53 < 63.                       *)
(*                                                                         *)
(* Dart's integer operations (Integer::ArithmeticOp, ShiftOp, BitOp in    *)
(* object.cc), Utils and FlowGraph::IsConstantRepresentable are not in    *)
(* this extract; they are modelled from the Dart semantics they implement. *)
(***************************************************************************)
EXTENDS Integers, Sequences, Bitwise

CONSTANTS
  IntBits,          \* kBitsPerInt64
  Int32Bits,        \* kBitsPerInt32
  SmiBits,          \* compiler::target::kSmiBits
  DoublePrecision,  \* the significand bits of a double (53)
  Null,             \* Integer::null()
  NonInteger,       \* a constant that is not an Integer
  Pending,          \* the query is not answered yet
  Queries           \* the folding requests a run enumerates

ASSUME /\ IntBits = 2 * Int32Bits /\ SmiBits + 1 < IntBits
       /\ DoublePrecision < IntBits - 1

MinInt == -(2 ^ (IntBits - 1))
MaxInt == 2 ^ (IntBits - 1) - 1
Int64Range == MinInt .. MaxInt

\* The signed b-bit value congruent to v modulo 2^b.
Wrap(v, b) == LET m == v % (2 ^ b) IN IF m >= 2 ^ (b - 1) THEN m - 2 ^ b ELSE m

\* v as an unsigned 64-bit word.
Unsigned(v) == v % (2 ^ IntBits)

AbsVal(v) == IF v < 0 THEN -v ELSE v

\* C++ truncating division and remainder.
TruncDiv(a, b) == LET q == AbsVal(a) \div AbsVal(b)
                  IN IF (a < 0) = (b < 0) THEN q ELSE -q
Rem(a, b) == a - b * TruncDiv(a, b)

(***************************************************************************)
(* Dart integer semantics.                                                 *)
(***************************************************************************)
\* Integer::ArithmeticOp: 64-bit wrapping arithmetic, ~/ truncates, % is
\* the Euclidean remainder.
ArithmeticOp(op, l, r) ==
  CASE op = "ADD"      -> Wrap(l + r, IntBits)
    [] op = "SUB"      -> Wrap(l - r, IntBits)
    [] op = "MUL"      -> Wrap(l * r, IntBits)
    [] op = "TRUNCDIV" -> Wrap(TruncDiv(l, r), IntBits)
    [] op = "MOD"      -> IF Rem(l, r) < 0 THEN Rem(l, r) + AbsVal(r)
                          ELSE Rem(l, r)

\* Integer::ShiftOp for a non-negative shift: shifting left by 64 or more
\* gives 0, an arithmetic right shift saturates at 63, a logical one gives
\* 0 from 64 on.
ShiftOp(op, l, r) ==
  CASE op = "SHL"  -> IF r >= IntBits THEN 0 ELSE Wrap(l * 2 ^ r, IntBits)
    [] op = "SHR"  -> l \div 2 ^ (IF r >= IntBits - 1 THEN IntBits - 1 ELSE r)
    [] op = "USHR" -> IF r >= IntBits THEN 0
                      ELSE Wrap(Unsigned(l) \div 2 ^ r, IntBits)

\* Integer::BitOp on the two's complement words.
BitOp(op, l, r) ==
  CASE op = "BIT_AND" -> Wrap(Unsigned(l) & Unsigned(r), IntBits)
    [] op = "BIT_OR"  -> Wrap(Unsigned(l) | Unsigned(r), IntBits)
    [] op = "BIT_XOR" -> Wrap(Unsigned(l) ^^ Unsigned(r), IntBits)

\* Utils::BitLength: the bits needed without the sign.
RECURSIVE BitLength(_)
BitLength(v) ==
  IF v < 0 THEN BitLength(-v - 1)
  ELSE IF v = 0 THEN 0 ELSE 1 + BitLength(v \div 2)

\* FlowGraph::IsConstantRepresentable(value, rep, tagged_value_must_be_smi
\* = true).
IsConstantRepresentable(v, rep) ==
  CASE rep = "Tagged" -> -(2 ^ SmiBits) <= v /\ v < 2 ^ SmiBits
    [] rep = "Int32"  -> -(2 ^ (Int32Bits - 1)) <= v /\ v < 2 ^ (Int32Bits - 1)
    [] rep = "Uint32" -> 0 <= v /\ v < 2 ^ Int32Bits
    [] rep = "Int64"  -> TRUE

\* Utils::ShiftLeftWithTruncation(v, k): the shift done on uint64_t.
ShiftLeftWithTruncation(v, k) == Wrap(v * 2 ^ k, IntBits)

\* static_cast<double>(n): n rounded to DoublePrecision significant bits,
\* ties to even.
ToDouble(n) ==
  LET a == AbsVal(n)
      s == IF BitLength(a) > DoublePrecision
           THEN 2 ^ (BitLength(a) - DoublePrecision) ELSE 1
      q == a \div s
      up == 2 * (a % s) > s \/ (2 * (a % s) = s /\ q % 2 = 1)
      r == (IF up THEN q + 1 ELSE q) * s
  IN IF n < 0 THEN -r ELSE r

\* Utils::SafeDoubleToInt<int64_t>(v) of the double h / 2: saturates at
\* the ends of the int64 range, else truncates.
SafeDoubleToInt(h) ==
  CASE h >= 2 * ToDouble(MaxInt) -> MaxInt
    [] h <= 2 * ToDouble(MinInt) -> MinInt
    [] OTHER -> TruncDiv(h, 2)

(***************************************************************************)
(* evaluator.cc.                                                           *)
(***************************************************************************)
\* BinaryIntegerEvaluateRaw: a zero divisor, a negative shift and / are
\* left to run time.
BinaryIntegerEvaluateRaw(l, r, op) ==
  CASE op \in {"TRUNCDIV", "MOD"} /\ r = 0 -> Null
    [] op \in {"TRUNCDIV", "MOD", "ADD", "SUB", "MUL"} -> ArithmeticOp(op, l, r)
    [] op \in {"SHL", "SHR", "USHR"} -> IF r >= 0 THEN ShiftOp(op, l, r) ELSE Null
    [] op \in {"BIT_AND", "BIT_OR", "BIT_XOR"} -> BitOp(op, l, r)
    [] op = "DIV" -> Null

\* UnaryIntegerEvaluateRaw: negation is a multiplication by -1.
UnaryIntegerEvaluateRaw(v, op) ==
  CASE op = "NEGATE"  -> ArithmeticOp("MUL", v, -1)
    [] op = "BIT_NOT" -> -v - 1

\* BitLengthEvaluateRaw.
BitLengthEvaluateRaw(v) == BitLength(v)

\* kTruncateBits without the sign bit.
TruncateBitsNoSignBit == IntBits - SmiBits

\* kTruncateBits = kBitsPerInt64 - (kSmiBits + 1).
TruncateBits == IntBits - (SmiBits + 1)

\* Evaluator::TruncateTo(v, r): sign-extends the low bits by shifting left
\* and back.
TruncateTo(v, r) ==
  CASE r = "Tagged" ->
         ShiftLeftWithTruncation(v, TruncateBits) \div 2 ^ TruncateBits
    [] r = "Int32" ->
         ShiftLeftWithTruncation(v, Int32Bits) \div 2 ^ Int32Bits
    [] r = "Uint32" -> Unsigned(v) & (2 ^ Int32Bits - 1)
    [] r = "Int64" -> v

\* The tail shared by the evaluators: a result that does not fit the
\* representation is dropped (a non-truncating operation would deoptimize
\* on overflow), or truncated when the operation truncates.
Folded(raw, truncating, rep) ==
  IF raw = Null THEN Null
  ELSE IF truncating THEN TruncateTo(raw, rep)
  ELSE IF IsConstantRepresentable(raw, rep) THEN raw
  ELSE Null

IsInteger(x) == x # NonInteger

\* Evaluator::BinaryIntegerEvaluate(left, right, token_kind, is_truncating,
\* representation).
BinaryIntegerEvaluate(l, r, op, truncating, rep) ==
  IF ~IsInteger(l) \/ ~IsInteger(r) THEN Null
  ELSE Folded(BinaryIntegerEvaluateRaw(l, r, op), truncating, rep)

\* Evaluator::UnaryIntegerEvaluate(value, token_kind, representation).
UnaryIntegerEvaluate(v, op, rep) ==
  IF ~IsInteger(v) THEN Null
  ELSE Folded(UnaryIntegerEvaluateRaw(v, op), FALSE, rep)

\* Evaluator::BitLengthEvaluate(value, representation).
BitLengthEvaluate(v, rep) ==
  IF ~IsInteger(v) THEN Null
  ELSE Folded(BitLengthEvaluateRaw(v), FALSE, rep)
(***************************************************************************)
(* Evaluator::ToIntegerConstant. A value is [unboxes, leaf]: the chain of *)
(* Unbox definitions it goes through, outermost first, and what the       *)
(* innermost one binds to: [kind |-> "int", v], [kind |-> "double", h] for *)
(* the double h / 2, or [kind |-> "other"] for a definition that is       *)
(* neither a constant nor an Unbox.                                        *)
(***************************************************************************)
NotConstant == [ok |-> FALSE, result |-> 0]

\* *result = static_cast<int64_t>(value) with no saturation.
DoubleToIntUnsafe(h) == TruncDiv(h, 2)

\* *result = Utils::SafeDoubleToInt<int64_t>(double_constant.value()).
DoubleToInt(h) == SafeDoubleToInt(h)

\* A double constant is an integer constant when the int it converts to
\* converts back to the same double.
DoubleConstant(h) ==
  [ok |-> 2 * ToDouble(DoubleToInt(h)) = h, result |-> DoubleToInt(h)]

\* The leaf of the chain, BindsToConstant() or not.
LeafConstant(leaf) ==
  CASE leaf.kind = "int"    -> [ok |-> TRUE, result |-> leaf.v]
    [] leaf.kind = "double" -> DoubleConstant(leaf.h)
    [] OTHER                -> NotConstant

\* Unboxes to int64 and to double pass the constant through.
PassesThroughInt64Only(rep) == rep = "Int64"

PassesThrough(rep) == rep \in {"Double", "Int64"}

\* Unbox<Uint32> of an integer constant truncates it.
UnboxedUint32(r) ==
  IF r.ok THEN [ok |-> TRUE, result |-> TruncateTo(r.result, "Uint32")]
  ELSE NotConstant

RECURSIVE ToIntegerConstant(_)
ToIntegerConstant(value) ==
  IF value.unboxes = << >> THEN LeafConstant(value.leaf)
  ELSE IF PassesThrough(Head(value.unboxes))
  THEN ToIntegerConstant([value EXCEPT !.unboxes = Tail(@)])
  ELSE IF Head(value.unboxes) = "Uint32"
  THEN UnboxedUint32(ToIntegerConstant([value EXCEPT !.unboxes = Tail(@)]))
  ELSE NotConstant

(***************************************************************************)
(* The folding requests. query is one call of an evaluator function and   *)
(* answer what it returns.                                                 *)
(***************************************************************************)
VARIABLES query, answer

vars == << query, answer >>

FoldBinary ==
  /\ query.kind = "binary" /\ answer = Pending
  /\ answer' = BinaryIntegerEvaluate(query.left, query.right, query.op,
                                     query.truncating, query.rep)
  /\ UNCHANGED query

FoldUnary ==
  /\ query.kind = "unary" /\ answer = Pending
  /\ answer' = UnaryIntegerEvaluate(query.value, query.op, query.rep)
  /\ UNCHANGED query

FoldBitLength ==
  /\ query.kind = "bitlength" /\ answer = Pending
  /\ answer' = BitLengthEvaluate(query.value, query.rep)
  /\ UNCHANGED query

FoldToInteger ==
  /\ query.kind = "tointeger" /\ answer = Pending
  /\ answer' = ToIntegerConstant(query.value)
  /\ UNCHANGED query

Init == query \in Queries /\ answer = Pending

Next == FoldBinary \/ FoldUnary \/ FoldBitLength \/ FoldToInteger

-----------------------------------------------------------------------------
(***************************************************************************)
(* Reference definitions, independent of the code's shift and cast tricks. *)
(***************************************************************************)
\* The values each representation holds.
RangeOf(rep) ==
  CASE rep = "Tagged" -> -(2 ^ SmiBits) .. 2 ^ SmiBits - 1
    [] rep = "Int32"  -> -(2 ^ (Int32Bits - 1)) .. 2 ^ (Int32Bits - 1) - 1
    [] rep = "Uint32" -> 0 .. 2 ^ Int32Bits - 1
    [] rep = "Int64"  -> Int64Range

\* v reduced modulo 2^width into the range of rep.
Reduced(v, rep) ==
  CASE rep = "Tagged" -> Wrap(v, SmiBits + 1)
    [] rep = "Int32"  -> Wrap(v, Int32Bits)
    [] rep = "Uint32" -> v % (2 ^ Int32Bits)
    [] rep = "Int64"  -> v

\* What folding an integer operation with Dart result d should give.
RefFold(d, truncating, rep) ==
  IF d = Null THEN Null
  ELSE IF truncating THEN Reduced(d, rep)
  ELSE IF d \in RangeOf(rep) THEN d ELSE Null

\* The Dart result of the query's operation, Null when it throws or is
\* not an integer operation.
RefResult(q) ==
  CASE q.kind = "binary" ->
         IF ~IsInteger(q.left) \/ ~IsInteger(q.right) \/ q.op = "DIV"
            \/ (q.op \in {"TRUNCDIV", "MOD"} /\ q.right = 0)
            \/ (q.op \in {"SHL", "SHR", "USHR"} /\ q.right < 0)
         THEN Null
         ELSE IF q.op \in {"SHL", "SHR", "USHR"} THEN ShiftOp(q.op, q.left, q.right)
         ELSE IF q.op \in {"BIT_AND", "BIT_OR", "BIT_XOR"}
         THEN BitOp(q.op, q.left, q.right)
         ELSE ArithmeticOp(q.op, q.left, q.right)
    [] q.kind = "unary" ->
         IF ~IsInteger(q.value) THEN Null
         ELSE IF q.op = "NEGATE" THEN Wrap(-q.value, IntBits) ELSE -q.value - 1
    [] q.kind = "bitlength" ->
         IF ~IsInteger(q.value) THEN Null ELSE BitLength(q.value)

\* The integer a value chain denotes, if any: the leaf's exact value, cut
\* to 32 unsigned bits by each Unbox<Uint32>; none through Unbox<Int32> or
\* from a non-integral double or a non-constant.
RECURSIVE Denotes(_)
Denotes(value) ==
  IF value.unboxes = << >>
  THEN CASE value.leaf.kind = "int" -> [ok |-> TRUE, result |-> value.leaf.v]
         [] value.leaf.kind = "double" /\ value.leaf.h % 2 = 0 ->
              [ok |-> TRUE, result |-> value.leaf.h \div 2]
         [] OTHER -> NotConstant
  ELSE LET inner == Denotes([value EXCEPT !.unboxes = Tail(@)]) IN
       CASE Head(value.unboxes) \in {"Double", "Int64"} -> inner
         [] Head(value.unboxes) = "Uint32" /\ inner.ok ->
              [ok |-> TRUE, result |-> inner.result % (2 ^ Int32Bits)]
         [] OTHER -> NotConstant

Spec == Init /\ [][Next]_vars

-----------------------------------------------------------------------------
\* Every answer is an int64, Integer::null(), or ToIntegerConstant's
\* (returned bool, *result) pair with an int64 result.
TypeOK ==
  IF query.kind = "tointeger"
  THEN answer \in {Pending} \cup [ok : BOOLEAN, result : Int64Range]
  ELSE answer \in {Pending, Null} \cup Int64Range

\* Each integer evaluator folds exactly when Dart's operation yields an
\* integer at compile time, and then to that integer reduced modulo the
\* representation's width when the operation truncates, or to that integer
\* when it fits, Integer::null() otherwise. TruncateTo's shifts must agree
\* with the modular reduction at every width.
FoldingCorrect ==
  query.kind \in {"binary", "unary", "bitlength"} /\ answer # Pending =>
    answer = RefFold(RefResult(query),
                     query.kind = "binary" /\ query.truncating, query.rep)

\* The leaf of a value chain is an int64 constant, or a double within the
\* int64 range.
LeafInRange(value) ==
  value.leaf.kind = "int"
  \/ (value.leaf.kind = "double" /\ value.leaf.h \div 2 \in MinInt .. MaxInt - 1)

\* ToIntegerConstant finds every integer constant whose leaf lies within
\* the int64 range: through Unbox<Int64>, Unbox<Double> and, truncated,
\* Unbox<Uint32>.
ToIntegerComplete ==
  query.kind = "tointeger" /\ answer # Pending
  /\ LeafInRange(query.value) /\ Denotes(query.value).ok
    => answer = Denotes(query.value)
=============================================================================
