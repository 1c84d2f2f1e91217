----------------------------- MODULE MCEvaluator -----------------------------
(***************************************************************************)
(* The folding queries for Evaluator, at 8-bit int64, 4-bit int32, 6-bit  *)
(* Smi and 5-bit double significand. The operands are the ends of every   *)
(* representation's range and the values just past them, 0, 1, -1, shift *)
(* amounts up to and past the word size, and a non-integer constant. The  *)
(* ToIntegerConstant values are a constant, or one Unbox of a constant (an *)
(* Unbox's input is a tagged value, so chains are no longer), with         *)
(* integral, fractional and range-end doubles.                             *)
(***************************************************************************)
EXTENDS Evaluator

IntValues == {-128, -127, -65, -64, -9, -8, -1, 0, 1, 2, 3, 7, 8, 9, 15, 16,
              63, 64, 127}
Operands == IntValues \cup {NonInteger}
Reps == {"Tagged", "Int32", "Uint32", "Int64"}
BinaryOps == {"ADD", "SUB", "MUL", "TRUNCDIV", "MOD", "SHL", "SHR", "USHR",
              "BIT_AND", "BIT_OR", "BIT_XOR", "DIV"}

\* Doubles, as twice their value: 2.5, -0.5, 3.0, -17.0, 120.0, -128.0,
\* 128.0 and 256.0, all exact at a 5-bit significand.
DoubleHalves == {5, -1, 6, -34, 240, -256, 256, 512}
Leaves == [kind : {"int"}, v : {-128, -1, 0, 7, 16, 127}]
          \cup [kind : {"double"}, h : DoubleHalves]
          \cup [kind : {"other"}]
Chains == {<< >>} \cup {<< r >> : r \in {"Double", "Int64", "Uint32", "Int32"}}

MCQueries ==
  [kind : {"binary"}, left : Operands, right : Operands, op : BinaryOps,
   truncating : BOOLEAN, rep : Reps]
  \cup [kind : {"unary"}, value : Operands, op : {"NEGATE", "BIT_NOT"},
        rep : Reps]
  \cup [kind : {"bitlength"}, value : Operands, rep : Reps]
  \cup [kind : {"tointeger"}, value : [unboxes : Chains, leaf : Leaves]]
=============================================================================
