---------------------------- MODULE FixedPoint -----------------------------
(***************************************************************************)
(* Fixed point numbers (circuits/src/zk_gadgets/fixed_point.rs): a rational*)
(* is held as the scalar it becomes when multiplied by 2^Precision.  Four  *)
(* copies of the arithmetic exist in the code: on native values (Fp), on   *)
(* circuit variables (FpVar), on shared values (AuthFp) and on the         *)
(* variables of a collaborative proof (AuthFpVar).                         *)
(*                                                                         *)
(* A float is modelled as a rational num / 2^FloatBits.                    *)
(***************************************************************************)
EXTENDS ZkGadgets

CONSTANTS Precision,     \* DEFAULT_PRECISION
          FloatBits      \* fractional bits of the floats given, more than Precision

\* The shift is a nonzero scalar
ASSUME PrecisionFits == Precision \in 0..(ScalarMaxBits - 1) /\ FloatBits \in 1..ScalarMaxBits

TWO_TO_M == scalar_2_to_m(Precision)
TWO_TO_NEG_M == FInv(TWO_TO_M)

\* A float scaled by 2^Precision: exact is what the conversions assert
Shifted(num) == [floor |-> (num * 2^Precision) \div 2^FloatBits,
                 exact |-> (num * 2^Precision) % 2^FloatBits = 0]

-----------------------------------------------------------------------------
(* Native values *)
FpFromInteger(v) == FMul(v, TWO_TO_M)
from_f32_round_down(num) == Shifted(num).floor % P
FpFromF32(num) == [repr |-> Shifted(num).floor % P, ok |-> Shifted(num).exact]
FpFloor(x) == bigint_to_scalar(x \div 2^Precision)
FpAdd(x, y) == FAdd(x, y)
FpAddScalar(x, n) == FAdd(x, FMul(TWO_TO_M, n))
FpMulScalar(x, n) == FMul(x, n)
FpNeg(x) == FNeg(x)
FpSub(x, y) == FpAdd(x, FpNeg(y))
FpSubScalar(x, n) == FpAddScalar(x, FNeg(n))
ScalarSubFp(n, x) == FpAddScalar(FpNeg(x), n)

-----------------------------------------------------------------------------
(* Circuit variables *)
FpVarCommitWitness(num) == [repr |-> Shifted(num).floor % P, ok |-> Shifted(num).exact]
FpVarCommitPublic(num) == [repr |-> Shifted(num).floor % P, ok |-> Shifted(num).exact]

\* The division is constrained with the precision as its width
QuotientOf(d) == [val |-> d.q, ok |-> d.ok]
FpVarFloor(x) == QuotientOf(DivRem(x, TWO_TO_M, Precision))

shift_integer(n) == FMul(TWO_TO_M, n)
FpVarConstraintEqual(x, y) == FSub(x, y) = 0
FpVarEqual(x, y) == Eq(x, y)
FpVarConstraintEqualInteger(x, n) == FpVarConstraintEqual(x, shift_integer(n))
FpVarEqualInteger(x, n) == FpVarEqual(x, shift_integer(n))

\* The product of two representations carries 2^Precision twice and is
\* multiplied by the inverse of one: exact when the product is divisible by it,
\* an unrelated scalar otherwise
FpVarMulFixedPoint(x, y) == FMul(TWO_TO_NEG_M, FMul(x, y))
FpVarMulInteger(x, n) == FMul(x, n)
FpVarAdd(x, y) == FAdd(x, y)
AddUnshifted(x, n) == FAdd(x, n)
FpVarAddInteger(x, n) == FAdd(x, FMul(n, TWO_TO_M))
FpVarNeg(x) == FMul(x, FNeg(1))
FpVarSub(x, y) == FSub(x, y)
IntegerSubFpVar(n, x) == FpVarAddInteger(FpVarNeg(x), n)
FpVarSubInteger(x, n) == FSub(x, FMul(TWO_TO_M, n))

-----------------------------------------------------------------------------
(* Shared values *)
AuthFpFromInteger(v) == FMul(v, TWO_TO_M)
AuthFpFromPublicF32(num) == [repr |-> Shifted(num).floor % P, ok |-> Shifted(num).exact]
AuthFpAsInteger(x) == shift_right(x, Precision)
AuthFpMul(x, y) == FMul(TWO_TO_NEG_M, FMul(x, y))
AuthFpMulScalar(x, n) == FMul(x, n)
AuthFpAdd(x, y) == FAdd(x, y)
AuthFpAddScalar(x, n) == FAdd(x, FMul(TWO_TO_M, n))
AuthFpNeg(x) == FNeg(x)
AuthFpSub(x, y) == AuthFpAdd(x, AuthFpNeg(y))
AuthFpSubScalar(x, n) == AuthFpAddScalar(x, FNeg(n))

-----------------------------------------------------------------------------
(* Variables of a collaborative proof *)
AuthFpVarConstrainEqual(x, y) == FSub(x, y) = 0
AuthFpVarConstrainEqualInteger(x, n) == FSub(x, FMul(TWO_TO_M, n)) = 0
AuthFpVarMulFixedPoint(x, y) == FMul(TWO_TO_NEG_M, FMul(x, y))
AuthFpVarMulInteger(x, n) == FMul(x, n)
AuthFpVarAdd(x, y) == FAdd(x, y)
AuthFpVarAddInteger(x, n) == FAdd(x, FMul(TWO_TO_M, n))
AuthFpVarNeg(x) == FMul(x, FNeg(1))
AuthFpVarSub(x, y) == AuthFpVarAdd(x, AuthFpVarNeg(y))
AuthFpVarSubInteger(x, n) == AuthFpVarAddInteger(x, FNeg(n))
============================================================================
