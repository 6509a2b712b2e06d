------------------------------- MODULE Field -------------------------------
(***************************************************************************)
(* The prime field every circuit of the relayer computes in, and the       *)
(* conversions between its elements, integers and bits                     *)
(* (crypto/src/fields.rs, circuits/src/lib.rs).                            *)
(*                                                                         *)
(* The program uses the scalar field of Ristretto, whose order lies just   *)
(* above 2^252.  P is that order: a small prime just above a power of two  *)
(* keeps the two features the code relies on, that a negative number is a  *)
(* large scalar and that the order is not itself a power of two.           *)
(***************************************************************************)
EXTENDS Integers, Sequences, FiniteSets, Functions

CONSTANTS P,              \* the order of the scalar field
          ScalarMaxBits   \* SCALAR_MAX_BITS, the bit length of P

ASSUME FieldOrder ==
    /\ P \in Nat \ {0, 1} /\ \A d \in 2..(P - 1) : P % d # 0
    /\ 2^(ScalarMaxBits - 1) < P /\ P < 2^ScalarMaxBits

\* What the proofs need of exponentiation, of which the provers know nothing
ASSUME PowersOfTwo ==
    /\ ScalarMaxBits \in Nat /\ 2^0 = 1
    /\ \A n \in 0..ScalarMaxBits : 2^(n + 1) = 2 * 2^n

Scalar == 0..(P - 1)

FAdd(a, b) == (a + b) % P
FSub(a, b) == (a - b) % P
FMul(a, b) == (a * b) % P
FNeg(a) == (-a) % P

\* The inverse of zero is zero, as in the curve library
FInv(a) == IF \E b \in Scalar : FMul(a, b) = 1
           THEN CHOOSE b \in Scalar : FMul(a, b) = 1 ELSE 0

\* F(v), with v evaluated once and first.  Apply is the same for a sequence
\* given by a function, of which TLC would evaluate the elements one by one.
With(v, F(_)) == CHOOSE result \in {F(x) : x \in {v}} : TRUE
Apply(F(_), s) == CHOOSE result \in {F(t) : t \in {SubSeq(s, 1, Len(s))}} : TRUE

FSum(s) == SumFunction(s) % P
FProduct(s) ==
    LET product[i \in 0..Len(s)] == IF i = 0 THEN 1 ELSE FMul(product[i - 1], s[i])
    IN  product[Len(s)]

\* A power as repeated multiplication: the reference for every gadget that
\* exponentiates by squaring
PowRef(x, n) == FProduct([i \in 1..n |-> x])

scalar_2_to_m(m) == IF m >= ScalarMaxBits THEN 0 ELSE 2^m % P

\* Negative integers become large scalars
bigint_to_scalar(v) == v % P

\* The low d bits of a scalar or of an integer, little endian
scalar_to_bits_le(a, d) == [i \in 1..d |-> (a \div 2^(i - 1)) % 2]
bigint_to_scalar_bits(v, d) == [i \in 1..d |-> (v \div 2^(i - 1)) % 2]

\* Horner's rule from the most significant bit down
scalar_from_bits_le(bits) ==
    LET d == Len(bits)
        value[i \in 0..d] == IF i = 0 THEN 0 ELSE FAdd(FMul(value[i - 1], 2), bits[d - i + 1])
    IN  value[d]
============================================================================
