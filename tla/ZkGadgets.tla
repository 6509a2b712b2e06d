----------------------------- MODULE ZkGadgets -----------------------------
(***************************************************************************)
(* The gadgets of the zero-knowledge circuits (circuits/src/zk_gadgets).   *)
(*                                                                         *)
(* A gadget allocates variables, assigns them from its inputs and adds     *)
(* constraints.  It is modelled by an operator that returns what it assigns*)
(* (val, or the gadget's own names) and ok, true when the assignment       *)
(* satisfies every constraint the gadget adds.  Gadgets that only multiply *)
(* and add return a scalar.  The Multiprover operators model the variants  *)
(* the two-party prover runs, whose bits come from to_bits_le.             *)
(***************************************************************************)
EXTENDS MpcGadgets

-----------------------------------------------------------------------------
(* gates.rs, select.rs *)

Or(a, b) == FSub(FAdd(a, b), FMul(a, b))
MultiproverOr(a, b) == FSub(FAdd(a, b), FMul(a, b))
And(a, b) == FMul(a, b)
constrain_binary(x) == FMul(x, FSub(1, x)) = 0

CondSelect(a, b, selector) == FAdd(FMul(a, selector), FMul(b, FSub(1, selector)))
MultiproverCondSelect(a, b, selector) ==
    FAdd(FMul(a, selector), FMul(b, FSub(1, selector)))
CondSelectVector(a, b, selector) ==
    [i \in 1..Len(a) |-> CondSelect(a[i], b[i], selector)]
MultiproverCondSelectVector(a, b, selector) ==
    [i \in 1..Len(a) |-> MultiproverCondSelect(a[i], b[i], selector)]

-----------------------------------------------------------------------------
(* comparators.rs *)

EqZero(v) ==
    LET is_zero == IF v = 0 THEN 1 ELSE 0
        inverse == FInv(v)
    IN  [val |-> is_zero,
         ok |-> /\ FAdd(FSub(is_zero, 1), FMul(v, inverse)) = 0
                /\ FMul(v, is_zero) = 0]
Eq(a, b) == EqZero(FSub(a, b))
NotEqual(a, b) == LET z == EqZero(FSub(a, b)) IN [val |-> FSub(1, z.val), ok |-> z.ok]
EqVec(a, b) ==
    LET differs == [i \in 1..Len(a) |-> NotEqual(a[i], b[i])]
        z == EqZero(FSum([i \in 1..Len(a) |-> differs[i].val]))
    IN  [val |-> z.val, ok |-> z.ok /\ \A i \in 1..Len(a) : differs[i].ok]
constrain_eq_vec(a, b) == \A i \in 1..Len(a) : a[i] = b[i]

\* The value is rebuilt from its d low bits: equal to itself exactly when it
\* has no other bits, that is when it is not the image of a negative number
bit_decompose_reconstruct(x, d) == scalar_from_bits_le(scalar_to_bits_le(x, d))
GreaterThanEqZero(x, d) == EqZero(FSub(bit_decompose_reconstruct(x, d), x))
constrain_greater_than_zero(x, d) == bit_decompose_reconstruct(x, d) = x
GreaterThanEq(a, b, d) == GreaterThanEqZero(FSub(a, b), d)
constrain_greater_than_eq(a, b, d) == constrain_greater_than_zero(FSub(a, b), d)
LessThan(a, b, d) ==
    LET ge == GreaterThanEq(a, b, d) IN [val |-> FSub(1, ge.val), ok |-> ge.ok]
constrain_less_than(a, b, d) ==
    LET lt == LessThan(a, b, d) IN lt.ok /\ lt.val = 1

Multiprover_bit_decompose_reconstruct(x, d) == scalar_from_bits_le(to_bits_le(x, d))
Multiprover_constrain_greater_than_zero(x, d) ==
    Multiprover_bit_decompose_reconstruct(x, d) = x
Multiprover_constrain_greater_than_eq(a, b, d) ==
    Multiprover_constrain_greater_than_zero(FSub(a, b), d)

-----------------------------------------------------------------------------
(* bits.rs, arithmetic.rs *)

ToBits(a, d) ==
    LET bits == scalar_to_bits_le(a, d)
    IN  [bits |-> bits,
         ok |-> FSum([i \in 1..d |-> FMul(2^(i - 1) % P, bits[i])]) = a]
MultiproverToBits(a, d) ==
    LET bits == to_bits_le(a, d)
    IN  [bits |-> bits,
         ok |-> FSum([i \in 1..d |-> FMul(2^(i - 1) % P, bits[i])]) = a]

\* A division by zero assigns zeros and leaves the circuit unsatisfied
Divided(a, b, q, r, d) ==
    [q |-> q, r |-> r,
     ok |-> FSub(FSub(a, FMul(b, q)), r) = 0 /\ constrain_less_than(r, b, d)]
DivRem(a, b, d) == Divided(a, b, IF b = 0 THEN 0 ELSE a \div b, IF b = 0 THEN 0 ELSE a % b, d)

Exp(x, alpha) ==
    LET exp[k \in Nat] == IF k = 0 THEN 1
                          ELSE IF k = 1 THEN x
                          ELSE LET r == exp[k \div 2]
                               IN  IF k % 2 = 0 THEN FMul(r, r) ELSE FMul(FMul(r, r), x)
    IN  exp[alpha]
MultiproverExp(x, alpha) ==
    LET exp[k \in Nat] == IF k = 0 THEN 1
                          ELSE IF k = 1 THEN x
                          ELSE LET r == exp[k \div 2]
                               IN  IF k % 2 = 0 THEN FMul(r, r) ELSE FMul(FMul(r, r), x)
    IN  exp[alpha]
generate_exp_constraints(x, y, alpha) == Exp(x, alpha) = y

ExpBitsZero(bits) == EqZero(FSum(bits)).val

\* Square and multiply over the bits of the exponent, from the most
\* significant down, with one in place of the power while all of them are zero
exp_private_impl(x, bits) ==
    LET rec[i \in 1..(Len(bits) + 1)] ==
            IF i > Len(bits) THEN 1
            ELSE LET r == rec[i + 1]
                     doubled == FMul(r, r)
                     odd_selection == CondSelect(FMul(x, doubled), doubled, bits[i])
                 IN  CondSelect(1, odd_selection, ExpBitsZero(SubSeq(bits, i, Len(bits))))
    IN  rec[1]
exp_private_fixed_base_impl(x, bits) ==
    LET rec[i \in 1..(Len(bits) + 1)] ==
            IF i > Len(bits) THEN 1
            ELSE LET r == rec[i + 1]
                     doubled == FMul(r, r)
                     odd_selection == CondSelect(FMul(x, doubled), doubled, bits[i])
                 IN  CondSelect(1, odd_selection, ExpBitsZero(SubSeq(bits, i, Len(bits))))
    IN  rec[1]
exp_private(x, alpha, d) ==
    LET b == ToBits(alpha, d) IN [val |-> exp_private_impl(x, b.bits), ok |-> b.ok]
exp_private_fixed_base(x, alpha, d) ==
    LET b == ToBits(alpha, d) IN [val |-> exp_private_fixed_base_impl(x, b.bits), ok |-> b.ok]

\* elgamal.rs: (generator^r, pub_key^r * plaintext)
ElGamalEncrypt(generator, randomness, plaintext, pub_key, d) ==
    LET c1 == exp_private_fixed_base(generator, randomness, d)
        secret == exp_private(pub_key, randomness, d)
    IN  [c1 |-> c1.val, c2 |-> FMul(secret.val, plaintext), ok |-> c1.ok /\ secret.ok]
============================================================================
