---------------------------- MODULE MpcGadgets -----------------------------
(***************************************************************************)
(* The two-party computation gadgets (circuits/src/mpc_gadgets).           *)
(*                                                                         *)
(* A secret-shared scalar is modelled by the value it opens to.  What the  *)
(* gadgets open in between, and therefore compute, depends on the values   *)
(* the pre-processing source hands out: the source the handshake uses      *)
(* deals shares (0, 1) of every bit, scalar and inverse pair, so each opens*)
(* to one (integration-helpers/src/mpc_network/mocks.rs).  Comparisons are *)
(* correct only because the blinded openings wrap around P in a particular *)
(* way; the model keeps every opening in the field.                        *)
(***************************************************************************)
EXTENDS Field

CONSTANTS SignBits        \* 250 in less_than_zero: scalars below 2^SignBits are non-negative

ASSUME SignBitsFit == SignBits \in 0..ScalarMaxBits

\* What the source's shares of a bit, of a scalar and of an inverse pair open to
next_shared_bit == 1
next_shared_value == 1
next_shared_inverse_pair == [val |-> 1, inv |-> 1]

RandomBits(n) == [i \in 1..n |-> next_shared_bit]

-----------------------------------------------------------------------------
(* bits.rs *)

resize_bitvector_to_length(bits, n) ==
    [i \in 1..n |-> IF i <= Len(bits) THEN bits[i] ELSE 0]

bit_xor(a, b) == FSub(FAdd(a, b), FMul(2, FMul(a, b)))

\* The ripple-carry adder: sum bits and final carry
bit_add_impl(a, b, initial_carry) ==
    LET carry[i \in 0..Len(a)] ==
            IF i = 0 THEN initial_carry
            ELSE FAdd(FMul(a[i], b[i]), FMul(bit_xor(a[i], b[i]), carry[i - 1]))
    IN  [bits |-> [i \in 1..Len(a) |-> bit_xor(bit_xor(a[i], b[i]), carry[i - 1])],
         carry |-> carry[Len(a)]]
bit_add(a, b) == bit_add_impl(a, b, 0)
carry_out(a, b, initial_carry) == bit_add_impl(a, b, initial_carry).carry

\* Blind, open, add the blinding bits back bit by bit.  The 2^(d+1) offset is
\* meant to keep the opened value from wrapping.
to_bits_le(x, d) ==
    LET random_bits == RandomBits(d)
        blinding == FAdd(FMul(next_shared_value, scalar_2_to_m(d)),
                         scalar_from_bits_le(random_bits))
        open == FAdd(FSub(x, blinding), scalar_2_to_m(d + 1))
    IN  bit_add(resize_bitvector_to_length(scalar_to_bits_le(open, ScalarMaxBits), d),
                resize_bitvector_to_length(random_bits, d)).bits

bit_lt(a, b) ==
    FSub(1, carry_out(a, [i \in 1..Len(b) |-> FSub(1, b[i])], 1))

-----------------------------------------------------------------------------
(* modulo.rs *)

mod_2m(a, m) ==
    LET random_bits == RandomBits(m)
        lower == scalar_from_bits_le(random_bits)
        open == FAdd(a, FAdd(FMul(next_shared_value, scalar_2_to_m(m)), lower))
        open_mod == open % 2^m
        shift == FMul(scalar_2_to_m(m),
                      bit_lt(bigint_to_scalar_bits(open_mod, m), random_bits))
    IN  FSub(FAdd(shift, bigint_to_scalar(open_mod)), lower)

truncate(x, m) == IF m >= ScalarMaxBits THEN 0
                  ELSE FMul(FInv(scalar_2_to_m(m)), FSub(x, mod_2m(x, m)))
shift_right(a, m) == truncate(a, m)

-----------------------------------------------------------------------------
(* arithmetic.rs *)

\* d_i = b_{i-1} a_i / b_i telescopes; the prefix ending at the k-th element
\* (counted from one here) is cancelled with b_0^-1 and the k-th b, which is
\* one place short of the b the telescope leaves over
prefix_product_impl(a, pre) ==
    LET pair == [i \in 1..(Len(a) + 1) |-> next_shared_inverse_pair]
        opened == [i \in 1..Len(a) |-> FMul(FMul(pair[i].val, a[i]), pair[i + 1].inv)]
        partial(k) == FProduct(SubSeq(opened, 1, k))
    IN  [j \in 1..Len(pre) |-> FMul(partial(pre[j]), FMul(pair[1].inv, pair[pre[j]].val))]
product(a) == prefix_product_impl(a, <<Len(a)>>)[1]
prefix_mul(a) == prefix_product_impl(a, [i \in 1..Len(a) |-> i])

\* The zeroth power is returned as zero
mpc_pow(a, n) ==
    LET pow[k \in Nat] == IF k = 0 THEN 0
                          ELSE IF k = 1 THEN a
                          ELSE LET r == pow[k \div 2]
                               IN  IF k % 2 = 0 THEN FMul(r, r) ELSE FMul(FMul(r, r), a)
    IN  pow[n]

-----------------------------------------------------------------------------
(* comparators.rs *)

constant_round_or_impl(a) ==
    LET s == FSum(a)
    IN  FSub(1, product([x \in 1..Len(a) |-> FMul(FSub(x, s), FInv(x))]))

\* The sum of the booleans is blinded additively and unblinded with xor
kary_or(a) ==
    LET max_bits == CHOOSE n \in 0..Len(a) : 2^n >= Len(a) + 1 /\ (n > 0 => 2^(n - 1) < Len(a) + 1)
        blinding == RandomBits(max_bits)
        open == FAdd(FSum(a), FAdd(scalar_from_bits_le(blinding),
                                   FMul(2^max_bits, next_shared_value)))
        bits == scalar_to_bits_le(open, max_bits)
    IN  constant_round_or_impl([i \in 1..max_bits |-> bit_xor(bits[i], blinding[i])])

mpc_eq_zero(a, d) == FSub(1, kary_or(to_bits_le(a, d)))
mpc_eq(a, b, d) == mpc_eq_zero(FSub(a, b), d)
mpc_ne(a, b, d) == FSub(1, mpc_eq(a, b, d))

less_than_zero(a) == mpc_ne(truncate(a, SignBits), 0, 2)
less_than(a, b) == less_than_zero(FSub(a, b))
greater_than(a, b) == less_than_zero(FSub(b, a))
less_than_equal(a, b) == FSub(1, greater_than(a, b))
greater_than_equal(a, b) == FSub(1, less_than(a, b))

\* The index is zero when the first argument is strictly smaller
Choose(lt, a, b) == [index |-> FSub(1, lt), min |-> FAdd(FMul(lt, a), FMul(FSub(1, lt), b))]
MinUnordered(a, b) == Choose(less_than(a, b), b, a)
mpc_min(a, b) == Choose(less_than(a, b), a, b)

mpc_cond_select_vec(s, a, b) ==
    [i \in 1..Len(a) |-> FAdd(FMul(a[i], s), FMul(b[i], FSub(1, s)))]
============================================================================
