----------------------------- MODULE NonNative -----------------------------
(***************************************************************************)
(* Arithmetic in a field other than the circuit's own                      *)
(* (circuits/src/zk_gadgets/nonnative.rs) and on the points of a twisted   *)
(* Edwards curve over it (zk_gadgets/edwards.rs).                          *)
(*                                                                         *)
(* An element is a record: w holds its words, least significant first,     *)
(* each in a native scalar, and ok says that every assertion passed on the *)
(* way to it and that the words the prover assigns satisfy every constraint*)
(* added so far.  Sums and products of words are taken in the native field,*)
(* so a word size that lets them wrap around P gives wrong words, as it    *)
(* would in the program.                                                   *)
(***************************************************************************)
EXTENDS Field, SequencesExt

CONSTANTS WordSize    \* WORD_SIZE, half the bits of a native scalar

Base == 2^WordSize

\* The number of words a value needs
repr_word_width(v) == CHOOSE n \in 0..(v + 1) :
                          v < Base^n /\ (n > 0 => v >= Base^(n - 1))

\* div_rem_word asserts that its argument fits in two words
Fits(v) == v < Base * Base
div_rem_word(v) == [div |-> v \div Base, rem |-> v % Base]

\* The n low words of an integer; the rest is shifted away
Words(v, n) == SubSeq([i \in 1..n |-> (v \div Base^(i - 1)) % Base], 1, n)
bigint_to_scalar_words(v) == Words(v, repr_word_width(v))

\* v to the power modulus - 2
mod_inv_prime(v, modulus) ==
    LET pow[n \in Nat] == IF n = 0 THEN 1 % modulus
                          ELSE LET half == pow[n \div 2]
                               IN  (((half * half) % modulus) * (IF n % 2 = 1 THEN v ELSE 1))
                                       % modulus
    IN  pow[modulus - 2]

Element(words) == [w |-> words, ok |-> TRUE]

\* Words past the end are zero
word_iterator(w, i) == IF i <= Len(w) THEN w[i] ELSE 0

Padded(w, n) == IF n > Len(w) THEN w \o [i \in 1..(n - Len(w)) |-> 0] ELSE w
NewElement(w, modulus) == Element(Padded(w, repr_word_width(modulus)))

from_bigint(v, modulus) == Element(Words(v % modulus, repr_word_width(modulus)))

from_bigint_unreduced(v, width) ==
    [w |-> Words(v, width), ok |-> repr_word_width(v) <= width]

\* Both kinds of allocation keep the low words of the modulus's width and
\* do not reduce
commit_witness(v, modulus) == Element(Words(v, repr_word_width(modulus)))
commit_public(v, modulus) == Element(Words(v, repr_word_width(modulus)))

as_bigint(l) == FoldRight(LAMBDA word, acc : acc * Base + word, l.w, 0)

Longer(l, r) == IF Len(l) >= Len(r) THEN Len(l) ELSE Len(r)

SameWords(l, r) == \A i \in 1..Longer(l, r) : word_iterator(l, i) = word_iterator(r, i)
constrain_equal(l, r) == l.ok /\ r.ok /\ SameWords(l.w, r.w)
constrain_equal_biguint(l, v) == l.ok /\ SameWords(l.w, bigint_to_scalar_words(v))
constrain_zero(l) == constrain_equal_biguint(l, 0)

\* The element l, under a further constraint
Given(l, constraint) == [w |-> l.w, ok |-> l.ok /\ constraint]

CondSelectWord(sel, a, b) == FAdd(FMul(a, sel), FMul(b, FSub(1, sel)))
cond_select(sel, l, r, modulus) ==
    Given(NewElement(SubSeq([i \in 1..Longer(l.w, r.w) |->
                                CondSelectWord(sel, word_iterator(l.w, i), word_iterator(r.w, i))],
                            1, Longer(l.w, r.w)),
                     modulus),
          l.ok /\ r.ok)

-----------------------------------------------------------------------------
(* Columns of words *)

\* Reduce column sums to words, carrying upwards.  Returns the words, the
\* final carry and whether every column fit.
CarryDropped(sums) ==
    [w |-> [i \in DOMAIN sums |-> div_rem_word(sums[i]).rem], carry |-> 0, ok |-> TRUE]
CarryColumns(sums) ==
    FoldLeft(LAMBDA acc, s : LET total == FAdd(s, acc.carry)
                             IN  [w |-> Append(acc.w, div_rem_word(total).rem),
                                  carry |-> div_rem_word(total).div,
                                  ok |-> acc.ok /\ Fits(total)],
             [w |-> <<>>, carry |-> 0, ok |-> TRUE], sums)
KeepCarry(c) == [w |-> Append(c.w, c.carry), ok |-> c.ok]

WordSums(l, r) == [i \in 1..Longer(l, r) |-> FAdd(word_iterator(l, i), word_iterator(r, i))]
add_unreduced(l, r) == Given(KeepCarry(CarryColumns(WordSums(l.w, r.w))), l.ok /\ r.ok)
add_bigint_unreduced(l, v) ==
    Given(KeepCarry(CarryColumns(WordSums(l.w, bigint_to_scalar_words(v)))), l.ok)

\* The schoolbook product: the term of a pair of words lands in the column of
\* its shift, its carry one column up
Product(l, r, i, j) == IF j \in 1..Len(r) THEN FMul(l[i], r[j]) ELSE 0
ProductColumns(l, r) ==
    [k \in 1..(Len(l) + Len(r)) |->
        FSum([i \in 1..Len(l) |-> div_rem_word(Product(l, r, i, k + 1 - i)).rem
                                  + div_rem_word(Product(l, r, i, k - i)).div])]
ProductsFit(l, r) == \A i \in 1..Len(l), j \in 1..Len(r) : Fits(Product(l, r, i, j))

mul_unreduced(l, r) ==
    Given(KeepCarry(CarryColumns(ProductColumns(l.w, r.w))),
          l.ok /\ r.ok /\ ProductsFit(l.w, r.w))
\* The product with a constant keeps no final carry
mul_bigint_unreduced(l, v) ==
    Given(CarryColumns(ProductColumns(l.w, bigint_to_scalar_words(v))),
          l.ok /\ ProductsFit(l.w, bigint_to_scalar_words(v)))

-----------------------------------------------------------------------------
(* Arithmetic modulo the field's order *)

\* Reduction is constrained by recomposing quotient * modulus + remainder.
\* The quotient gets as many words as the widths of the operands allow.
Recomposes(u, div, mod, modulus) ==
    Given(mod, constrain_equal(u, add_unreduced(mul_bigint_unreduced(div, modulus), mod)))
QuotientTooNarrow(u, modulus) ==
    Recomposes(u, from_bigint_unreduced(as_bigint(u) \div modulus,
                                        Len(u.w) - repr_word_width(modulus)),
               from_bigint(as_bigint(u), modulus), modulus)
reduce(u, modulus) ==
    Recomposes(u, from_bigint_unreduced(as_bigint(u) \div modulus,
                                        Len(u.w) + 1 - repr_word_width(modulus)),
               from_bigint(as_bigint(u), modulus), modulus)

add(l, r, modulus) == With(<<l, r>>, LAMBDA a : reduce(add_unreduced(a[1], a[2]), modulus))
add_bigint(l, v, modulus) == With(l, LAMBDA a : reduce(add_bigint_unreduced(a, v), modulus))
mul(l, r, modulus) == With(<<l, r>>, LAMBDA a : reduce(mul_unreduced(a[1], a[2]), modulus))
mul_var(l, bit, modulus) == mul(l, Element(<<bit>>), modulus)
mul_bigint(l, v, modulus) == With(l, LAMBDA a : reduce(mul_bigint_unreduced(a, v), modulus))

SumIsZero(l, inv, modulus) == Given(inv, constrain_equal_biguint(add(l, inv, modulus), 0))
additive_inverse(l, modulus) ==
    SumIsZero(l, from_bigint(modulus - (as_bigint(l) % modulus), modulus), modulus)

subtract(l, r, modulus) == add(l, additive_inverse(r, modulus), modulus)
subtract_bigint(l, v, modulus) == add_bigint(l, modulus - (v % modulus), modulus)

\* Satisfiable only for a non-zero argument: the product is constrained to one
ProductIsOne(l, inv, modulus) == Given(inv, constrain_equal_biguint(mul(l, inv, modulus), 1))
invert(l, modulus) ==
    ProductIsOne(l, from_bigint(mod_inv_prime(as_bigint(l) % modulus, modulus), modulus), modulus)

\* The code constrains 1 - val * inv to equal zero, not to equal the flag
ZeroFlag(l, v, flag, modulus) ==
    [bit |-> flag,
     ok |-> LET inv == from_bigint(IF v = 0 THEN 0 ELSE mod_inv_prime(v, modulus), modulus)
            IN  /\ constrain_equal_biguint(
                       add_bigint(additive_inverse(mul(l, inv, modulus), modulus), 1, modulus), 0)
                /\ constrain_zero(mul_var(l, flag, modulus))]
is_zero(l, modulus) == ZeroFlag(l, as_bigint(l), IF as_bigint(l) = 0 THEN 1 ELSE 0, modulus)

\* The d low bits, constrained word by word against the element
BitsWord(bits, i) ==
    FSum([j \in 1..WordSize |-> IF (i - 1) * WordSize + j > Len(bits) THEN 0
                                ELSE FMul(2^(j - 1), bits[(i - 1) * WordSize + j])])
BitsOf(l, d, bits) ==
    [bits |-> bits,
     ok |-> l.ok /\ \A i \in 1..repr_word_width(2^d) : BitsWord(bits, i) = word_iterator(l.w, i)]
to_bits(l, d) == BitsOf(l, d, bigint_to_scalar_bits(as_bigint(l), d))

-----------------------------------------------------------------------------
(* Points of the twisted Edwards curve a x^2 + y^2 = 1 + d x^2 y^2 *)

PointZero(modulus) == [x |-> from_bigint(0, modulus), y |-> from_bigint(1, modulus)]
new_from_bigints(x, y, modulus) ==
    [x |-> from_bigint(x, modulus), y |-> from_bigint(y, modulus)]
commit_witness_point(x, y, modulus) ==
    [x |-> commit_witness(x, modulus), y |-> commit_witness(y, modulus)]
get_affine_coordinates(pt) == <<as_bigint(pt.x), as_bigint(pt.y)>>

cond_select_point(sel, p, q, modulus) ==
    [x |-> cond_select(sel, p.x, q.x, modulus), y |-> cond_select(sel, p.y, q.y, modulus)]

\* From the cross products x1y2 and x2y1 and from d x1x2y1y2
SumX(x1y2, x2y1, dxy, modulus) ==
    mul(add(x1y2, x2y1, modulus), invert(add_bigint(dxy, 1, modulus), modulus), modulus)
SumY(p, q, a, dxy, modulus) ==
    mul(subtract(mul(p.y, q.y, modulus), mul_bigint(mul(p.x, q.x, modulus), a, modulus), modulus),
        invert(add_bigint(additive_inverse(dxy, modulus), 1, modulus), modulus), modulus)
SumOf(p, q, a, x1y2, x2y1, dxy, modulus) ==
    [x |-> SumX(x1y2, x2y1, dxy, modulus), y |-> SumY(p, q, a, dxy, modulus)]
CrossSum(p, q, a, d, x1y2, x2y1, modulus) ==
    SumOf(p, q, a, x1y2, x2y1, mul_bigint(mul(x1y2, x2y1, modulus), d, modulus), modulus)
add_points(p, q, a, d, modulus) ==
    CrossSum(p, q, a, d, mul(p.x, q.y, modulus), mul(p.y, q.x, modulus), modulus)

\* One when the sum of the bits is zero
all_bits_zero(bits) == IF FSum(bits) = 0 THEN 1 ELSE 0

\* Double and add over the bits, most significant first.  The doubled sum is
\* masked with the identity while no bit has been set.
ScalarMulNoDoubling(pt, bits, a, d, modulus) ==
    FoldRight(LAMBDA bit, acc :
                  add_points(acc, cond_select_point(bit, pt, PointZero(modulus), modulus),
                             a, d, modulus),
              bits, PointZero(modulus))
scalar_mul_impl(pt, bits, a, d, modulus) ==
    FoldRight(LAMBDA i, acc :
                  cond_select_point(
                      all_bits_zero(SubSeq(bits, i, Len(bits))), PointZero(modulus),
                      add_points(add_points(acc, acc, a, d, modulus),
                                 cond_select_point(bits[i], pt, PointZero(modulus), modulus),
                                 a, d, modulus),
                      modulus),
              [i \in 1..Len(bits) |-> i], PointZero(modulus))

\* pt times the low nbits bits of the scalar
UnderBits(pt, bits) == [x |-> Given(pt.x, bits.ok), y |-> Given(pt.y, bits.ok)]
MulByBits(bits, pt, a, d, modulus) ==
    UnderBits(scalar_mul_impl(pt, bits.bits, a, d, modulus), bits)
scalar_mul(scalar, nbits, pt, a, d, modulus) ==
    IF nbits = 0 THEN PointZero(modulus)
    ELSE MulByBits(to_bits(scalar, nbits), pt, a, d, modulus)
============================================================================
