------------------------------ MODULE Gadgets ------------------------------
(***************************************************************************)
(* The gadget library driven against reference definitions.  One behaviour *)
(* exercises one unit: a register of the unit holds what the code computes,*)
(* next to it the mathematical value it stands for, and every action is a  *)
(* call of the library applied to both.  ok records that every constraint  *)
(* the gadgets added so far is satisfied and no assertion failed.          *)
(***************************************************************************)
EXTENDS NonNative, FixedPoint, Sponge, Transcripts

CONSTANTS Moduli,          \* moduli of the non-native fields
          CurveModulus, CurveA, CurveD,   \* a twisted Edwards curve, d not a square
          ScalarMulBits,   \* bits of the scalars points are multiplied with
          SpongeInputs, MaxAbsorb, MaxSqueeze,
          MerkleHeight,
          FpLimit,         \* bound on the numerators of fixed point values
          SmallBits        \* width of the integers compared and decomposed

VARIABLES unit,    \* the unit under test
          nn,      \* non-native register: modulus m, element e, value v
          pt,      \* curve register: point p, coordinates x and y
          sp,      \* the three sponges, what they absorbed and squeezed
          tree,    \* leaves of a Merkle tree
          fp,      \* fixed point register in its four forms, numerator ref
          call,    \* last scalar gadget call or proof: inputs, result, reference
          ok

vars == <<unit, nn, pt, sp, tree, fp, call, ok>>

Units == {"nonnative", "edwards", "sponge", "merkle", "fixed", "scalar", "transcript"}
Idle == <<>>

-----------------------------------------------------------------------------
(* References *)

CurvePoints == {q \in (0..(CurveModulus - 1)) \X (0..(CurveModulus - 1)) :
                  (CurveA * q[1] * q[1] + q[2] * q[2]) % CurveModulus
                    = (1 + CurveD * q[1] * q[1] * q[2] * q[2]) % CurveModulus}

\* The quotient in the curve's field, by search
Quot(n, d) == CHOOSE z \in 0..(CurveModulus - 1) : (z * d) % CurveModulus = n % CurveModulus

CurveSum(q, r) ==
    LET k == (CurveD * q[1] * r[1] * q[2] * r[2]) % CurveModulus
    IN  <<Quot(q[1] * r[2] + q[2] * r[1], 1 + k),
          Quot(q[2] * r[2] - CurveA * q[1] * r[1], 1 - k)>>
CurveMultiple(n, q) == FoldLeft(LAMBDA sum, k : CurveSum(sum, q), <<0, 1>>, [k \in 1..n |-> k])

RefSbox(s, full) == [i \in 1..Width |-> IF full \/ i = 1 THEN PowRef(s[i], Alpha) ELSE s[i]]

\* The sponge as a fold over blocks of Rate inputs, one permutation per block
SpongeRef(inputs) ==
    LET blocks == IF inputs = <<>> THEN 1 ELSE (Len(inputs) + Rate - 1) \div Rate
        elem(b, i) == IF i <= Capacity \/ (b - 1) * Rate + i - Capacity > Len(inputs) THEN 0
                      ELSE inputs[(b - 1) * Rate + i - Capacity]
        after[b \in 0..blocks] ==
            IF b = 0 THEN [i \in 1..Width |-> 0]
            ELSE Rounds([i \in 1..Width |-> FAdd(after[b - 1][i], elem(b, i))], RefSbox)
    IN  after[blocks]
HashRef(inputs) == SpongeRef(inputs)[Capacity + 1]

\* Node i of level h of the tree over the leaves, level 0 being leaf hashes
NodeRef(h, i) ==
    LET node[k \in 0..MerkleHeight, j \in 0..(2^MerkleHeight - 1)] ==
            IF k = 0 THEN HashRef(<<tree[j + 1]>>)
            ELSE HashRef(<<node[k - 1, 2 * j], node[k - 1, 2 * j + 1]>>)
    IN  node[h, i]
Sibling(i) == IF i % 2 = 0 THEN i + 1 ELSE i - 1

-----------------------------------------------------------------------------
Init ==
    /\ unit \in Units
    /\ nn \in IF unit # "nonnative" THEN {Idle}
              ELSE {[m |-> m, e |-> commit_witness(v, m), v |-> v] :
                      m \in Moduli, v \in 0..(Base^2 - 1)}
    /\ unit = "nonnative" => nn.v < Base^repr_word_width(nn.m)
    /\ pt \in IF unit # "edwards" THEN {Idle}
              ELSE {[p |-> commit_witness_point(q[1], q[2], CurveModulus), x |-> q[1], y |-> q[2]] :
                      q \in CurvePoints}
    /\ sp = IF unit # "sponge" THEN Idle
            ELSE [g |-> NewSponge, mp |-> NewSponge, h |-> NewSponge,
                  inputs |-> <<>>, gout |-> <<>>, mpout |-> <<>>, hout |-> <<>>]
    /\ tree = IF unit # "merkle" THEN Idle ELSE [i \in 1..2^MerkleHeight |-> 0]
    /\ fp \in IF unit # "fixed" THEN {Idle}
              ELSE {[native |-> from_f32_round_down(num), var |-> from_f32_round_down(num),
                     auth |-> from_f32_round_down(num), authvar |-> from_f32_round_down(num),
                     ref |-> Shifted(num).floor, exact |-> TRUE] : num \in 0..2^(FloatBits + 1)}
    /\ call = Idle
    /\ ok = TRUE

-----------------------------------------------------------------------------
(* Non-native arithmetic *)

\* Replace the register by an operation's result and the value by v
NnStep(result, v) ==
    /\ nn' = [nn EXCEPT !.e = result, !.v = v]
    /\ ok' = nn'.e.ok
    /\ UNCHANGED <<unit, pt, sp, tree, fp, call>>

\* A second element is allocated in the width of the field, reduced or not
Operand(u) == commit_public(u, nn.m)
FitsField(u) == unit = "nonnative" /\ u < Base^repr_word_width(nn.m)

NnAdd(u) == FitsField(u) /\ NnStep(add(nn.e, Operand(u), nn.m), (nn.v + u) % nn.m)
NnAddBigint(u) == unit = "nonnative" /\ NnStep(add_bigint(nn.e, u, nn.m), (nn.v + u) % nn.m)
NnMul(u) == FitsField(u) /\ NnStep(mul(nn.e, Operand(u), nn.m), (nn.v * u) % nn.m)
NnMulBigint(u) == unit = "nonnative" /\ NnStep(mul_bigint(nn.e, u, nn.m), (nn.v * u) % nn.m)
NnSubtract(u) == FitsField(u) /\ NnStep(subtract(nn.e, Operand(u), nn.m), (nn.v - u) % nn.m)
NnSubtractBigint(u) ==
    unit = "nonnative" /\ NnStep(subtract_bigint(nn.e, u, nn.m), (nn.v - u) % nn.m)
NnAdditiveInverse == unit = "nonnative" /\ NnStep(additive_inverse(nn.e, nn.m), (-nn.v) % nn.m)
NnInvert ==
    /\ unit = "nonnative" /\ nn.v % nn.m # 0
    /\ NnStep(invert(nn.e, nn.m), CHOOSE z \in 0..(nn.m - 1) : (z * nn.v) % nn.m = 1)
NnCondSelect(sel, u) ==
    /\ FitsField(u)
    /\ NnStep(cond_select(sel, nn.e, Operand(u), nn.m), IF sel = 1 THEN nn.v ELSE u)

\* The test for zero and the bits leave the register alone.  The test is
\* called on non-zero values: its constraints exclude zero.
NnIsZero ==
    /\ unit = "nonnative" /\ nn.v % nn.m # 0
    /\ LET z == is_zero(nn.e, nn.m)
       IN  ok' = (ok /\ z.ok /\ z.bit = 0)
    /\ UNCHANGED <<unit, nn, pt, sp, tree, fp, call>>
NnToBits ==
    /\ unit = "nonnative"
    /\ LET d == WordSize * repr_word_width(nn.m)
           b == to_bits(nn.e, d)
       IN  ok' = (ok /\ b.ok /\ b.bits = bigint_to_scalar_bits(nn.v, d))
    /\ UNCHANGED <<unit, nn, pt, sp, tree, fp, call>>

-----------------------------------------------------------------------------
(* Curve points *)

PtStep(result, q) ==
    /\ pt' = [p |-> result, x |-> q[1], y |-> q[2]]
    /\ ok' = (pt'.p.x.ok /\ pt'.p.y.ok)
    /\ UNCHANGED <<unit, nn, sp, tree, fp, call>>

PtAdd(q) ==
    /\ unit = "edwards"
    /\ PtStep(add_points(pt.p, new_from_bigints(q[1], q[2], CurveModulus),
                         CurveA, CurveD, CurveModulus),
              CurveSum(<<pt.x, pt.y>>, q))
PtScalarMul(k) ==
    /\ unit = "edwards"
    /\ PtStep(scalar_mul(commit_witness(k, CurveModulus), ScalarMulBits, pt.p,
                         CurveA, CurveD, CurveModulus),
              CurveMultiple(k, <<pt.x, pt.y>>))

-----------------------------------------------------------------------------
(* Sponges and Merkle trees *)

\* The assertion refuses an absorb after a squeeze
SpAbsorb(a) ==
    /\ unit = "sponge" /\ ~sp.g.squeezing /\ Len(sp.inputs) < MaxAbsorb
    /\ sp' = [sp EXCEPT !.g = absorb(@, a), !.mp = Multiprover_absorb(@, a),
                        !.h = Hasher_absorb(@, a), !.inputs = Append(@, a)]
    /\ UNCHANGED <<unit, nn, pt, tree, fp, call, ok>>
SpSqueeze ==
    /\ unit = "sponge" /\ Len(sp.gout) < MaxSqueeze
    /\ LET g == squeeze(sp.g)
           mp == Multiprover_squeeze(sp.mp)
           h == Hasher_squeeze(sp.h)
       IN  sp' = [sp EXCEPT !.g = g.sponge, !.mp = mp.sponge, !.h = h.sponge,
                            !.gout = Append(@, g.out), !.mpout = Append(@, mp.out),
                            !.hout = Append(@, h.out)]
    /\ ok' = (ok /\ (sp.gout = <<>> => /\ PoseidonHash(sp.inputs, sp'.gout[1])
                                      /\ MultiproverPoseidonHash(sp.inputs, sp'.gout[1])))
    /\ UNCHANGED <<unit, nn, pt, tree, fp, call>>

\* The contract's tree grows; the circuits only open it
SetLeaf(i, a) ==
    /\ unit = "merkle"
    /\ tree' = [tree EXCEPT ![i] = a]
    /\ UNCHANGED <<unit, nn, pt, sp, fp, call, ok>>

-----------------------------------------------------------------------------
(* Fixed point arithmetic *)

FpStep(native, var, auth, authvar, ref, exact) ==
    /\ unit = "fixed" /\ fp.exact /\ -FpLimit < ref /\ ref < FpLimit
    /\ fp' = [native |-> native, var |-> var, auth |-> auth, authvar |-> authvar,
              ref |-> ref, exact |-> exact]
    /\ UNCHANGED <<unit, nn, pt, sp, tree, call, ok>>

FpDoAdd(y) == FpStep(FpAdd(fp.native, y), FpVarAdd(fp.var, y), AuthFpAdd(fp.auth, y),
                     AuthFpVarAdd(fp.authvar, y), fp.ref + y, fp.exact)
FpDoAddInteger(n) ==
    FpStep(FpAddScalar(fp.native, n), FpVarAddInteger(fp.var, n), AuthFpAddScalar(fp.auth, n),
           AuthFpVarAddInteger(fp.authvar, n), fp.ref + n * 2^Precision, fp.exact)
FpDoSub(y) == FpStep(FpSub(fp.native, y), FpVarSub(fp.var, y), AuthFpSub(fp.auth, y),
                     AuthFpVarSub(fp.authvar, y), fp.ref - y, fp.exact)
FpDoSubInteger(n) ==
    FpStep(FpSubScalar(fp.native, n), FpVarSubInteger(fp.var, n), AuthFpSubScalar(fp.auth, n),
           AuthFpVarSubInteger(fp.authvar, n), fp.ref - n * 2^Precision, fp.exact)
FpDoComplement(n) ==
    FpStep(ScalarSubFp(n, fp.native), IntegerSubFpVar(n, fp.var),
           AuthFpAddScalar(AuthFpNeg(fp.auth), n), AuthFpVarAddInteger(AuthFpVarNeg(fp.authvar), n),
           n * 2^Precision - fp.ref, fp.exact)
FpDoMulInteger(n) ==
    FpStep(FpMulScalar(fp.native, n), FpVarMulInteger(fp.var, n), AuthFpMulScalar(fp.auth, n),
           AuthFpVarMulInteger(fp.authvar, n), fp.ref * n, fp.exact)
\* There is no native product: the register takes the circuit's.  The
\* product is the number's only if no fractional bits are lost.
FpDoMul(y) ==
    FpStep(FpVarMulFixedPoint(fp.var, y), FpVarMulFixedPoint(fp.var, y), AuthFpMul(fp.auth, y),
           AuthFpVarMulFixedPoint(fp.authvar, y), (fp.ref * y) \div 2^Precision,
           fp.exact /\ (fp.ref * y) % 2^Precision = 0)

-----------------------------------------------------------------------------
(* Scalar gadgets *)

Small == 0..(2^SmallBits - 1)
Bit(b) == IF b THEN 1 ELSE 0
Flip(b) == FSub(1, b)

\* A call returns got, expected to be want; sat says its constraints hold
Call(gadget, args, got, want, sat) ==
    /\ unit = "scalar" /\ call = Idle
    /\ call' = [gadget |-> gadget, args |-> args, got |-> got, want |-> want]
    /\ ok' = (ok /\ sat)
    /\ UNCHANGED <<unit, nn, pt, sp, tree, fp>>
Return == call # Idle /\ call' = Idle /\ UNCHANGED <<unit, nn, pt, sp, tree, fp, ok>>

\* The shared comparisons, the minimum, shifts, products and powers
MpcCompare(a, b) ==
    Call("compare", <<a, b>>,
         <<less_than(a, b), less_than_equal(a, b), greater_than(a, b), greater_than_equal(a, b),
           mpc_eq(a, b, SmallBits), mpc_ne(a, b, SmallBits)>>,
         <<Bit(a < b), Bit(a <= b), Bit(a > b), Bit(a >= b), Bit(a = b), Bit(a # b)>>, TRUE)
MpcMin(a, b) ==
    Call("min", <<a, b>>, mpc_min(a, b),
         [index |-> Bit(~(a < b)), min |-> IF a < b THEN a ELSE b], TRUE)
MpcShift(a, b) ==
    Call("shift_right", <<a, b>>, <<shift_right(a * b, SmallBits), mod_2m(a * b, SmallBits)>>,
         <<(a * b) \div 2^SmallBits, (a * b) % 2^SmallBits>>, TRUE)
MpcProduct(a, b) ==
    Call("prefix_mul", <<a, b>>, <<prefix_mul(<<a, b, a>>), product(<<a, b, b>>)>>,
         <<<<a, FMul(a, b), FMul(FMul(a, b), a)>>, FMul(a, FMul(b, b))>>, TRUE)
\* The zeroth power is left out: the code returns zero for it
MpcPow(a, n) == n > 0 /\ Call("pow", <<a, n>>, mpc_pow(a, n), PowRef(a, n), TRUE)
MpcOr(a) ==
    LET bits == scalar_to_bits_le(a, SmallBits)
    IN  Call("kary_or", <<a>>, kary_or(bits), Bit(a # 0), TRUE)
MpcSelect(a, b, s) ==
    Call("cond_select_vec", <<a, b, s>>, mpc_cond_select_vec(s, <<a, b>>, <<b, a>>),
         IF s = 1 THEN <<a, b>> ELSE <<b, a>>, TRUE)

\* The comparison gadgets, for differences of either sign
ZkCompare(a, b) ==
    LET e == Eq(a, b)
        n == NotEqual(a, b)
        g == GreaterThanEq(a, b, SmallBits)
        l == LessThan(a, b, SmallBits)
        v == EqVec(<<a, b>>, <<b, b>>)
    IN  Call("Compare", <<a, b>>,
             <<e.val, n.val, g.val, l.val, v.val, Bit(constrain_greater_than_eq(a, b, SmallBits)),
               Bit(Multiprover_constrain_greater_than_eq(a, b, SmallBits)),
               Bit(constrain_less_than(a, b, SmallBits)), Bit(constrain_eq_vec(<<a>>, <<b>>))>>,
             <<Bit(a = b), Bit(a # b), Bit(a >= b), Bit(a < b), Bit(a = b), Bit(a >= b),
               Bit(a >= b), Bit(a < b), Bit(a = b)>>,
             e.ok /\ n.ok /\ g.ok /\ l.ok /\ v.ok)
ZkGates(a, b, s) ==
    Call("Gates", <<a, b, s>>,
         <<Or(Bit(a < b), s), MultiproverOr(Bit(a < b), s), And(Bit(a < b), s),
           Bit(constrain_binary(a)), CondSelectVector(<<a>>, <<b>>, s),
           MultiproverCondSelectVector(<<a>>, <<b>>, s)>>,
         <<Bit(a < b \/ s = 1), Bit(a < b \/ s = 1), Bit(a < b /\ s = 1), Bit(a \in {0, 1}),
           <<IF s = 1 THEN a ELSE b>>, <<IF s = 1 THEN a ELSE b>>>>, TRUE)
\* Bits of values that fit; a division by zero leaves the circuit unsatisfied
ZkBits(a) ==
    Call("ToBits", <<a>>, <<ToBits(a, SmallBits).bits, MultiproverToBits(a, SmallBits).bits>>,
         <<bigint_to_scalar_bits(a, SmallBits), bigint_to_scalar_bits(a, SmallBits)>>,
         ToBits(a, SmallBits).ok /\ MultiproverToBits(a, SmallBits).ok)
ZkDivRem(a, b) ==
    LET d == DivRem(a, b, SmallBits)
    IN  Call("DivRem", <<a, b>>, IF b = 0 THEN <<Bit(d.ok)>> ELSE <<d.q, d.r>>,
             IF b = 0 THEN <<0>> ELSE <<a \div b, a % b>>, b = 0 \/ d.ok)
ZkExp(x, n) ==
    LET e == exp_private(x, n, SmallBits)
        f == exp_private_fixed_base(x, n, SmallBits)
    IN  Call("Exp", <<x, n>>, <<Exp(x, n), MultiproverExp(x, n), e.val, f.val>>,
             [i \in 1..4 |-> PowRef(x, n)],
             e.ok /\ f.ok /\ generate_exp_constraints(x, PowRef(x, n), n))
\* Decrypting with the key the message was encrypted under gives it back
ZkElGamal(sk, r, msg) ==
    LET g == 2
        c == ElGamalEncrypt(g, r, msg, PowRef(g, sk), SmallBits)
    IN  Call("ElGamal", <<sk, r, msg>>, FMul(c.c2, FInv(PowRef(c.c1, sk))), msg, c.ok)

-----------------------------------------------------------------------------
(* Transcripts *)

\* One proof is made and checked: the prover's transcript is the reference,
\* the verifier's the result
ProveAndVerify(name) ==
    /\ unit = "transcript" /\ call = Idle
    /\ call' = [gadget |-> name, args |-> HonestProofs[name].fields,
                got |-> HonestProofs[name].replayed, want |-> HonestProofs[name].sent]
    /\ UNCHANGED <<unit, nn, pt, sp, tree, fp, ok>>

-----------------------------------------------------------------------------
NonNativeNext ==
    \/ \E u \in 0..(Base + 1) :
          \/ NnAdd(u) \/ NnAddBigint(u) \/ NnMul(u) \/ NnMulBigint(u)
          \/ NnSubtract(u) \/ NnSubtractBigint(u) \/ NnCondSelect(0, u) \/ NnCondSelect(1, u)
    \/ NnAdditiveInverse \/ NnInvert \/ NnIsZero \/ NnToBits
EdwardsNext == \/ \E q \in CurvePoints : PtAdd(q)
               \/ \E k \in 0..(2^ScalarMulBits - 1) : PtScalarMul(k)
SpongeNext == \/ \E a \in SpongeInputs : SpAbsorb(a)
              \/ SpSqueeze
              \/ \E i \in 1..2^MerkleHeight, a \in SpongeInputs : SetLeaf(i, a)
FixedNext == \/ \E y \in 0..2^(Precision + 1) : FpDoAdd(y) \/ FpDoSub(y) \/ FpDoMul(y)
             \/ \E n \in 0..3 : FpDoAddInteger(n) \/ FpDoSubInteger(n) \/ FpDoComplement(n)
                               \/ FpDoMulInteger(n)
ScalarNext == \/ \E a, b \in Small : \/ MpcCompare(a, b) \/ MpcMin(a, b) \/ MpcShift(a, b)
                                     \/ MpcProduct(a, b) \/ MpcPow(a, b) \/ ZkCompare(a, b)
                                     \/ ZkDivRem(a, b) \/ ZkExp(a, b)
              \/ \E a, b \in Small, s \in {0, 1} : MpcSelect(a, b, s) \/ ZkGates(a, b, s)
              \/ \E a \in Small : MpcOr(a) \/ ZkBits(a)
              \/ \E sk, r \in 1..3, msg \in Small : ZkElGamal(sk, r, msg)
              \/ Return

TranscriptNext == \E name \in DOMAIN HonestProofs : ProveAndVerify(name)

Next == \/ NonNativeNext \/ EdwardsNext \/ SpongeNext \/ FixedNext \/ ScalarNext
        \/ TranscriptNext

Spec == Init /\ [][Next]_vars

-----------------------------------------------------------------------------
(* Properties *)

\* Honest provers can prove: along every sequence of gadget calls on values
\* the gadgets admit, the assigned witnesses satisfy every constraint added
\* and no assertion of the non-native code (div_rem_word, from_bigint_unreduced)
\* fails.  ok is the conjunction of all of them.
Satisfiable == ok

\* A non-native element denotes the integer its operations describe, in the
\* word width of its field, after any sequence of NonNativeElementVar calls,
\* whether it was allocated reduced or not.
NonNativeRepresents ==
    unit = "nonnative" => /\ as_bigint(nn.e) = nn.v
                          /\ Len(nn.e.w) = repr_word_width(nn.m)
                          /\ \A i \in 1..Len(nn.e.w) : nn.e.w[i] \in 0..(Base - 1)

\* TwistedEdwardsCurve::add_points and scalar_mul stay on the curve and
\* compute its group law, including at the identity and for zero scalars.
EdwardsGroupLaw ==
    unit = "edwards" => /\ get_affine_coordinates(pt.p) = <<pt.x, pt.y>>
                        /\ <<pt.x, pt.y>> \in CurvePoints

\* The three sponges hold the same state while they absorb, and their first
\* squeeze is the hash of what was absorbed; from then on the two gadgets,
\* which do not move their index, repeat it while the shared hasher moves on.
SpongesAgree ==
    unit = "sponge" =>
        /\ sp.g = sp.mp /\ sp.gout = sp.mpout
        /\ sp.gout = <<>> => sp.h = sp.g
        /\ sp.gout # <<>> => /\ sp.hout[1] = HashRef(sp.inputs)
                             /\ \A i \in 1..Len(sp.gout) : sp.gout[i] = HashRef(sp.inputs)

\* Every leaf of a tree opens to its root: the path of siblings, with the
\* bits of the leaf's index as left-right selectors, recomputes it.
MerkleOpens ==
    unit = "merkle" =>
        \A i \in 0..(2^MerkleHeight - 1) :
            compute_and_constrain_root(
                <<tree[i + 1]>>,
                [h \in 1..MerkleHeight |-> NodeRef(h - 1, Sibling(i \div 2^(h - 1)))],
                [h \in 1..MerkleHeight |-> (i \div 2^(h - 1)) % 2],
                NodeRef(MerkleHeight, 0))

\* The four copies of fixed point arithmetic agree with each other and, until
\* a product loses fractional bits, with the number they stand for.  The
\* native floor, the circuit's and the shared value's then give its integer
\* part.
FixedPointAgrees ==
    unit = "fixed" =>
        /\ fp.native = fp.var /\ fp.var = fp.auth /\ fp.auth = fp.authvar
        /\ fp.exact => /\ fp.var = fp.ref % P
                       /\ fp.ref >= 0 =>
                             /\ FpFloor(fp.native) = fp.ref \div 2^Precision
                             /\ FpVarFloor(fp.var) = [val |-> fp.ref \div 2^Precision, ok |-> TRUE]
                             /\ AuthFpAsInteger(fp.auth) = fp.ref \div 2^Precision

\* Every scalar gadget returns what its reference says: comparisons and
\* minima on shared values although their blinded openings wrap around the
\* field order, bit decompositions, divisions, powers and encryptions.
GadgetsMatchReference == (unit = "scalar" /\ call # Idle) => call.got = call.want

\* The Fiat-Shamir transcripts of an honest prover and verifier are the same,
\* for every circuit and every way a struct is committed to, shared, flattened
\* and read back: each CommitVerifier repeats its CommitProver, and each
\* vector is unpacked in the order it was packed.
TranscriptsAgree == (unit = "transcript" /\ call # Idle) => call.got = call.want

\* A proof binds its whole witness: every field of a circuit's witness, down
\* to the last balance, order and fee, is committed to exactly once.
WitnessCommitted ==
    (unit = "transcript" /\ call # Idle) => /\ call.args \subseteq ToSet(call.want)
                                            /\ IsInjective(call.want)
============================================================================
