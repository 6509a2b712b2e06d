------------------------------ MODULE Matching -----------------------------
(***************************************************************************)
(* How two orders become settlement notes: the match computed in the fabric*)
(* (circuits/src/mpc_circuits/match.rs), the constraints of VALID MATCH MPC*)
(* in their collaborative and verifier forms, the notes the relayer derives*)
(* from a match (core/src/handshake/encumber.rs) and the constraints of    *)
(* VALID MATCH ENCRYPTION on them.                                         *)
(*                                                                         *)
(* The two forms of the matching check return the sequence of the verdicts *)
(* of their constraints, in the order in which they are added.             *)
(***************************************************************************)
EXTENDS Circuits

CONSTANTS SizeBits,                  \* 32, the width of order sizes
          PROTOCOL_FEE,              \* fixed point representation
          PROTOCOL_SETTLE_KEY,
          DEFAULT_ELGAMAL_GENERATOR

\* The eight tests AllOnes counts do not wrap around, and the protocol's fee is
\* at most the whole
ASSUME CountsFit == 8 < P /\ PROTOCOL_FEE \in 0..(2^Precision)

Buy == 0
Sell == 1
opposite(side) == 1 - side
InternalTransfer == 0
Match == 1

-----------------------------------------------------------------------------
(* mpc_circuits/match.rs *)

\* Equal prices overlap when the first order sells, not when it buys
OverlapStrict(o1, o2) == mpc_eq(o1.side, less_than(o1.price, o2.price), 1)
price_overlap(o1, o2) ==
    mpc_eq(o1.side, less_than_equal(o1.price, o2.price), 1)

\* The midpoint of the two prices
ExecutionPrice(o1, o2) ==
    AuthFpMul(AuthFpAdd(o1.price, o2.price), AuthFpFromPublicF32(2^(FloatBits - 1)).repr)
ToMatch(v) ==
    [quote_mint |-> v[1], base_mint |-> v[2], quote_amount |-> v[3], base_amount |-> v[4],
     direction |-> v[5], execution_price |-> v[6], max_minus_min_amount |-> v[7],
     min_amount_order_index |-> v[8]]
\* The match of the smaller size at a price, masked with zeros unless valid
MaskedMatch(o1, o2, valid, min, price) ==
    ToMatch(mpc_cond_select_vec(valid,
        <<o1.quote_mint, o1.base_mint, AuthFpAsInteger(AuthFpMulScalar(price, min.min)),
          min.min, o1.side, price, FSub(FAdd(o1.amount, o2.amount), FMul(2, min.min)),
          min.index>>,
        <<0, 0, 0, 0, 0, 0, 0, 0>>))
compute_match(o1, o2) ==
    MaskedMatch(o1, o2,
                product(<<mpc_eq(o1.base_mint, o2.base_mint, AmountBits),
                          mpc_eq(o1.quote_mint, o2.quote_mint, AmountBits),
                          price_overlap(o1, o2),
                          mpc_ne(o1.side, o2.side, AmountBits)>>),
                mpc_min(o1.amount, o2.amount), ExecutionPrice(o1, o2))

-----------------------------------------------------------------------------
(* VALID MATCH MPC *)

matching_engine_check(o1, o2, b1, b2, m) ==
    LET prices == MultiproverCondSelectVector(<<o2.price, o1.price>>, <<o1.price, o2.price>>,
                                              m.direction)
        double_execution_price == AuthFpVarMulInteger(m.execution_price, 2)
        max_minus_min_expected ==
            MultiproverCondSelect(FSub(o1.amount, o2.amount), FSub(o2.amount, o1.amount),
                                  m.min_amount_order_index)
        expected_quote_amount == AuthFpVarMulInteger(m.execution_price, m.base_amount)
        selected == MultiproverCondSelectVector(
                        <<m.base_mint, m.base_amount, m.quote_mint, m.quote_amount>>,
                        <<m.quote_mint, m.quote_amount, m.base_mint, m.base_amount>>,
                        m.direction)
    IN  <<o1.quote_mint = m.quote_mint, o1.base_mint = m.base_mint,
          o2.quote_mint = m.quote_mint, o2.base_mint = m.base_mint,
          m.direction = o1.side,
          FAdd(o1.side, o2.side) = 1,
          Multiprover_constrain_greater_than_eq(prices[1], prices[2], AmountBits),
          AuthFpVarConstrainEqual(double_execution_price, AuthFpVarAdd(o1.price, o2.price)),
          FMul(m.min_amount_order_index, FSub(1, m.min_amount_order_index)) = 0,
          max_minus_min_expected = m.max_minus_min_amount,
          Multiprover_constrain_greater_than_zero(m.max_minus_min_amount, SizeBits),
          FMul(2, m.base_amount) = FSub(FAdd(o1.amount, o2.amount), m.max_minus_min_amount),
          AuthFpVarConstrainEqualInteger(expected_quote_amount, m.quote_amount),
          selected[1] = b1.mint,
          selected[3] = b2.mint,
          Multiprover_constrain_greater_than_eq(b1.amount, selected[2], AmountBits),
          Multiprover_constrain_greater_than_eq(b2.amount, selected[4], AmountBits)>>

PricesSwapped(o1, o2, b1, b2, m) ==
    [i \in 1..17 |-> IF i = 7
                     THEN LET prices == CondSelectVector(<<o1.price, o2.price>>,
                                                         <<o2.price, o1.price>>, m.direction)
                          IN  constrain_greater_than_eq(prices[1], prices[2], AmountBits)
                     ELSE matching_engine_check(o1, o2, b1, b2, m)[i]]
matching_engine_check_single_prover(o1, o2, b1, b2, m) ==
    LET prices == CondSelectVector(<<o2.price, o1.price>>, <<o1.price, o2.price>>, m.direction)
        double_execution_price == FpVarMulInteger(m.execution_price, 2)
        max_minus_min_expected ==
            CondSelect(FSub(o1.amount, o2.amount), FSub(o2.amount, o1.amount),
                       m.min_amount_order_index)
        expected_quote_amount == FpVarMulInteger(m.execution_price, m.base_amount)
        selected == CondSelectVector(
                        <<m.base_mint, m.base_amount, m.quote_mint, m.quote_amount>>,
                        <<m.quote_mint, m.quote_amount, m.base_mint, m.base_amount>>,
                        m.direction)
    IN  <<o1.quote_mint = m.quote_mint, o1.base_mint = m.base_mint,
          o2.quote_mint = m.quote_mint, o2.base_mint = m.base_mint,
          m.direction = o1.side,
          FAdd(o1.side, o2.side) = 1,
          constrain_greater_than_eq(prices[1], prices[2], AmountBits),
          FpVarConstraintEqual(double_execution_price, FpVarAdd(o1.price, o2.price)),
          FMul(m.min_amount_order_index, FSub(1, m.min_amount_order_index)) = 0,
          max_minus_min_expected = m.max_minus_min_amount,
          constrain_greater_than_zero(m.max_minus_min_amount, SizeBits),
          FMul(2, m.base_amount) = FSub(FAdd(o1.amount, o2.amount), m.max_minus_min_amount),
          FpVarConstraintEqualInteger(expected_quote_amount, m.quote_amount),
          selected[1] = b1.mint,
          selected[3] = b2.mint,
          constrain_greater_than_eq(b1.amount, selected[2], AmountBits),
          constrain_greater_than_eq(b2.amount, selected[4], AmountBits)>>

Satisfied(constraints) == \A i \in 1..Len(constraints) : constraints[i]

-----------------------------------------------------------------------------
(* encumber.rs: the notes of a match *)

\* m is the match, r the rest of the handshake result: the fees and randomness
\* hashes of both parties
create_notes(m, r) ==
    LET net(fee) == FpSub(ScalarSubFp(1, fee.percentage_fee), PROTOCOL_FEE)
        share(fraction, amount) == U64(FpFloor(FpMulScalar(fraction, amount)))
        fee0 == r.party0_fee
        fee1 == r.party1_fee
        buys == m.direction = Buy
        Note(v1, d1, v2, d2, fee, fee_direction, type, randomness) ==
            [mint1 |-> m.base_mint, volume1 |-> v1, direction1 |-> d1,
             mint2 |-> m.quote_mint, volume2 |-> v2, direction2 |-> d2,
             fee_mint |-> fee.gas_addr, fee_volume |-> U64(fee.gas_token_amount),
             fee_direction |-> fee_direction, type_ |-> type, randomness |-> randomness]
    IN  [party0 |-> Note(IF buys THEN share(net(fee0), m.base_amount) ELSE U64(m.base_amount),
                         m.direction,
                         IF buys THEN U64(m.quote_amount) ELSE share(net(fee0), m.quote_amount),
                         opposite(m.direction), fee0, Sell, Match, r.party0_randomness_hash),
         party1 |-> Note(IF buys THEN U64(m.base_amount) ELSE share(net(fee1), m.base_amount),
                         opposite(m.direction),
                         IF buys THEN share(net(fee1), m.quote_amount) ELSE U64(m.quote_amount),
                         m.direction, fee1, Sell, Match, r.party1_randomness_hash),
         relayer0 |-> Note(IF buys THEN share(fee0.percentage_fee, m.base_amount) ELSE 0, Buy,
                           IF buys THEN 0 ELSE share(fee0.percentage_fee, m.quote_amount), Buy,
                           fee0, Buy, InternalTransfer, FAdd(r.party0_randomness_hash, 1)),
         relayer1 |-> Note(IF buys THEN 0 ELSE share(fee1.percentage_fee, m.base_amount), Buy,
                           IF buys THEN share(fee1.percentage_fee, m.quote_amount) ELSE 0, Buy,
                           fee1, Buy, InternalTransfer, FAdd(r.party1_randomness_hash, 1)),
         protocol |-> Note(share(PROTOCOL_FEE, m.base_amount), Buy,
                           share(PROTOCOL_FEE, m.quote_amount), Buy, ZeroFee, Buy,
                           InternalTransfer,
                           FAdd(r.party0_randomness_hash, r.party1_randomness_hash))]

\* The ciphertext of a value and the randomness it was made with
encrypt_scalar(val, pubkey, randomness) ==
    [c1 |-> PowRef(DEFAULT_ELGAMAL_GENERATOR, randomness),
     c2 |-> FMul(PowRef(pubkey, randomness), val)]

-----------------------------------------------------------------------------
(* VALID MATCH ENCRYPTION *)

\* The encryptions in the order in which the circuit takes their randomness
check_encryptions(witness, statement) ==
    LET n == witness.notes
        values == <<n.party0.volume1, n.party0.volume2, n.party1.volume1, n.party1.volume2,
                    n.protocol.mint1, n.protocol.volume1, n.protocol.mint2, n.protocol.volume2,
                    n.protocol.randomness>>
        keys == <<statement.pk_settle_party0, statement.pk_settle_party0,
                  statement.pk_settle_party1, statement.pk_settle_party1>>
                \o [i \in 1..5 |-> statement.pk_settle_protocol]
        c == statement.ciphertexts
        ciphertexts == <<c.volume1_ciphertext1, c.volume2_ciphertext1, c.volume1_ciphertext2,
                         c.volume2_ciphertext2, c.mint1_protocol_ciphertext,
                         c.volume1_protocol_ciphertext, c.mint2_protocol_ciphertext,
                         c.volume2_protocol_ciphertext, c.randomness_protocol_ciphertext>>
    IN  \A i \in 1..9 :
            LET e == ElGamalEncrypt(DEFAULT_ELGAMAL_GENERATOR, witness.elgamal_randomness[i],
                                    values[i], keys[i], ScalarMaxBits)
            IN  e.ok /\ e.c1 = ciphertexts[i].c1 /\ e.c2 = ciphertexts[i].c2

\* floor(fraction * amount), and whether the division is satisfied
ShareVar(fraction, amount) == FpVarFloor(FpVarMulInteger(fraction, amount))
NetFraction(fee, protocol_fee) == FpVarSub(IntegerSubFpVar(1, fee.percentage_fee), protocol_fee)
AllOnes(constraints) == Eq(FSum(constraints), Len(constraints)).val

\* One when the volumes are the shares and the other tests hold; the divisions
\* behind the shares are constrained in any case
VolumesMatch(volumes, shares, others) ==
    [ok |-> \A i \in 1..Len(shares) : shares[i].ok,
     val |-> AllOnes([i \in 1..Len(shares) |-> Eq(volumes[i], shares[i].val).val] \o others)]

\* A party buying the base mint pays the fees on it, its counterparty on the quote
party0_buy_base_constraints_satisfied(w, protocol_fee) ==
    VolumesMatch(<<w.notes.party0.volume1, w.notes.party1.volume2, w.notes.relayer0.volume1,
                   w.notes.relayer1.volume2>>,
                 <<ShareVar(NetFraction(w.party0_fee, protocol_fee), w.match_res.base_amount),
                   ShareVar(NetFraction(w.party1_fee, protocol_fee), w.match_res.quote_amount),
                   ShareVar(w.party0_fee.percentage_fee, w.match_res.base_amount),
                   ShareVar(w.party1_fee.percentage_fee, w.match_res.quote_amount)>>,
                 <<Eq(w.notes.party0.volume2, w.match_res.quote_amount).val,
                   Eq(w.notes.party1.volume1, w.match_res.base_amount).val,
                   Eq(w.notes.relayer0.volume2, 0).val, Eq(w.notes.relayer1.volume1, 0).val>>)
party1_buy_base_constraints_satisfied(w, protocol_fee) ==
    VolumesMatch(<<w.notes.party0.volume2, w.notes.party1.volume1, w.notes.relayer0.volume2,
                   w.notes.relayer1.volume1>>,
                 <<ShareVar(NetFraction(w.party0_fee, protocol_fee), w.match_res.quote_amount),
                   ShareVar(NetFraction(w.party1_fee, protocol_fee), w.match_res.base_amount),
                   ShareVar(w.party0_fee.percentage_fee, w.match_res.quote_amount),
                   ShareVar(w.party1_fee.percentage_fee, w.match_res.base_amount)>>,
                 <<Eq(w.notes.party0.volume1, w.match_res.base_amount).val,
                   Eq(w.notes.party1.volume2, w.match_res.quote_amount).val,
                   Eq(w.notes.relayer0.volume1, 0).val, Eq(w.notes.relayer1.volume2, 0).val>>)

\* What the circuit fixes of a note whatever the direction of the match
NoteFixed(note, m, direction1, direction2, fee_mint, fee_volume, fee_direction, type, randomness) ==
    /\ note.mint1 = m.base_mint /\ note.mint2 = m.quote_mint
    /\ note.direction1 = direction1 /\ note.direction2 = direction2
    /\ note.fee_mint = fee_mint /\ note.fee_volume = fee_volume
    /\ note.fee_direction = fee_direction /\ note.type_ = type /\ note.randomness = randomness

VolumesValid(direction, buy, sell) ==
    buy.ok /\ sell.ok /\ CondSelect(sell.val, buy.val, direction) = 1
IsShare(volume, share) == share.ok /\ volume = share.val

validate_notes(w, protocol_fee) ==
    LET m == w.match_res
        n == w.notes
        d == m.direction
    IN  /\ VolumesValid(d, party0_buy_base_constraints_satisfied(w, protocol_fee),
                        party1_buy_base_constraints_satisfied(w, protocol_fee))
        /\ IsShare(n.protocol.volume1, ShareVar(protocol_fee, m.base_amount))
        /\ IsShare(n.protocol.volume2, ShareVar(protocol_fee, m.quote_amount))
        /\ NoteFixed(n.party0, m, d, FSub(1, d), w.party0_fee.gas_addr,
                     w.party0_fee.gas_token_amount, 1, 1, w.party0_randomness_hash)
        /\ NoteFixed(n.party1, m, FSub(1, d), d, w.party1_fee.gas_addr,
                     w.party1_fee.gas_token_amount, 1, 1, w.party1_randomness_hash)
        /\ NoteFixed(n.relayer0, m, 0, 0, w.party0_fee.gas_addr,
                     w.party0_fee.gas_token_amount, 0, 0, FAdd(w.party0_randomness_hash, 1))
        /\ NoteFixed(n.relayer1, m, 0, 0, w.party1_fee.gas_addr,
                     w.party1_fee.gas_token_amount, 0, 0, FAdd(w.party1_randomness_hash, 1))
        /\ NoteFixed(n.protocol, m, 0, 0, 0, 0, 0, 0,
                     FAdd(w.party0_randomness_hash, w.party1_randomness_hash))

validate_note_commitments(n, s) ==
    /\ s.note_commits.party0 = note_commit(n.party0, s.pk_settle_party0)
    /\ s.note_commits.party1 = note_commit(n.party1, s.pk_settle_party1)
    /\ s.note_commits.relayer0 = note_commit(n.relayer0, s.pk_settle_relayer0)
    /\ s.note_commits.relayer1 = note_commit(n.relayer1, s.pk_settle_relayer1)
    /\ s.note_commits.protocol = note_commit(n.protocol, s.pk_settle_protocol)

ValidMatchEncryption(witness, statement) ==
    /\ check_encryptions(witness, statement)
    /\ validate_notes(witness, statement.protocol_fee)
    /\ validate_note_commitments(witness.notes, statement)
============================================================================
