---------------------------- MODULE Transcripts ----------------------------
(***************************************************************************)
(* What a prover and a verifier write to their proof transcripts.          *)
(*                                                                         *)
(* A proof of the circuits crate verifies only if the verifier commits to  *)
(* the same values in the same order as the prover did: the challenges are *)
(* hashes of the transcript.  The order is written out by hand in every    *)
(* CommitProver, CommitVerifier and CommitSharedProver implementation and  *)
(* in every flattening of a struct into a vector and back.  Each of them   *)
(* is a definition here.  A value is abstracted to its slot: the path of   *)
(* the field that holds it.                                                *)
(***************************************************************************)
EXTENDS Integers, Sequences, SequencesExt, TLC

CONSTANTS
    MAX_BALANCES, MAX_ORDERS, MAX_FEES,   \* the sizes of a wallet
    OpeningLength,                        \* the length of a Merkle opening
    VectorLength                          \* the length of a vector witness

(***************************************************************************)
(* A commit call on the struct at path p returns what it sends to the      *)
(* transcript, and the struct of commitments.  In a Named call every       *)
(* commitment is bound to the variable of its own field; in an Indexed one *)
(* the commitments come back as a vector, and read[i] is the field that    *)
(* takes the i-th.                                                         *)
(***************************************************************************)
Slots(p, fields) == [i \in DOMAIN fields |-> Append(p, fields[i])]

Indexed(p, fields, read) ==
    [sent |-> Slots(p, fields),
     comm |-> [f \in ToSet(read) |->
                   Append(p, fields[CHOOSE i \in DOMAIN read : read[i] = f])]]

Named(p, fields) == Indexed(p, fields, fields)

\* Several commit calls one after the other, each under the name of its field.
InOrder(parts) ==
    [sent |-> FlattenSeq([i \in DOMAIN parts |-> parts[i][2].sent]),
     comm |-> [f \in {parts[i][1] : i \in DOMAIN parts} |->
                   parts[CHOOSE i \in DOMAIN parts : parts[i][1] = f][2].comm]]

One(p, f) == <<f, [sent |-> <<Append(p, f)>>, comm |-> Append(p, f)]>>

\* An array of n structs under field f, each committed by Commit.
Array(p, f, n, Commit(_)) ==
    LET parts == [i \in 1..n |-> Commit(p \o <<f, i>>)] IN
    <<f, [sent |-> FlattenSeq([i \in 1..n |-> parts[i].sent]),
          comm |-> [i \in 1..n |-> parts[i].comm]]>>

Sub(p, f, Commit(_)) == <<f, Commit(Append(p, f))>>

Scalar1(p) == [sent |-> <<p>>, comm |-> p]

Scalars(p, f, n) == Array(p, f, n, Scalar1)

\* The verifier commits to the fields of a struct of commitments.
Replay(comm, fields) == [i \in DOMAIN fields |-> comm[fields[i]]]

ReplayEach(comms, CommitVerifier(_)) ==
    FlattenSeq([i \in DOMAIN comms |-> CommitVerifier(comms[i])])

-----------------------------------------------------------------------------
(* types/balance.rs *)

Balance == {"mint", "amount"}

Balance_commit_prover(p) == Named(p, <<"mint", "amount">>)

CommittedBalance_commit_verifier(c) == Replay(c, <<"mint", "amount">>)

LinkableBalance_commit_prover(p) == Named(p, <<"mint", "amount">>)

Balance_allocate(p) == Indexed(p, <<"mint", "amount">>, <<"mint", "amount">>)

Balance_commit(p) == Indexed(p, <<"mint", "amount">>, <<"mint", "amount">>)

AuthenticatedCommittedBalance_into_vec(c) == Replay(c, <<"mint", "amount">>)

AuthenticatedCommittedBalance_commit_verifier(c) == Replay(c, <<"mint", "amount">>)

-----------------------------------------------------------------------------
(* types/order.rs *)

Order == {"quote_mint", "base_mint", "side", "price", "amount", "timestamp"}

Order_commit_prover(p) ==
    Named(p, <<"quote_mint", "base_mint", "side", "price", "amount", "timestamp">>)

BaseMintFirst(c) ==
    Replay(c, <<"base_mint", "quote_mint", "side", "price", "amount", "timestamp">>)

CommittedOrder_commit_verifier(c) ==
    Replay(c, <<"quote_mint", "base_mint", "side", "price", "amount", "timestamp">>)

LinkableOrder_commit_prover(p) ==
    Named(p, <<"quote_mint", "base_mint", "side", "price", "amount", "timestamp">>)

Order_allocate(p) ==
    Indexed(p, <<"quote_mint", "base_mint", "side", "price", "amount", "timestamp">>,
               <<"quote_mint", "base_mint", "side", "price", "amount", "timestamp">>)

Order_commit(p) ==
    Indexed(p, <<"quote_mint", "base_mint", "side", "price", "amount", "timestamp">>,
               <<"quote_mint", "base_mint", "side", "price", "amount", "timestamp">>)

LinkableOrder_commit(p) ==
    Indexed(p, <<"quote_mint", "base_mint", "side", "price", "amount", "timestamp">>,
               <<"quote_mint", "base_mint", "side", "price", "amount", "timestamp">>)

AuthenticatedCommittedOrder_into_vec(c) ==
    Replay(c, <<"quote_mint", "base_mint", "side", "price", "amount", "timestamp">>)

AuthenticatedCommittedOrder_commit_verifier(c) ==
    AuthenticatedCommittedOrder_into_vec(c)

-----------------------------------------------------------------------------
(* types/fee.rs *)

Fee == {"settle_key", "gas_addr", "gas_token_amount", "percentage_fee"}

Fee_commit_prover(p) ==
    Named(p, <<"settle_key", "gas_addr", "gas_token_amount", "percentage_fee">>)

CommittedFee_commit_verifier(c) ==
    Replay(c, <<"settle_key", "gas_addr", "gas_token_amount", "percentage_fee">>)

LinkableFee_commit_prover(p) ==
    Named(p, <<"settle_key", "gas_addr", "gas_token_amount", "percentage_fee">>)

Fee_allocate(p) ==
    Indexed(p, <<"settle_key", "gas_addr", "gas_token_amount", "percentage_fee">>,
               <<"settle_key", "gas_addr", "gas_token_amount", "percentage_fee">>)

\* Values and blinders are interleaved: field i is at 2i - 1, its blinder at 2i.
LinkableFee_share_public(p) ==
    LET values == FlattenSeq([i \in 1..4 |->
                      LET f == <<"settle_key", "gas_addr", "gas_token_amount", "percentage_fee">>[i]
                      IN  <<Append(p, f), p \o <<f, "randomness">>>>])
        read(i) == [val |-> values[i], randomness |-> values[i + 1]]
    IN  [settle_key |-> read(1), gas_addr |-> read(3), gas_token_amount |-> read(5),
         percentage_fee |-> read(7)]

AuthenticatedFee_into_vec(p) ==
    Slots(p, <<"settle_key", "gas_addr", "gas_token_amount", "percentage_fee">>)

AuthenticatedFee_from_slice(v) ==
    [settle_key |-> v[1], gas_addr |-> v[2], gas_token_amount |-> v[3], percentage_fee |-> v[4]]

Fee_share_public(p) ==
    Indexed(p, <<"settle_key", "gas_addr", "gas_token_amount", "percentage_fee">>,
               <<"settle_key", "gas_addr", "gas_token_amount", "percentage_fee">>)

Fee_commit(p) ==
    Indexed(p, <<"settle_key", "gas_addr", "gas_token_amount", "percentage_fee">>,
               <<"settle_key", "gas_addr", "gas_token_amount", "percentage_fee">>)

AuthenticatedCommittedFee_into_vec(c) ==
    Replay(c, <<"settle_key", "gas_addr", "gas_token_amount", "percentage_fee">>)

AuthenticatedCommittedFee_commit_verifier(c) ==
    Replay(c, <<"settle_key", "gas_addr", "gas_token_amount", "percentage_fee">>)

-----------------------------------------------------------------------------
(* types/keychain.rs, types/note.rs and types/wallet.rs *)

KeyChain == {"pk_root", "pk_match", "pk_settle", "pk_view"}

KeyChain_commit_prover(p) == Named(p, <<"pk_root", "pk_match", "pk_settle", "pk_view">>)

CommittedKeyChain_commit_verifier(c) ==
    Replay(c, <<"pk_root", "pk_match", "pk_settle", "pk_view">>)

Note == {"mint1", "volume1", "direction1", "mint2", "volume2", "direction2",
         "fee_mint", "fee_volume", "fee_direction", "type_", "randomness"}

Note_commit_prover(p) ==
    Named(p, <<"mint1", "volume1", "direction1", "mint2", "volume2", "direction2",
               "fee_mint", "fee_volume", "fee_direction", "type_", "randomness">>)

CommittedNote_commit_verifier(c) ==
    Replay(c, <<"mint1", "volume1", "direction1", "mint2", "volume2", "direction2",
                "fee_mint", "fee_volume", "fee_direction", "type_", "randomness">>)

Wallet(p) ==
    UNION {{p \o <<"balances", i, f>> : i \in 1..MAX_BALANCES, f \in Balance},
           {p \o <<"orders", i, f>> : i \in 1..MAX_ORDERS, f \in Order},
           {p \o <<"fees", i, f>> : i \in 1..MAX_FEES, f \in Fee},
           {p \o <<"keys", f>> : f \in KeyChain},
           {Append(p, "randomness")}}

LastFeeForgotten(p) ==
    InOrder(<<Array(p, "balances", MAX_BALANCES, Balance_commit_prover),
              Array(p, "orders", MAX_ORDERS, Order_commit_prover),
              Array(p, "fees", MAX_FEES - 1, Fee_commit_prover),
              Sub(p, "keys", KeyChain_commit_prover),
              One(p, "randomness")>>)

Wallet_commit_prover(p) ==
    InOrder(<<Array(p, "balances", MAX_BALANCES, Balance_commit_prover),
              Array(p, "orders", MAX_ORDERS, Order_commit_prover),
              Array(p, "fees", MAX_FEES, Fee_commit_prover),
              Sub(p, "keys", KeyChain_commit_prover),
              One(p, "randomness")>>)

CommittedWallet_commit_verifier(c) ==
    ReplayEach(c.balances, CommittedBalance_commit_verifier)
    \o ReplayEach(c.orders, CommittedOrder_commit_verifier)
    \o ReplayEach(c.fees, CommittedFee_commit_verifier)
    \o CommittedKeyChain_commit_verifier(c.keys)
    \o <<c.randomness>>

-----------------------------------------------------------------------------
(* types/match.rs and types/handshake_tuple.rs *)

MatchResult == {"quote_mint", "base_mint", "quote_amount", "base_amount", "direction",
                "execution_price", "max_minus_min_amount", "min_amount_order_index"}

MatchResult_commit_prover(p) ==
    Named(p, <<"quote_mint", "base_mint", "quote_amount", "base_amount", "direction",
               "execution_price", "max_minus_min_amount", "min_amount_order_index">>)

CommittedMatchResult_commit_verifier(c) ==
    Replay(c, <<"quote_mint", "base_mint", "quote_amount", "base_amount", "direction",
                "execution_price", "max_minus_min_amount", "min_amount_order_index">>)

LinkableMatchResult_commit_prover(p) ==
    Named(p, <<"quote_mint", "base_mint", "quote_amount", "base_amount", "direction",
               "execution_price", "max_minus_min_amount", "min_amount_order_index">>)

AuthenticatedMatchResult_into_vec(p) ==
    Slots(p, <<"quote_mint", "base_mint", "quote_amount", "base_amount", "direction",
               "execution_price", "max_minus_min_amount", "min_amount_order_index">>)

MatchResult_try_from(v) ==
    [quote_mint |-> v[1], base_mint |-> v[2], quote_amount |-> v[3], base_amount |-> v[4],
     direction |-> v[5], execution_price |-> v[6], max_minus_min_amount |-> v[7],
     min_amount_order_index |-> v[8]]

AuthenticatedMatchResult_open(p) == MatchResult_try_from(AuthenticatedMatchResult_into_vec(p))

AuthenticatedMatchResult_commit(p) ==
    Indexed(p, <<"quote_mint", "base_mint", "quote_amount", "base_amount", "direction",
                 "execution_price", "max_minus_min_amount", "min_amount_order_index">>,
               <<"quote_mint", "base_mint", "quote_amount", "base_amount", "direction",
                 "execution_price", "max_minus_min_amount", "min_amount_order_index">>)

AuthenticatedLinkableMatchResult_commit(p) ==
    Indexed(p, <<"quote_mint", "base_mint", "quote_amount", "base_amount", "direction",
                 "execution_price", "max_minus_min_amount", "min_amount_order_index">>,
               <<"quote_mint", "base_mint", "quote_amount", "base_amount", "direction",
                 "execution_price", "max_minus_min_amount", "min_amount_order_index">>)

AuthenticatedCommittedMatchResult_into_vec(c) ==
    Replay(c, <<"quote_mint", "base_mint", "quote_amount", "base_amount", "direction",
                "execution_price", "max_minus_min_amount", "min_amount_order_index">>)

\* The opened match, each field with the blinder its next commitment will use.
\* The last two fields take their own value for a blinder.
AuthenticatedLinkableMatchResult_open(p) ==
    LET values == AuthenticatedMatchResult_into_vec(p)
        blinders == [i \in DOMAIN values |-> Append(values[i], "randomness")]
        read(i) == [val |-> values[i], randomness |-> blinders[i]]
    IN  [quote_mint |-> read(1), base_mint |-> read(2), quote_amount |-> read(3),
         base_amount |-> read(4), direction |-> read(5), execution_price |-> read(6),
         max_minus_min_amount |-> [val |-> values[7], randomness |-> values[7]],
         min_amount_order_index |-> [val |-> values[8], randomness |-> values[8]]]

\* One batch for the order and the balance of a party
HandshakeTuple_commit(p) ==
    LET o(f) == Append(Append(p, "order"), f)
        b(f) == Append(Append(p, "balance"), f)
        sent == <<o("quote_mint"), o("base_mint"), o("side"), o("price"), o("amount"),
                  o("timestamp"), b("mint"), b("amount")>>
    IN  [sent |-> sent,
         order |-> [quote_mint |-> sent[1], base_mint |-> sent[2], side |-> sent[3],
                    price |-> sent[4], amount |-> sent[5], timestamp |-> sent[6]],
         balance |-> [mint |-> sent[7], amount |-> sent[8]]]

-----------------------------------------------------------------------------
(***************************************************************************)
(* Circuits.  prove commits to the witness and then to the statement; the  *)
(* verifier is given the commitments and the statement.                    *)
(***************************************************************************)
W == <<"witness">>
Public(fields) == Slots(<<"statement">>, fields)

Under(p, fields) == {Append(p, f) : f \in fields}

MerkleOpening(p) == {p \o <<f, i>> : f \in {"elems", "indices"}, i \in 1..OpeningLength}

MerkleOpening_commit_prover(p) ==
    InOrder(<<Scalars(p, "elems", OpeningLength), Scalars(p, "indices", OpeningLength)>>)

MerkleOpening_commit_verifier(c) == c.elems \o c.indices

ElGamalCiphertext_commit_public(p) == Slots(p, <<"partial_shared_secret", "encrypted_message">>)

Ciphertexts(fields) ==
    FlattenSeq([i \in DOMAIN fields |->
                   ElGamalCiphertext_commit_public(<<"statement", fields[i]>>)])

(* VALID WALLET CREATE *)

ValidWalletCreateWitness(p) ==
    {p \o <<"fees", i, f>> : i \in 1..MAX_FEES, f \in Fee}
    \cup Under(Append(p, "keys"), KeyChain) \cup Under(p, {"wallet_randomness"})

ValidWalletCreateWitness_commit_prover(p) ==
    InOrder(<<Array(p, "fees", MAX_FEES, Fee_commit_prover),
              Sub(p, "keys", KeyChain_commit_prover),
              One(p, "wallet_randomness")>>)

ValidWalletCreateCommitment_commit_verifier(c) ==
    ReplayEach(c.fees, CommittedFee_commit_verifier)
    \o CommittedKeyChain_commit_verifier(c.keys)
    \o <<c.wallet_randomness>>

ValidWalletCreate_prove ==
    LET w == ValidWalletCreateWitness_commit_prover(W)
    IN  [sent |-> w.sent \o Public(<<"wallet_commitment">>), comm |-> w.comm]

ValidWalletCreate_verify(c) ==
    ValidWalletCreateCommitment_commit_verifier(c) \o Public(<<"wallet_commitment">>)

(* VALID WALLET UPDATE *)

ValidWalletUpdateWitness(p) ==
    Wallet(Append(p, "wallet1")) \cup Wallet(Append(p, "wallet2"))
    \cup MerkleOpening(Append(p, "wallet1_opening"))
    \cup Under(p, {"internal_transfer_mint", "internal_transfer_volume"})

ValidWalletUpdateWitness_commit_prover(p) ==
    InOrder(<<Sub(p, "wallet1", Wallet_commit_prover),
              Sub(p, "wallet2", Wallet_commit_prover),
              Sub(p, "wallet1_opening", MerkleOpening_commit_prover),
              One(p, "internal_transfer_mint"),
              One(p, "internal_transfer_volume")>>)

ValidWalletUpdateWitnessCommitment_commit_verifier(c) ==
    CommittedWallet_commit_verifier(c.wallet1)
    \o CommittedWallet_commit_verifier(c.wallet2)
    \o MerkleOpening_commit_verifier(c.wallet1_opening)
    \o Replay(c, <<"internal_transfer_mint", "internal_transfer_volume">>)

ValidWalletUpdate_prove ==
    LET w == ValidWalletUpdateWitness_commit_prover(W)
    IN  [sent |-> w.sent \o Public(<<"timestamp", "pk_root", "new_wallet_commitment",
                                     "wallet_match_nullifier", "wallet_spend_nullifier",
                                     "merkle_root", "external_transfer_mint",
                                     "external_transfer_volume", "external_transfer_direction">>),
         comm |-> w.comm]

ValidWalletUpdate_verify(c) ==
    ValidWalletUpdateWitnessCommitment_commit_verifier(c)
    \o Public(<<"timestamp", "pk_root", "new_wallet_commitment",
                "wallet_match_nullifier", "wallet_spend_nullifier",
                "merkle_root", "external_transfer_mint",
                "external_transfer_volume", "external_transfer_direction">>)

(* VALID COMMITMENTS *)

ValidCommitmentsWitness(p) ==
    Wallet(Append(p, "wallet")) \cup Under(Append(p, "order"), Order)
    \cup Under(Append(p, "balance"), Balance) \cup Under(Append(p, "fee_balance"), Balance)
    \cup Under(Append(p, "fee"), Fee) \cup MerkleOpening(Append(p, "wallet_opening"))
    \cup Under(p, {"randomness_hash", "sk_match"})

ValidCommitmentsWitness_commit_prover(p) ==
    InOrder(<<Sub(p, "wallet", Wallet_commit_prover),
              Sub(p, "order", LinkableOrder_commit_prover),
              Sub(p, "balance", LinkableBalance_commit_prover),
              Sub(p, "fee_balance", LinkableBalance_commit_prover),
              Sub(p, "fee", LinkableFee_commit_prover),
              Sub(p, "wallet_opening", MerkleOpening_commit_prover),
              One(p, "randomness_hash"),
              One(p, "sk_match")>>)

ValidCommitmentsWitnessCommitment_commit_verifier(c) ==
    CommittedWallet_commit_verifier(c.wallet)
    \o CommittedOrder_commit_verifier(c.order)
    \o CommittedBalance_commit_verifier(c.balance)
    \o CommittedBalance_commit_verifier(c.fee_balance)
    \o CommittedFee_commit_verifier(c.fee)
    \o MerkleOpening_commit_verifier(c.wallet_opening)
    \o Replay(c, <<"randomness_hash", "sk_match">>)

ValidCommitmentsStatement_commit_prover == Public(<<"nullifier", "merkle_root", "pk_settle">>)

ValidCommitmentsStatement_commit_verifier == Public(<<"nullifier", "merkle_root", "pk_settle">>)

ValidCommitments_prove ==
    LET w == ValidCommitmentsWitness_commit_prover(W)
    IN  [sent |-> w.sent \o ValidCommitmentsStatement_commit_prover, comm |-> w.comm]

ValidCommitments_verify(c) ==
    ValidCommitmentsWitnessCommitment_commit_verifier(c)
    \o ValidCommitmentsStatement_commit_verifier

(* VALID SETTLE *)

WalletCiphertexts ==
    FlattenSeq([i \in 1..(2 * MAX_BALANCES + 8 * MAX_ORDERS + 4 * MAX_FEES + 5) |->
                   ElGamalCiphertext_commit_public(<<"statement", "post_wallet_ciphertext", i>>)])

ValidSettleWitness(p) ==
    Wallet(Append(p, "pre_wallet")) \cup Wallet(Append(p, "post_wallet"))
    \cup MerkleOpening(Append(p, "pre_wallet_opening"))
    \cup MerkleOpening(Append(p, "note_opening"))
    \cup Under(Append(p, "note"), Note) \cup Under(p, {"note_commitment", "sk_settle"})

ValidSettleWitness_commit_prover(p) ==
    InOrder(<<Sub(p, "pre_wallet", Wallet_commit_prover),
              Sub(p, "pre_wallet_opening", MerkleOpening_commit_prover),
              Sub(p, "post_wallet", Wallet_commit_prover),
              Sub(p, "note", Note_commit_prover),
              One(p, "note_commitment"),
              Sub(p, "note_opening", MerkleOpening_commit_prover),
              One(p, "sk_settle")>>)

ValidSettleWitnessCommitment_commit_verifier(c) ==
    CommittedWallet_commit_verifier(c.pre_wallet)
    \o MerkleOpening_commit_verifier(c.pre_wallet_opening)
    \o CommittedWallet_commit_verifier(c.post_wallet)
    \o CommittedNote_commit_verifier(c.note)
    \o <<c.note_commitment>>
    \o MerkleOpening_commit_verifier(c.note_opening)
    \o <<c.sk_settle>>

ValidSettleStatement_commit_prover ==
    Public(<<"post_wallet_commit">>) \o WalletCiphertexts
    \o Public(<<"wallet_spend_nullifier", "wallet_match_nullifier", "note_redeem_nullifier",
                "merkle_root", "type_">>)

ValidSettleStatement_commit_verifier ==
    Public(<<"post_wallet_commit">>) \o WalletCiphertexts
    \o Public(<<"wallet_spend_nullifier", "wallet_match_nullifier", "note_redeem_nullifier",
                "merkle_root", "type_">>)

ValidSettle_prove ==
    LET w == ValidSettleWitness_commit_prover(W)
    IN  [sent |-> w.sent \o ValidSettleStatement_commit_prover, comm |-> w.comm]

ValidSettle_verify(c) ==
    ValidSettleWitnessCommitment_commit_verifier(c) \o ValidSettleStatement_commit_verifier

(* VALID MATCH ENCRYPTION *)

NUM_ENCRYPTIONS == 9

ValidMatchEncryptionWitness(p) ==
    Under(Append(p, "match_res"), MatchResult)
    \cup Under(Append(p, "party0_fee"), Fee) \cup Under(Append(p, "party1_fee"), Fee)
    \cup Under(p, {"party0_randomness_hash", "party1_randomness_hash"})
    \cup UNION {Under(Append(p, n), Note) : n \in {"party0_note", "party1_note",
                   "relayer0_note", "relayer1_note", "protocol_note"}}
    \cup {p \o <<"elgamal_randomness", i>> : i \in 1..NUM_ENCRYPTIONS}

ValidMatchEncryptionWitness_commit_prover(p) ==
    InOrder(<<Sub(p, "match_res", LinkableMatchResult_commit_prover),
              Sub(p, "party0_fee", LinkableFee_commit_prover),
              Sub(p, "party1_fee", LinkableFee_commit_prover),
              One(p, "party0_randomness_hash"),
              One(p, "party1_randomness_hash"),
              Sub(p, "party0_note", Note_commit_prover),
              Sub(p, "party1_note", Note_commit_prover),
              Sub(p, "relayer0_note", Note_commit_prover),
              Sub(p, "relayer1_note", Note_commit_prover),
              Sub(p, "protocol_note", Note_commit_prover),
              Scalars(p, "elgamal_randomness", NUM_ENCRYPTIONS)>>)

ValidMatchEncryptionWitnessCommitment_commit_verifier(c) ==
    CommittedMatchResult_commit_verifier(c.match_res)
    \o CommittedFee_commit_verifier(c.party0_fee)
    \o CommittedFee_commit_verifier(c.party1_fee)
    \o Replay(c, <<"party0_randomness_hash", "party1_randomness_hash">>)
    \o CommittedNote_commit_verifier(c.party0_note)
    \o CommittedNote_commit_verifier(c.party1_note)
    \o CommittedNote_commit_verifier(c.relayer0_note)
    \o CommittedNote_commit_verifier(c.relayer1_note)
    \o CommittedNote_commit_verifier(c.protocol_note)
    \o c.elgamal_randomness

ValidMatchEncryptionStatement_commit_prover ==
    Public(<<"party0_note_commit", "party1_note_commit", "relayer0_note_commit",
             "relayer1_note_commit", "protocol_note_commit", "pk_settle_party0",
             "pk_settle_party1", "pk_settle_relayer0", "pk_settle_relayer1",
             "pk_settle_protocol", "protocol_fee">>)
    \o Ciphertexts(<<"volume1_ciphertext1", "volume2_ciphertext1", "volume1_ciphertext2",
                     "volume2_ciphertext2", "mint1_protocol_ciphertext",
                     "volume1_protocol_ciphertext", "mint2_protocol_ciphertext",
                     "volume2_protocol_ciphertext", "randomness_protocol_ciphertext">>)

ValidMatchEncryptionStatement_commit_verifier ==
    Public(<<"party0_note_commit", "party1_note_commit", "relayer0_note_commit",
             "relayer1_note_commit", "protocol_note_commit", "pk_settle_party0",
             "pk_settle_party1", "pk_settle_relayer0", "pk_settle_relayer1",
             "pk_settle_protocol", "protocol_fee">>)
    \o Ciphertexts(<<"volume1_ciphertext1", "volume2_ciphertext1", "volume1_ciphertext2",
                     "volume2_ciphertext2", "mint1_protocol_ciphertext",
                     "volume1_protocol_ciphertext", "mint2_protocol_ciphertext",
                     "volume2_protocol_ciphertext", "randomness_protocol_ciphertext">>)

ValidMatchEncryption_prove ==
    LET w == ValidMatchEncryptionWitness_commit_prover(W)
    IN  [sent |-> w.sent \o ValidMatchEncryptionStatement_commit_prover, comm |-> w.comm]

ValidMatchEncryption_verify(c) ==
    ValidMatchEncryptionWitnessCommitment_commit_verifier(c)
    \o ValidMatchEncryptionStatement_commit_verifier

(* VALID MATCH MPC: the two provers commit together, flatten the shared      *)
(* commitments, open them and rebuild the struct the verifier reads.         *)

ValidMatchMpcWitness ==
    UNION {Under(<<p, "order">>, Order) \cup Under(<<p, "balance">>, Balance) :
               p \in {"party0", "party1"}}
    \cup Under(<<"match_res">>, MatchResult)

ValidMatchMpc_prove ==
    LET party0 == HandshakeTuple_commit(<<"party0">>)
        party1 == HandshakeTuple_commit(<<"party1">>)
        match == AuthenticatedLinkableMatchResult_commit(<<"match_res">>)
    IN  [sent |-> party0.sent \o party1.sent \o match.sent,
         comm |-> [order1 |-> party0.order, balance1 |-> party0.balance,
                   order2 |-> party1.order, balance2 |-> party1.balance,
                   match_result |-> match.comm]]

ValidMatchCommitmentShared_into_vec(c) ==
    AuthenticatedCommittedOrder_into_vec(c.order1)
    \o AuthenticatedCommittedBalance_into_vec(c.balance1)
    \o AuthenticatedCommittedOrder_into_vec(c.order2)
    \o AuthenticatedCommittedBalance_into_vec(c.balance2)
    \o AuthenticatedCommittedMatchResult_into_vec(c.match_result)

ValidMatchCommitment_from_slice(v) ==
    [order1 |-> [quote_mint |-> v[1], base_mint |-> v[2], side |-> v[3], price |-> v[4],
                 amount |-> v[5], timestamp |-> v[6]],
     balance1 |-> [mint |-> v[7], amount |-> v[8]],
     order2 |-> [quote_mint |-> v[9], base_mint |-> v[10], side |-> v[11], price |-> v[12],
                 amount |-> v[13], timestamp |-> v[14]],
     balance2 |-> [mint |-> v[15], amount |-> v[16]],
     match_result |-> [quote_mint |-> v[17], base_mint |-> v[18], quote_amount |-> v[19],
                       base_amount |-> v[20], direction |-> v[21], execution_price |-> v[22],
                       max_minus_min_amount |-> v[23], min_amount_order_index |-> v[24]]]

ValidMatchCommitmentShared_open(c) ==
    ValidMatchCommitment_from_slice(ValidMatchCommitmentShared_into_vec(c))

ValidMatchMpc_verify(c) ==
    CommittedOrder_commit_verifier(c.order1)
    \o CommittedBalance_commit_verifier(c.balance1)
    \o CommittedOrder_commit_verifier(c.order2)
    \o CommittedBalance_commit_verifier(c.balance2)
    \o CommittedMatchResult_commit_verifier(c.match_result)

-----------------------------------------------------------------------------
(* The gadgets that are circuits of their own *)

Witness(fields, public) ==
    LET w == Named(W, fields) IN [sent |-> w.sent \o Public(public), comm |-> w.comm]

EqZero_prove == Witness(<<"val">>, <<"expected">>)
EqZero_verify(c) == <<c.val>> \o Public(<<"expected">>)

GreaterThanEqZero_prove == Witness(<<"val">>, <<>>)
GreaterThanEqZero_verify(c) == <<c.val>>

GreaterThanEq_prove == Witness(<<"a", "b">>, <<>>)
GreaterThanEq_verify(c) == <<c.a, c.b>>

Exp_prove == Witness(<<"x">>, <<"expected_out">>)
Exp_verify(c) == <<c.x>> \o Public(<<"expected_out">>)

MultiproverExp_prove == Witness(<<"x">>, <<"expected_out">>)
MultiproverExp_verify(c) == Exp_verify(c)

PrivateExp_prove == Witness(<<"x", "alpha">>, <<"expected_out">>)
PrivateExp_verify(c) == <<c.x, c.alpha>> \o Public(<<"expected_out">>)

PublicBits == [i \in 1..VectorLength |-> <<"statement", "bits", i>>]

ToBits_prove == LET w == Witness(<<"val">>, <<>>) IN [w EXCEPT !.sent = @ \o PublicBits]
ToBits_verify(c) == <<c.val>> \o PublicBits

MultiproverToBits_prove == LET w == Witness(<<"val">>, <<>>) IN [w EXCEPT !.sent = @ \o PublicBits]
MultiproverToBits_verify(c) == ToBits_verify(c)

CondSelect_prove == Witness(<<"a", "b", "selector">>, <<"expected">>)
CondSelect_verify(c) == <<c.a, c.b, c.selector>> \o Public(<<"expected">>)

\* The commitments of a vector selection travel as one vector
CondSelectVector_prove ==
    LET w == InOrder(<<Scalars(W, "a", VectorLength), Scalars(W, "b", VectorLength),
                       One(W, "selector")>>)
    IN  [sent |-> w.sent \o Scalars(<<"statement">>, "expected", VectorLength)[2].sent,
         comm |-> w.comm.a \o w.comm.b \o <<w.comm.selector>>]
CondSelectVector_verify(c) ==
    SubSeq(c, 1, VectorLength) \o SubSeq(c, VectorLength + 1, 2 * VectorLength)
    \o <<c[2 * VectorLength + 1]>>
    \o Scalars(<<"statement">>, "expected", VectorLength)[2].sent

PoseidonHash_prove ==
    LET w == Scalars(W, "preimage", VectorLength)[2]
    IN  [sent |-> w.sent \o Public(<<"expected_out">>), comm |-> w.comm]
PoseidonHash_verify(c) == c \o Public(<<"expected_out">>)

MultiproverPoseidonHash_prove ==
    LET w == Scalars(W, "preimage", VectorLength)[2]
    IN  [sent |-> w.sent \o Public(<<"expected_out">>), comm |-> w.comm]
MultiproverPoseidonHash_verify(c) == PoseidonHash_verify(c)

MerkleWitness_commit_prover(p) ==
    InOrder(<<Sub(p, "opening", MerkleOpening_commit_prover),
              Scalars(p, "leaf_data", VectorLength)>>)
MerkleWitness_commit_verifier(c) == MerkleOpening_commit_verifier(c.opening) \o c.leaf_data

Merkle_prove ==
    LET w == MerkleWitness_commit_prover(W)
    IN  [sent |-> w.sent \o Public(<<"expected_root">>), comm |-> w.comm]
Merkle_verify(c) == MerkleWitness_commit_verifier(c) \o Public(<<"expected_root">>)

ElGamalWitness_commit_prover(p) == Named(p, <<"randomness", "plaintext">>)
ElGamalWitness_commit_verifier(c) == Replay(c, <<"randomness", "plaintext">>)

ElGamal_prove ==
    LET w == ElGamalWitness_commit_prover(W)
    IN  [sent |-> w.sent \o Public(<<"pub_key", "ciphertext_0", "ciphertext_1">>),
         comm |-> w.comm]
ElGamal_verify(c) ==
    ElGamalWitness_commit_verifier(c) \o Public(<<"pub_key", "ciphertext_0", "ciphertext_1">>)

-----------------------------------------------------------------------------
(***************************************************************************)
(* Every proof an honest prover makes and an honest verifier checks: what  *)
(* each writes to its transcript, and the fields of the witness.           *)
(***************************************************************************)
Pair(fields, proved, verify(_)) ==
    [fields |-> fields, sent |-> proved.sent, replayed |-> verify(proved.comm)]

StructProofs ==
    [balance |-> Pair(Under(W, Balance), Balance_commit_prover(W),
                      CommittedBalance_commit_verifier),
     linkable_balance |-> Pair(Under(W, Balance), LinkableBalance_commit_prover(W),
                               CommittedBalance_commit_verifier),
     shared_balance |-> Pair(Under(W, Balance), Balance_commit(W),
                             AuthenticatedCommittedBalance_commit_verifier),
     allocated_balance |-> Pair(Under(W, Balance), Balance_allocate(W),
                                AuthenticatedCommittedBalance_into_vec),
     order |-> Pair(Under(W, Order), Order_commit_prover(W), CommittedOrder_commit_verifier),
     linkable_order |-> Pair(Under(W, Order), LinkableOrder_commit_prover(W),
                             CommittedOrder_commit_verifier),
     shared_order |-> Pair(Under(W, Order), Order_commit(W),
                           AuthenticatedCommittedOrder_commit_verifier),
     shared_linkable_order |-> Pair(Under(W, Order), LinkableOrder_commit(W),
                                    AuthenticatedCommittedOrder_commit_verifier),
     allocated_order |-> Pair(Under(W, Order), Order_allocate(W),
                              AuthenticatedCommittedOrder_into_vec),
     fee |-> Pair(Under(W, Fee), Fee_commit_prover(W), CommittedFee_commit_verifier),
     linkable_fee |-> Pair(Under(W, Fee), LinkableFee_commit_prover(W),
                           CommittedFee_commit_verifier),
     shared_fee |-> Pair(Under(W, Fee), Fee_commit(W),
                         AuthenticatedCommittedFee_commit_verifier),
     allocated_fee |-> Pair(Under(W, Fee), Fee_allocate(W),
                            AuthenticatedCommittedFee_into_vec),
     public_fee |-> Pair(Under(W, Fee), Fee_share_public(W), AuthenticatedCommittedFee_into_vec),
     match |-> Pair(Under(W, MatchResult), MatchResult_commit_prover(W),
                    CommittedMatchResult_commit_verifier),
     shared_match |-> Pair(Under(W, MatchResult), AuthenticatedMatchResult_commit(W),
                           AuthenticatedCommittedMatchResult_into_vec)]

CircuitProofs ==
    [valid_wallet_create |-> Pair(ValidWalletCreateWitness(W), ValidWalletCreate_prove,
                                  ValidWalletCreate_verify),
     valid_wallet_update |-> Pair(ValidWalletUpdateWitness(W), ValidWalletUpdate_prove,
                                  ValidWalletUpdate_verify),
     valid_commitments |-> Pair(ValidCommitmentsWitness(W), ValidCommitments_prove,
                                ValidCommitments_verify),
     valid_settle |-> Pair(ValidSettleWitness(W), ValidSettle_prove, ValidSettle_verify),
     valid_match_encryption |-> Pair(ValidMatchEncryptionWitness(W), ValidMatchEncryption_prove,
                                     ValidMatchEncryption_verify),
     valid_match_mpc |-> Pair(ValidMatchMpcWitness, ValidMatchMpc_prove,
                              LAMBDA c : ValidMatchMpc_verify(ValidMatchCommitmentShared_open(c)))]

GadgetProofs ==
    [eq_zero |-> Pair({}, EqZero_prove, EqZero_verify),
     greater_than_eq_zero |-> Pair({}, GreaterThanEqZero_prove, GreaterThanEqZero_verify),
     greater_than_eq |-> Pair({}, GreaterThanEq_prove, GreaterThanEq_verify),
     exp |-> Pair({}, Exp_prove, Exp_verify),
     multiprover_exp |-> Pair({}, MultiproverExp_prove, MultiproverExp_verify),
     private_exp |-> Pair({}, PrivateExp_prove, PrivateExp_verify),
     to_bits |-> Pair({}, ToBits_prove, ToBits_verify),
     multiprover_to_bits |-> Pair({}, MultiproverToBits_prove, MultiproverToBits_verify),
     cond_select |-> Pair({}, CondSelect_prove, CondSelect_verify),
     cond_select_vector |-> Pair({}, CondSelectVector_prove, CondSelectVector_verify),
     poseidon |-> Pair({}, PoseidonHash_prove, PoseidonHash_verify),
     multiprover_poseidon |-> Pair({}, MultiproverPoseidonHash_prove,
                                   MultiproverPoseidonHash_verify),
     merkle |-> Pair({}, Merkle_prove, Merkle_verify),
     elgamal |-> Pair({}, ElGamal_prove, ElGamal_verify)]

-----------------------------------------------------------------------------
(* Structs that travel between the parties and are read back *)

\* A struct with blinders: every field is opened with the blinder of its own
\* first commitment, so that its next commitment is the same.
Linked(p, fields, opened) ==
    [fields |-> {},
     sent |-> [i \in DOMAIN fields |-> <<Append(p, fields[i]), p \o <<fields[i], "randomness">>>>],
     replayed |-> [i \in DOMAIN fields |-> <<opened[fields[i]].val, opened[fields[i]].randomness>>]]

ReadBack ==
    [linkable_fee_shared |->
        Linked(W, <<"settle_key", "gas_addr", "gas_token_amount", "percentage_fee">>,
               LinkableFee_share_public(W)),
     fee_from_slice |->
        Pair({}, [sent |-> AuthenticatedFee_into_vec(W),
                  comm |-> AuthenticatedFee_from_slice(AuthenticatedFee_into_vec(W))],
             AuthenticatedCommittedFee_into_vec),
     match_opened |->
        Pair({}, [sent |-> AuthenticatedMatchResult_into_vec(W),
                  comm |-> AuthenticatedMatchResult_open(W)],
             AuthenticatedCommittedMatchResult_into_vec),
     \* The fields VALID MATCH ENCRYPTION uses.  max_minus_min_amount and
     \* min_amount_order_index are not linked.
     match_linked |->
        Linked(W, <<"quote_mint", "base_mint", "quote_amount", "base_amount", "direction",
                    "execution_price">>, AuthenticatedLinkableMatchResult_open(W))]

HonestProofs == StructProofs @@ CircuitProofs @@ GadgetProofs @@ ReadBack
=============================================================================
