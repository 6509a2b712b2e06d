------------------------------ MODULE Darkpool -----------------------------
(***************************************************************************)
(* The life of wallets and notes through the six circuits: wallets are     *)
(* created and updated, the relayer proves VALID COMMITMENTS for an order, *)
(* two orders are matched in the fabric, the match becomes five notes and  *)
(* the notes are settled into wallets.                                     *)
(*                                                                         *)
(* The provers are the relayer's (proof_manager.rs, initialize.rs, match.rs*)
(* and encumber.rs under core/src); wallet owners, who prove updates and   *)
(* settlements, follow the circuits.  The contract is external: it verifies*)
(* a proof, refuses a nullifier it has seen and inserts commitments.       *)
(***************************************************************************)
EXTENDS Matching

CONSTANTS Owners,
          Mints,
          Secrets,            \* owner -> the secrets behind the wallet's keys
          Fees,               \* owner -> MAX_FEES fees
          InitialRandomness,  \* owner -> the wallet's first randomness
          Transfers,          \* owner -> [external, internal] transfers the owner may make
          NewOrders,          \* owner -> orders the owner may place
          Cluster,            \* owner -> the owner whose key gets the relayer's notes
          ElGamalDraws,       \* the randomness of the nine encryptions of a match
          MaxUpdates          \* updates per wallet

ASSUME OwnersFinite == IsFiniteSet(Owners)
ASSUME MintsNonzero == Mints \subseteq Scalar \ {0}

\* A settle key tells whose note it is
ASSUME KeysDistinct ==
    \A o1, o2 \in Owners :
        compute_poseidon_hash(Secrets[o1].settle) = compute_poseidon_hash(Secrets[o2].settle)
            => o1 = o2

\* The relayer and the protocol take no more than all of a match
ASSUME FeesFit ==
    \A o \in Owners :
        /\ Fees[o][1].gas_addr \in Scalar /\ Fees[o][1].gas_token_amount \in Scalar
        /\ Fees[o][1].percentage_fee \in Nat
        /\ Fees[o][1].percentage_fee + PROTOCOL_FEE <= 2^Precision

ASSUME InputsTyped ==
    \A o \in Owners :
        /\ InitialRandomness[o] \in Scalar
        /\ \A t \in Transfers[o] : \A x \in {t.external, t.internal} :
              x.mint \in Scalar /\ x.volume \in 0..(2^AmountBits) /\ x.direction \in {0, 1}
        /\ NewOrders[o] \subseteq [quote_mint : Scalar, base_mint : Scalar, side : {0, 1},
                                   price : Scalar, amount : Scalar, timestamp : Nat]

\* Gas is paid in a mint the owner's orders do not trade: nothing in the
\* circuits adds up what a match sells and what it pays for gas
ASSUME GasNotTraded ==
    \A o \in Owners : \A order \in NewOrders[o] :
        Fees[o][1].gas_addr \notin {order.quote_mint, order.base_mint}

VARIABLES wallets,      \* owner -> current wallet
          root,         \* the commitments in the contract's tree
          nullifiers,   \* the nullifiers the contract has seen
          notes,        \* unredeemed notes with the settle key of their receiver
          vault,        \* mint -> what the contract holds
          proofs,       \* owner -> witness of the last VALID COMMITMENTS proof
          result,       \* the handshake results not submitted yet
          verdict,      \* the last proof: its circuit and whether it verifies
          updates       \* owner -> number of updates

vars == <<wallets, root, nullifiers, notes, vault, proofs, result, verdict, updates>>

\* f with v for x, which may be new
Put(f, x, v) == [y \in DOMAIN f \cup {x} |-> IF y = x THEN v ELSE f[y]]

Prove(circuit, ok) == verdict' = [circuit |-> circuit, ok |-> ok]

KeysOf(o) == [pk_root |-> Secrets[o].root,
              pk_match |-> compute_poseidon_hash(Secrets[o].match),
              pk_settle |-> compute_poseidon_hash(Secrets[o].settle),
              pk_view |-> Secrets[o].view]

SpendNullifier(w) == spend_nullifier(w.randomness, wallet_commit(w))
MatchNullifier(w) == match_nullifier(w.randomness, wallet_commit(w))
RedeemNullifier(n) == note_redeem_nullifier(n.key, note_commit(n.note, n.key))

Init == /\ wallets = <<>> /\ proofs = <<>>
        /\ root = {} /\ nullifiers = {} /\ notes = {} /\ result = {}
        /\ vault = [m \in Mints |-> 0]
        /\ verdict = [circuit |-> "none", ok |-> TRUE]
        /\ updates = [o \in Owners |-> 0]

-----------------------------------------------------------------------------
(* Wallets *)

\* proof_manager.rs: the statement is the native commitment of an empty wallet
prove_valid_wallet_create(o) ==
    LET wallet == [balances |-> [i \in 1..MAX_BALANCES |-> ZeroBalance],
                   orders |-> [i \in 1..MAX_ORDERS |-> ZeroOrder],
                   fees |-> Fees[o], keys |-> KeysOf(o), randomness |-> InitialRandomness[o]]
        commitment == compute_wallet_commitment(wallet)
        ok == ValidWalletCreate([fees |-> wallet.fees, keys |-> wallet.keys,
                                 randomness |-> wallet.randomness], commitment)
    IN  /\ o \notin DOMAIN wallets
        /\ Prove("VALID WALLET CREATE", ok)
        /\ IF ok THEN wallets' = Put(wallets, o, wallet) /\ root' = root \cup {commitment}
                 ELSE UNCHANGED <<wallets, root>>
        /\ UNCHANGED <<nullifiers, notes, vault, proofs, result, updates>>

MintsOf(w) == [i \in 1..MAX_BALANCES |-> w.balances[i].mint]

\* A mint the wallet does not hold takes the first free slot, if there is one
WithMint(mints, mint) ==
    IF mint \in Range(mints) \/ 0 \notin Range(mints) THEN mints
    ELSE [mints EXCEPT ![CHOOSE i \in 1..MAX_BALANCES :
                             mints[i] = 0 /\ \A j \in 1..(i - 1) : mints[j] # 0] = mint]

Holding(w, mint) == SumFunction([i \in 1..MAX_BALANCES |->
                                    IF w.balances[i].mint = mint THEN w.balances[i].amount ELSE 0])

\* A new order replaces the one on its pair, or takes the first free slot
OrderSlots(w, order) ==
    LET same == {i \in 1..MAX_ORDERS : /\ w.orders[i].quote_mint = order.quote_mint
                                       /\ w.orders[i].base_mint = order.base_mint}
        free == {i \in 1..MAX_ORDERS : w.orders[i] = ZeroOrder}
        slots == IF same # {} THEN same ELSE free
    IN  {i \in slots : \A j \in slots : i <= j}

WithOrder(w, order, timestamp) ==
    {[w.orders EXCEPT ![i] =
         IF orders_equal_except_timestamp(order, @) = 1 THEN @
         ELSE [order EXCEPT !.timestamp = timestamp]] : i \in OrderSlots(w, order)}

\* The owner moves value they hold and may place an order; the contract takes
\* the update if neither nullifier of the old wallet has been used
Updated(old, transfer, mints, orders) ==
    [old EXCEPT
       !.balances = [i \in 1..MAX_BALANCES |->
                        [mint |-> mints[i],
                         amount |-> expected_amount(mints[i], old, transfer.internal,
                                                    transfer.external)]],
       !.orders = orders,
       !.randomness = FAdd(@, 2)]
UpdateVerifies(old, new, transfer, timestamp) ==
    ValidWalletUpdate(
        [wallet1 |-> old, wallet2 |-> new, internal_transfer |-> transfer.internal],
        [new_wallet_commitment |-> compute_wallet_commitment(new), merkle_root |-> root,
         wallet_spend_nullifier |->
             compute_wallet_spend_nullifier(old, compute_wallet_commitment(old)),
         wallet_match_nullifier |->
             compute_wallet_match_nullifier(old, compute_wallet_commitment(old)),
         pk_root |-> old.keys.pk_root, external_transfer |-> transfer.external,
         timestamp |-> timestamp])

UpdateWallet(o, transfer, orders) ==
    LET old == wallets[o]
        external == transfer.external
        internal == transfer.internal
    IN  /\ updates[o] < MaxUpdates
        /\ internal.volume + (IF external.direction = 1 THEN external.volume ELSE 0)
              <= Holding(old, IF external.direction = 1 THEN external.mint ELSE internal.mint)
        /\ {SpendNullifier(old), MatchNullifier(old)} \cap nullifiers = {}
        /\ \E new \in {Updated(old, transfer,
                              IF external.direction = 0 THEN WithMint(MintsOf(old), external.mint)
                              ELSE MintsOf(old), orders)} :
           \E ok \in {UpdateVerifies(old, new, transfer, updates[o] + 1)} :
             /\ Prove("VALID WALLET UPDATE", ok)
             /\ IF ok
                 THEN /\ wallets' = [wallets EXCEPT ![o] = new]
                      /\ root' = root \cup {wallet_commit(new)}
                      /\ nullifiers' = nullifiers \cup {SpendNullifier(old), MatchNullifier(old)}
                      /\ vault' = [m \in Mints |->
                                      IF m # external.mint THEN vault[m]
                                      ELSE IF external.direction = 0 THEN vault[m] + external.volume
                                      ELSE vault[m] - external.volume]
                      /\ updates' = [updates EXCEPT ![o] = @ + 1]
                 ELSE UNCHANGED <<wallets, root, nullifiers, vault, updates>>
        /\ UNCHANGED <<notes, proofs, result>>

-----------------------------------------------------------------------------
(* Matching *)

\* state/wallet.rs: the order, the balance it sells from, the wallet's first
\* fee and the balance that pays its gas, when they cover the order
get_order_balance_and_fee(w, order) ==
    LET order_mint == IF order.side = Buy THEN order.quote_mint ELSE order.base_mint
        order_amount == IF order.side = Buy THEN (order.amount * order.price) \div 2^Precision
                        ELSE order.amount
        fee == w.fees[1]
        held(mint) == {b \in Range(w.balances) : b.mint = mint /\ mint # 0}
    IN  {[order |-> order, balance |-> b, fee |-> fee, fee_balance |-> g] :
            b \in {c \in held(order_mint) : c.amount >= order_amount},
            g \in {c \in held(fee.gas_addr) : c.amount >= fee.gas_token_amount}}

\* proof_manager.rs
prove_valid_commitments(witness, statement) ==
    Prove("VALID COMMITMENTS", ValidCommitments(witness, statement))
prove_valid_match_encrypt(witness, statement) ==
    Prove("VALID MATCH ENCRYPTION", ValidMatchEncryption(witness, statement))

\* initialize.rs: the relayer proves VALID COMMITMENTS for an order it manages
\* and keeps the witness for the handshakes on it
initialize_wallets(o) ==
    \E order \in Range(wallets[o].orders) \ {ZeroOrder} :
    \E found \in get_order_balance_and_fee(wallets[o], order) :
        LET w == wallets[o]
            witness == [wallet |-> w, order |-> found.order, balance |-> found.balance,
                        fee |-> found.fee, fee_balance |-> found.fee_balance,
                        randomness_hash |-> compute_poseidon_hash(w.randomness),
                        sk_match |-> Secrets[o].match]
            statement == [nullifier |->
                             compute_wallet_match_nullifier(w, compute_wallet_commitment(w)),
                          merkle_root |-> root, pk_settle |-> w.keys.pk_settle]
        IN  /\ o \in DOMAIN proofs => proofs[o] # witness
            /\ prove_valid_commitments(witness, statement)
            /\ proofs' = Put(proofs, o, witness)
            /\ UNCHANGED <<wallets, root, nullifiers, notes, vault, result, updates>>

\* match.rs: the match is computed from the orders of both witnesses, proved,
\* and kept only if the proof verifies
MatchOf(a, b) == compute_match(a.order, b.order)
ProverTrace(a, b, m) == matching_engine_check(a.order, b.order, a.balance, b.balance, m)
VerifierTrace(a, b, m) ==
    matching_engine_check_single_prover(a.order, b.order, a.balance, b.balance, m)

build_handshake_result(o1, o2, a, b, m) ==
    [party0 |-> o1, party1 |-> o2, match_ |-> m, submitted |-> FALSE,
     party0_fee |-> a.fee, party1_fee |-> b.fee,
     party0_randomness_hash |-> a.randomness_hash,
     party1_randomness_hash |-> b.randomness_hash,
     pk_settle0 |-> wallets[o1].keys.pk_settle, pk_settle1 |-> wallets[o2].keys.pk_settle,
     nullifiers |-> {MatchNullifier(a.wallet), MatchNullifier(b.wallet)}]

execute_match_impl(o1, o2, a, b) ==
    /\ result = {}
    /\ \E m \in {MatchOf(a, b)} :
        /\ Satisfied(ProverTrace(a, b, m)) /\ Satisfied(VerifierTrace(a, b, m))
        /\ result' = {build_handshake_result(o1, o2, a, b, m)}
    /\ UNCHANGED <<wallets, root, nullifiers, notes, vault, proofs, verdict, updates>>

\* The statement of VALID MATCH ENCRYPTION.  r is the randomness of the
\* encryptions in the order in which submit_match makes them.
EncryptionStatement(res, n, cluster0, cluster1, r) ==
    [pk_settle_party0 |-> res.pk_settle0, pk_settle_party1 |-> res.pk_settle1,
     pk_settle_relayer0 |-> cluster0, pk_settle_relayer1 |-> cluster1,
     pk_settle_protocol |-> PROTOCOL_SETTLE_KEY, protocol_fee |-> PROTOCOL_FEE,
     note_commits |-> [party0 |-> compute_note_commitment(n.party0, res.pk_settle0),
                       party1 |-> compute_note_commitment(n.party1, res.pk_settle1),
                       relayer0 |-> compute_note_commitment(n.relayer0, cluster0),
                       relayer1 |-> compute_note_commitment(n.relayer1, cluster1),
                       protocol |-> compute_note_commitment(n.protocol, PROTOCOL_SETTLE_KEY)],
     ciphertexts |->
        [volume1_ciphertext1 |-> encrypt_scalar(n.party0.volume1, res.pk_settle0, r[1]),
         volume2_ciphertext1 |-> encrypt_scalar(n.party0.volume2, res.pk_settle0, r[2]),
         volume1_ciphertext2 |-> encrypt_scalar(n.party1.volume1, res.pk_settle1, r[3]),
         volume2_ciphertext2 |-> encrypt_scalar(n.party1.volume2, res.pk_settle1, r[4]),
         mint1_protocol_ciphertext |-> encrypt_scalar(n.protocol.mint1, PROTOCOL_SETTLE_KEY, r[5]),
         mint2_protocol_ciphertext |-> encrypt_scalar(n.protocol.mint2, PROTOCOL_SETTLE_KEY, r[6]),
         volume1_protocol_ciphertext |->
            encrypt_scalar(n.protocol.volume1, PROTOCOL_SETTLE_KEY, r[7]),
         volume2_protocol_ciphertext |->
            encrypt_scalar(n.protocol.volume2, PROTOCOL_SETTLE_KEY, r[8]),
         randomness_protocol_ciphertext |->
            encrypt_scalar(n.protocol.randomness, PROTOCOL_SETTLE_KEY, r[9])]]

EncryptionWitness(res, n, randomness_values) ==
    [match_res |-> res.match_, party0_fee |-> res.party0_fee, party1_fee |-> res.party1_fee,
     party0_randomness_hash |-> res.party0_randomness_hash,
     party1_randomness_hash |-> res.party1_randomness_hash,
     notes |-> n, elgamal_randomness |-> randomness_values]

\* encumber.rs, once per match: the randomness values are pushed in the order of the
\* encryptions, the relayers' keys are dummies and the proof goes no further
submit_match(res, r) ==
    /\ ~res.submitted
    /\ \E n \in {create_notes(res.match_, res)} :
        /\ prove_valid_match_encrypt(EncryptionWitness(res, n, r),
                                     EncryptionStatement(res, n, 0, 0, r))
        /\ result' = {[res EXCEPT !.submitted = TRUE]}
    /\ UNCHANGED <<wallets, root, nullifiers, notes, vault, proofs, updates>>

\* The contract refuses a bundle one of whose match nullifiers is used
RejectMatch(res) ==
    /\ res.submitted /\ res.nullifiers \cap nullifiers # {}
    /\ result' = {}
    /\ UNCHANGED <<wallets, root, nullifiers, notes, vault, proofs, verdict, updates>>

\* It accepts another, with the encryption randomness in the order the circuit
\* reads it
EncumberMatch(res, r) ==
    /\ res.submitted /\ res.nullifiers \cap nullifiers = {}
    /\ \E n \in {create_notes(res.match_, res)},
          cluster0 \in {KeysOf(Cluster[res.party0]).pk_settle},
          cluster1 \in {KeysOf(Cluster[res.party1]).pk_settle} :
       \E ok \in {ValidMatchEncryption(
                     EncryptionWitness(res, n,
                                       <<r[1], r[2], r[3], r[4], r[5], r[7], r[6], r[8], r[9]>>),
                     EncryptionStatement(res, n, cluster0, cluster1, r))},
          new \in {{[note |-> n.party0, key |-> res.pk_settle0],
                    [note |-> n.party1, key |-> res.pk_settle1],
                    [note |-> n.relayer0, key |-> cluster0],
                    [note |-> n.relayer1, key |-> cluster1],
                    [note |-> n.protocol, key |-> PROTOCOL_SETTLE_KEY]}} :
        /\ Prove("MATCH BUNDLE", ok)
        /\ IF ok THEN /\ nullifiers' = nullifiers \cup res.nullifiers
                      /\ root' = root \cup {note_commit(x.note, x.key) : x \in new}
                      /\ notes' = notes \cup new
                 ELSE UNCHANGED <<nullifiers, root, notes>>
    /\ result' = {}
    /\ UNCHANGED <<wallets, vault, proofs, updates>>

-----------------------------------------------------------------------------
(* Settlement *)

\* A mint the note takes, or adds nothing of, needs no slot
WithGain(mints, mint, direction, volume) ==
    IF direction = Buy /\ volume > 0 THEN WithMint(mints, mint) ELSE mints

\* The wallet after a note.  A mint the note adds takes a free slot.
Settled(w, note) ==
    LET mints == WithGain(WithGain(WithGain(MintsOf(w), note.mint1, note.direction1, note.volume1),
                                   note.mint2, note.direction2, note.volume2),
                          note.fee_mint, note.fee_direction, note.fee_volume)
    IN  [w EXCEPT !.balances = [i \in 1..MAX_BALANCES |->
                                   [mint |-> mints[i], amount |-> expected_bal(mints[i], w, note)]],
                  !.orders = [i \in 1..MAX_ORDERS |->
                                 [@[i] EXCEPT !.amount = expected_result(w.orders[i], note)]],
                  !.randomness = FAdd(@, 2)]

SettleVerifies(o, n, post) ==
    LET pre == wallets[o]
        commit == compute_wallet_commitment(pre)
    IN  ValidSettle(
          [pre_wallet |-> pre, post_wallet |-> post, note |-> n.note,
           sk_settle |-> Secrets[o].settle],
          [post_wallet_commit |-> compute_wallet_commitment(post), merkle_root |-> root,
           wallet_spend_nullifier |-> compute_wallet_spend_nullifier(pre, commit),
           wallet_match_nullifier |-> compute_wallet_match_nullifier(pre, commit),
           note_redeem_nullifier |->
              compute_note_redeem_nullifier(compute_note_commitment(n.note, n.key), n.key),
           type_ |-> n.note.type_])

\* The contract takes an unspent wallet and an unredeemed note: of a match, if
\* the wallet is the one the match encumbered, of a transfer, if it is not
Settleable(o, n) ==
    /\ n.key = wallets[o].keys.pk_settle
    /\ SpendNullifier(wallets[o]) \notin nullifiers
    /\ RedeemNullifier(n) \notin nullifiers
    /\ (n.note.type_ = Match) <=> (MatchNullifier(wallets[o]) \in nullifiers)

SettleNote(o, n) ==
    /\ Settleable(o, n)
    /\ \E post \in {Settled(wallets[o], n.note)} : \E ok \in {SettleVerifies(o, n, post)} :
        /\ Prove("VALID SETTLE", ok)
        /\ IF ok
           THEN /\ wallets' = [wallets EXCEPT ![o] = post]
                /\ root' = root \cup {wallet_commit(post)}
                /\ nullifiers' = nullifiers \cup {SpendNullifier(wallets[o]),
                                                  MatchNullifier(wallets[o]), RedeemNullifier(n)}
                /\ notes' = notes \ {n}
           ELSE UNCHANGED <<wallets, root, nullifiers, notes>>
    /\ UNCHANGED <<vault, proofs, result, updates>>

-----------------------------------------------------------------------------
Next == \/ \E o \in Owners : prove_valid_wallet_create(o)
        \/ \E o \in DOMAIN wallets : \E t \in Transfers[o] :
              \/ UpdateWallet(o, t, wallets[o].orders)
              \/ \E order \in NewOrders[o] :
                 \E orders \in WithOrder(wallets[o], order, updates[o] + 1) :
                    UpdateWallet(o, t, orders)
        \/ \E o \in DOMAIN wallets : initialize_wallets(o)
        \/ \E o1, o2 \in DOMAIN proofs : o1 # o2 /\ execute_match_impl(o1, o2, proofs[o1], proofs[o2])
        \/ \E res \in result, r \in ElGamalDraws : submit_match(res, r) \/ EncumberMatch(res, r)
        \/ \E res \in result : RejectMatch(res)
        \/ \E o \in DOMAIN wallets : \E n \in notes : SettleNote(o, n)

Spec == Init /\ [][Next]_vars

-----------------------------------------------------------------------------
(* Properties *)

\* Every proof the relayer and the owners make from native values verifies:
\* commitments, nullifiers and notes computed outside the circuits are those
\* the circuits recompute, along any sequence of updates, matches and
\* settlements (submit_match's own proof is the subject of MatchBundleVerifies)
HonestProofsVerify == verdict.circuit # "VALID MATCH ENCRYPTION" => verdict.ok

\* The doc comment of submit_match: it proves VALID MATCH ENCRYPTION
MatchBundleVerifies == verdict.circuit = "VALID MATCH ENCRYPTION" => verdict.ok

\* VALID SETTLE puts no bound on the amounts it computes.  They cannot go below
\* zero all the same: the balance and gas were covered when VALID COMMITMENTS
\* was proved, and the wallet has not changed since, or its nullifier is used.
NoUnderflow ==
    \A o \in DOMAIN wallets :
        /\ \A b \in Range(wallets[o].balances) : b.amount < 2^AmountBits
        /\ \A order \in Range(wallets[o].orders) : order.amount < 2^AmountBits

\* A wallet whose match nullifier is used can do nothing but settle its match
\* note: that note exists, and settling it satisfies VALID SETTLE
EncumberedCanSettle ==
    \A o \in DOMAIN wallets :
        MatchNullifier(wallets[o]) \in nullifiers =>
            \E n \in notes : n.note.type_ = Match /\ Settleable(o, n)
                            /\ SettleVerifies(o, n, Settled(wallets[o], n.note))

ProofPairs == {<<proofs[o1], proofs[o2]>> :
                  o1 \in DOMAIN proofs, o2 \in DOMAIN proofs} \ {<<proofs[o], proofs[o]>> :
                  o \in DOMAIN proofs}
JustProved == verdict.circuit = "VALID COMMITMENTS"

\* Two orders on one pair whose prices cross, with a midpoint the fixed point
\* representation holds and a whole quote amount, always match: what the fabric
\* computes satisfies both forms of VALID MATCH MPC, and the balances found for
\* the orders cover it though they were chosen without the counterparty
MatchComplete ==
    JustProved => \A pair \in ProofPairs :
        LET a == pair[1].order
            b == pair[2].order
            size == IF a.amount < b.amount THEN a.amount ELSE b.amount
        IN  (/\ a.base_mint = b.base_mint /\ a.quote_mint = b.quote_mint
             /\ \/ a.side = Buy /\ b.side = Sell /\ a.price > b.price
                \/ a.side = Sell /\ b.side = Buy /\ a.price <= b.price
             /\ (a.price + b.price) % 2 = 0
             /\ (((a.price + b.price) \div 2) * size) % 2^Precision = 0)
            => \A m \in {MatchOf(pair[1], pair[2])} :
                   /\ Satisfied(ProverTrace(pair[1], pair[2], m))
                   /\ Satisfied(VerifierTrace(pair[1], pair[2], m))

\* The collaborative prover and the verifier add the same constraints, with the
\* same verdicts whatever the orders; a match they accept trades the smaller
\* size at a price neither party's limit excludes, for no more than each holds
MatchFair ==
    JustProved => \A pair \in ProofPairs : \A m \in {MatchOf(pair[1], pair[2])} :
        LET a == pair[1]
            b == pair[2]
            buyer == IF m.direction = Buy THEN a ELSE b
            seller == IF m.direction = Buy THEN b ELSE a
        IN  \A trace \in {VerifierTrace(a, b, m)} :
                /\ trace = ProverTrace(a, b, m)
                /\ Satisfied(trace) =>
                      /\ buyer.order.side = Buy /\ seller.order.side = Sell
                      /\ seller.order.price <= m.execution_price
                      /\ m.execution_price <= buyer.order.price
                      /\ \A x \in {a, b} : m.base_amount <= x.order.amount
                      /\ m.base_amount \in {a.order.amount, b.order.amount}
                      /\ m.quote_amount * 2^Precision = m.execution_price * m.base_amount
                      /\ m.quote_amount <= Holding(buyer.wallet, m.quote_mint)
                      /\ m.base_amount <= Holding(seller.wallet, m.base_mint)

-----------------------------------------------------------------------------
(* The darkpool implements the ledger: an owner's claim on a mint is what the*)
(* wallet holds and what unredeemed notes add to or take from it           *)

Signed(volume, direction) == IF direction = Buy THEN volume ELSE -volume
NoteValue(note, m) ==
    (IF note.mint1 = m THEN Signed(note.volume1, note.direction1) ELSE 0)
    + (IF note.mint2 = m THEN Signed(note.volume2, note.direction2) ELSE 0)
    + (IF note.fee_mint = m THEN Signed(note.fee_volume, note.fee_direction) ELSE 0)
ClaimsOn(m) == SumFunction([o \in DOMAIN wallets |-> Holding(wallets[o], m)])
               + SumFunction([n \in notes |-> NoteValue(n.note, m)])
Claims == [m \in Mints |-> ClaimsOn(m)]

L == INSTANCE Ledger WITH Volumes <- 1..(2^AmountBits), claims <- Claims

\* Deposits and withdrawals aside, no sequence of updates, matches, fees and
\* settlements ever raises what users can claim of a mint
ImplementsLedger == L!Spec
============================================================================
