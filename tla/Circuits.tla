------------------------------ MODULE Circuits -----------------------------
(***************************************************************************)
(* The wallet circuits (circuits/src/zk_circuits), the commitment gadgets  *)
(* they share and the native helpers that compute their public inputs.     *)
(*                                                                         *)
(* A circuit is the predicate its constraints put on a witness and a       *)
(* statement, in the order the code adds them.  Amounts, mints, keys and   *)
(* randomness are scalars of Field; a hash of several values is the tuple  *)
(* of what the sponge absorbs, so it has no collisions; a Merkle root is   *)
(* the set of the leaves below it, so an opening is a membership.          *)
(***************************************************************************)
EXTENDS FixedPoint

CONSTANTS MAX_BALANCES, MAX_ORDERS, MAX_FEES,
          AmountBits      \* 64, the width of amounts, prices and fees

\* The negative of an amount is no amount
ASSUME WidthsFit ==
    /\ MAX_BALANCES \in Nat /\ MAX_ORDERS \in Nat
    /\ AmountBits \in 1..(ScalarMaxBits - 2)

ZeroBalance == [mint |-> 0, amount |-> 0]
ZeroOrder == [quote_mint |-> 0, base_mint |-> 0, side |-> 0, price |-> 0, amount |-> 0,
              timestamp |-> 0]
ZeroFee == [settle_key |-> 0, gas_addr |-> 0, gas_token_amount |-> 0, percentage_fee |-> 0]

U64(x) == x % 2^AmountBits

\* Each(s, f) absorbs f of every element of s in turn
Each(s, f(_)) ==
    LET absorbed[i \in 0..Len(s)] == IF i = 0 THEN <<>> ELSE absorbed[i - 1] \o f(s[i])
    IN  absorbed[Len(s)]
Opens(leaf, root) == leaf \in root

-----------------------------------------------------------------------------
(* Native helpers (lib.rs, native_helpers) *)

\* The hash of one scalar must be a scalar again: the S-box, a permutation of
\* the field, stands for the sponge
compute_poseidon_hash(x) == Exp(FAdd(x, 3), 5)

compute_wallet_commitment(w) ==
    Each(w.balances, LAMBDA b : <<b.mint, b.amount>>)
    \o Each(w.orders, LAMBDA o : <<o.quote_mint, o.base_mint>>
                                 \o <<o.side, U64(o.price), o.amount>>)
    \o Each(w.fees, LAMBDA f : <<f.settle_key, f.gas_addr>>
                               \o <<f.gas_token_amount, U64(f.percentage_fee)>>)
    \o <<w.keys.pk_root, w.keys.pk_match, w.keys.pk_settle, w.keys.pk_view>>
    \o <<w.randomness>>

NoteTypeUnhashed(n, receiver) ==
    <<n.mint1, n.volume1, n.direction1, n.mint2, n.volume2, n.direction2>>
    \o <<n.fee_mint, n.fee_volume, n.fee_direction, n.randomness, receiver>>
compute_note_commitment(n, receiver) ==
    <<n.mint1>> \o <<n.volume1, n.direction1>> \o <<n.mint2>> \o <<n.volume2, n.direction2>>
    \o <<n.fee_mint>> \o <<n.fee_volume, n.fee_direction, n.type_>>
    \o <<n.randomness>> \o <<receiver>>

compute_wallet_spend_nullifier(w, commitment) == <<commitment, w.randomness>>
compute_wallet_match_nullifier(w, commitment) == <<commitment, FAdd(w.randomness, 1)>>
ReceiverForgotten(commitment, receiver) == <<commitment, 0>>
compute_note_redeem_nullifier(commitment, receiver) == <<commitment, receiver>>

-----------------------------------------------------------------------------
(* zk_gadgets/commitments.rs *)

wallet_commit(w) ==
    Each(w.balances, LAMBDA b : <<b.mint, b.amount>>)
    \o Each(w.orders, LAMBDA o : <<o.quote_mint, o.base_mint, o.side, o.price, o.amount>>)
    \o Each(w.fees, LAMBDA f : <<f.settle_key, f.gas_addr, f.gas_token_amount, f.percentage_fee>>)
    \o <<w.keys.pk_root, w.keys.pk_match, w.keys.pk_settle, w.keys.pk_view>>
    \o <<w.randomness>>
note_commit(n, receiver) ==
    <<n.mint1, n.volume1, n.direction1, n.mint2, n.volume2, n.direction2, n.fee_mint,
      n.fee_volume, n.fee_direction, n.type_, n.randomness, receiver>>
spend_nullifier(randomness, commit) == <<commit, randomness>>
match_nullifier(randomness, commit) == <<commit, FAdd(randomness, 1)>>
note_redeem_nullifier(receiver, commit) == <<commit, receiver>>

-----------------------------------------------------------------------------
(* VALID WALLET CREATE: the committed wallet has only zeros for its balances*)
(* and orders                                                              *)

BALANCE_ZEROS == 2
ORDER_ZEROS == 5

check_commitment(witness, expected_commit) ==
    [i \in 1..(MAX_BALANCES * BALANCE_ZEROS + MAX_ORDERS * ORDER_ZEROS) |-> 0]
    \o Each(witness.fees, LAMBDA f : <<f.settle_key, f.gas_addr, f.gas_token_amount,
                                       f.percentage_fee>>)
    \o <<witness.keys.pk_root, witness.keys.pk_match, witness.keys.pk_settle,
         witness.keys.pk_view>>
    \o <<witness.randomness>> = expected_commit
ValidWalletCreate(witness, expected_commit) == check_commitment(witness, expected_commit)

-----------------------------------------------------------------------------
(* VALID WALLET UPDATE *)

constrain_keys_equal(w1, w2) ==
    /\ w1.keys.pk_root = w2.keys.pk_root /\ w1.keys.pk_match = w2.keys.pk_match
    /\ w1.keys.pk_settle = w2.keys.pk_settle /\ w1.keys.pk_view = w2.keys.pk_view

constrain_unique_balance_mints(w) ==
    \A i, j \in 1..Len(w.balances) : i < j =>
        FMul(w.balances[i].mint,
             FSub(1, NotEqual(w.balances[i].mint, w.balances[j].mint).val)) = 0

\* The amount the constraints expect of a mint: all of it in the old wallet,
\* plus the external transfer (minus, for a withdrawal), minus the internal one
expected_amount(mint, old, internal, external) ==
    LET old_amount == FSum([i \in 1..Len(old.balances) |->
                                FMul(EqZero(FSub(mint, old.balances[i].mint)).val,
                                     old.balances[i].amount)])
        external_term == CondSelect(FNeg(external.volume), external.volume, external.direction)
    IN  FSub(FAdd(old_amount,
                  FMul(EqZero(FSub(mint, external.mint)).val, external_term)),
             FMul(EqZero(FSub(mint, internal.mint)).val, internal.volume))

MintPresent(mint, w) ==
    FSum([i \in 1..Len(w.balances) |-> EqZero(FSub(w.balances[i].mint, mint)).val])

\* The code looks for a withdrawn mint among the balances of the new wallet
validate_transfers(new, old, internal, external) ==
    /\ constrain_unique_balance_mints(new)
    /\ \A i \in 1..Len(new.balances) :
          /\ new.balances[i].amount = expected_amount(new.balances[i].mint, old, internal, external)
          /\ constrain_greater_than_zero(new.balances[i].amount, AmountBits)
    /\ Or(EqZero(internal.mint).val, MintPresent(internal.mint, new)) = 1
    /\ Or(Eq(external.direction, 0).val, MintPresent(external.mint, new)) = 1

orders_equal_except_timestamp(o1, o2) ==
    EqVec(<<o1.quote_mint, o1.base_mint, o1.side, o1.amount, o1.price>>,
          <<o2.quote_mint, o2.base_mint, o2.side, o2.amount, o2.price>>).val
order_is_zero(o) == orders_equal_except_timestamp(o, ZeroOrder)

constrain_unique_order_pairs(w) ==
    \A i, j \in 1..Len(w.orders) : i < j =>
        FMul(EqVec(<<w.orders[i].quote_mint, w.orders[i].base_mint>>,
                   <<w.orders[j].quote_mint, w.orders[j].base_mint>>).val,
             FSub(1, order_is_zero(w.orders[i]))) = 0

\* An order is unchanged and keeps its timestamp, or changed and carries the new one
constrain_updated_order_timestamps(new, old, new_timestamp) ==
    \A i \in 1..Len(new.orders) :
        LET equals_old == orders_equal_except_timestamp(new.orders[i], old.orders[i])
            kept == Eq(new.orders[i].timestamp, old.orders[i].timestamp).val
            updated == Eq(new.orders[i].timestamp, new_timestamp).val
        IN  Or(And(FSub(1, equals_old), updated), And(equals_old, kept)) = 1

validate_wallet_orders(new, old, new_timestamp) ==
    /\ constrain_unique_order_pairs(new)
    /\ constrain_updated_order_timestamps(new, old, new_timestamp)

ValidWalletUpdate(witness, statement) ==
    LET old_wallet_commit == wallet_commit(witness.wallet1)
    IN  /\ wallet_commit(witness.wallet2) = statement.new_wallet_commitment
        /\ Opens(old_wallet_commit, statement.merkle_root)
        /\ statement.wallet_spend_nullifier
              = spend_nullifier(witness.wallet1.randomness, old_wallet_commit)
        /\ statement.wallet_match_nullifier
              = match_nullifier(witness.wallet1.randomness, old_wallet_commit)
        /\ statement.pk_root = witness.wallet1.keys.pk_root
        /\ constrain_keys_equal(witness.wallet1, witness.wallet2)
        /\ FAdd(witness.wallet1.randomness, 2) = witness.wallet2.randomness
        /\ constrain_binary(statement.external_transfer.direction)
        /\ validate_transfers(witness.wallet2, witness.wallet1, witness.internal_transfer,
                              statement.external_transfer)
        /\ validate_wallet_orders(witness.wallet2, witness.wallet1, statement.timestamp)

-----------------------------------------------------------------------------
(* VALID COMMITMENTS: the order, balance and fee a party may be matched on *)

verify_wallet_contains_balance(b, w) ==
    FSum([i \in 1..Len(w.balances) |->
             EqVec(<<b.mint, b.amount>>, <<w.balances[i].mint, w.balances[i].amount>>).val]) = 1
OrderVars(o) == <<o.quote_mint, o.base_mint, o.side, o.price, o.amount, o.timestamp>>
verify_wallet_contains_order(o, w) ==
    FSum([i \in 1..Len(w.orders) |-> EqVec(OrderVars(o), OrderVars(w.orders[i])).val]) = 1
FeeVars(f) == <<f.settle_key, f.gas_addr, f.gas_token_amount, f.percentage_fee>>
verify_wallet_contains_fee(f, w) ==
    FSum([i \in 1..Len(w.fees) |-> EqVec(FeeVars(f), FeeVars(w.fees[i])).val]) = 1

ValidCommitments(witness, statement) ==
    LET wallet_commitment == wallet_commit(witness.wallet)
        mint_sold == CondSelect(witness.order.base_mint, witness.order.quote_mint,
                                witness.order.side)
    IN  /\ Opens(wallet_commitment, statement.merkle_root)
        /\ statement.pk_settle = witness.wallet.keys.pk_settle
        /\ match_nullifier(witness.wallet.randomness, wallet_commitment) = statement.nullifier
        /\ verify_wallet_contains_balance(witness.balance, witness.wallet)
        /\ verify_wallet_contains_balance(witness.fee_balance, witness.wallet)
        /\ verify_wallet_contains_order(witness.order, witness.wallet)
        /\ verify_wallet_contains_fee(witness.fee, witness.wallet)
        /\ witness.balance.mint = mint_sold
        /\ witness.fee.gas_addr = witness.fee_balance.mint
        /\ constrain_greater_than_eq(witness.fee_balance.amount, witness.fee.gas_token_amount,
                                     AmountBits)
        /\ compute_poseidon_hash(witness.wallet.randomness) = witness.randomness_hash
        /\ compute_poseidon_hash(witness.sk_match) = witness.wallet.keys.pk_match

-----------------------------------------------------------------------------
(* VALID SETTLE: a note is applied to a wallet *)

validate_state_primitives(witness, statement) ==
    LET pre_commit == wallet_commit(witness.pre_wallet)
        note_commitment == note_commit(witness.note, witness.pre_wallet.keys.pk_settle)
    IN  /\ Opens(pre_commit, statement.merkle_root)
        /\ Opens(note_commitment, statement.merkle_root)
        /\ statement.post_wallet_commit = wallet_commit(witness.post_wallet)
        /\ statement.wallet_spend_nullifier
              = spend_nullifier(witness.pre_wallet.randomness, pre_commit)
        /\ statement.wallet_match_nullifier
              = match_nullifier(witness.pre_wallet.randomness, pre_commit)
        /\ statement.note_redeem_nullifier
              = note_redeem_nullifier(witness.pre_wallet.keys.pk_settle, note_commitment)

validate_balance_mints_unique(w) ==
    \A i, j \in 1..Len(w.balances) : i < j =>
        Or(NotEqual(w.balances[i].mint, w.balances[j].mint).val,
           EqZero(w.balances[i].mint).val) = 1

TermSwapped(volume, direction) == CondSelect(volume, FNeg(volume), direction)
NoteTerm(volume, direction) == CondSelect(FNeg(volume), volume, direction)
FeeAlwaysAdded(mint, pre, note) ==
    LET old_amount == FSum([i \in 1..Len(pre.balances) |->
                                FMul(Eq(pre.balances[i].mint, mint).val, pre.balances[i].amount)])
        term(m, volume, direction) == FMul(Eq(mint, m).val, NoteTerm(volume, direction))
    IN  FSum(<<old_amount, term(note.mint1, note.volume1, note.direction1),
               term(note.mint2, note.volume2, note.direction2),
               term(note.fee_mint, note.fee_volume, 0)>>)
expected_bal(mint, pre, note) ==
    LET old_amount == FSum([i \in 1..Len(pre.balances) |->
                                FMul(Eq(pre.balances[i].mint, mint).val, pre.balances[i].amount)])
        term(m, volume, direction) == FMul(Eq(mint, m).val, NoteTerm(volume, direction))
    IN  FSum(<<old_amount, term(note.mint1, note.volume1, note.direction1),
               term(note.mint2, note.volume2, note.direction2),
               term(note.fee_mint, note.fee_volume, note.fee_direction)>>)

\* No constraint keeps the new amounts from being negative
validate_balance_updates(post, pre, note) ==
    \A i \in 1..Len(post.balances) :
        post.balances[i].amount = expected_bal(post.balances[i].mint, pre, note)
validate_new_balances(post, pre, note) ==
    /\ validate_balance_mints_unique(post)
    /\ validate_balance_updates(post, pre, note)

validate_orders_equal_except_amount(o1, o2) ==
    constrain_eq_vec(<<o1.base_mint, o1.quote_mint, o1.side, o1.price, o1.timestamp>>,
                     <<o2.base_mint, o2.quote_mint, o2.side, o2.price, o2.timestamp>>)

\* A match note is taken off the order of its pair, a transfer note off none
expected_result(order, note) ==
    FSub(order.amount,
         FMul(EqVec(<<note.mint1, note.mint2>>, <<order.base_mint, order.quote_mint>>).val,
              CondSelect(note.volume1, 0, note.type_)))
validate_order_updates(post, pre, note) ==
    \A i \in 1..Len(pre.orders) :
        /\ validate_orders_equal_except_amount(pre.orders[i], post.orders[i])
        /\ post.orders[i].amount = expected_result(pre.orders[i], note)

ValidSettle(witness, statement) ==
    /\ validate_state_primitives(witness, statement)
    /\ constrain_keys_equal(witness.pre_wallet, witness.post_wallet)
    /\ compute_poseidon_hash(witness.sk_settle) = witness.pre_wallet.keys.pk_settle
    /\ FAdd(witness.pre_wallet.randomness, 2) = witness.post_wallet.randomness
    /\ statement.type_ = witness.note.type_
    /\ validate_new_balances(witness.post_wallet, witness.pre_wallet, witness.note)
    /\ validate_order_updates(witness.post_wallet, witness.pre_wallet, witness.note)
============================================================================
