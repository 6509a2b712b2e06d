----------------------------- MODULE MCDarkpool ----------------------------
(* Two owners: the first sells the base mint and runs the relayer of both, *)
(* the second buys it.  A unit of price is a quarter.                      *)
EXTENDS Darkpool

Base == 1
Quote == 2
Gas == 3

MCSecrets == <<[root |-> 11, match |-> 21, settle |-> 31, view |-> 41],
               [root |-> 12, match |-> 22, settle |-> 32, view |-> 42]>>
MCFees == [o \in Owners |-> <<[settle_key |-> 0, gas_addr |-> Gas, gas_token_amount |-> 1,
                               percentage_fee |-> 1]>>]
MCInitialRandomness == <<1, 2>>

NoTransfer == [mint |-> 0, volume |-> 0, direction |-> 0]
Kept == [external |-> NoTransfer, internal |-> NoTransfer]
External(mint, volume, direction) ==
    [Kept EXCEPT !.external = [mint |-> mint, volume |-> volume, direction |-> direction]]
Internal(mint, volume) ==
    [Kept EXCEPT !.internal = [mint |-> mint, volume |-> volume, direction |-> 0]]
MCTransfers == <<{External(Base, 3, 0), External(Gas, 1, 0), External(Base, 1, 1)},
                 {External(Quote, 6, 0), External(Gas, 1, 0), Internal(Quote, 1)}>>

Order(side, price, amount) == [quote_mint |-> Quote, base_mint |-> Base, side |-> side,
                               price |-> price, amount |-> amount, timestamp |-> 0]
MCNewOrders == <<{Order(Sell, 4, 2), Order(Sell, 8, 3), Order(Sell, 12, 3)}, {Order(Buy, 8, 3)}>>
MCCluster == <<1, 1>>
MCElGamalDraws == {<<1, 2, 3, 4, 5, 6, 7, 8, 9>>}
============================================================================
