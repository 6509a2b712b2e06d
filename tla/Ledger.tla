------------------------------- MODULE Ledger ------------------------------
(***************************************************************************)
(* What the darkpool promises its users, without wallets, notes or proofs: *)
(* per mint, the contract's vault and the total its users may claim.       *)
(* Value enters with a deposit and leaves with a withdrawal.  Everything   *)
(* else moves value between users and may lose some (rounding, and mints   *)
(* for which a wallet has no slot), but never creates any.                 *)
(***************************************************************************)
EXTENDS Integers

CONSTANTS Mints,
          Volumes       \* the positive amounts of one transfer

\* Nothing is deposited or withdrawn in a negative amount
VolumesPositive == Volumes \subseteq Nat \ {0}

VARIABLES vault, claims

vars == <<vault, claims>>

Init == /\ vault = [m \in Mints |-> 0]
        /\ claims = [m \in Mints |-> 0]

\* After a step that adds `amount' of mint to what users own, no mint's claims
\* have grown by more than that
ClaimsGrowBy(mint, amount) ==
    /\ claims' \in [Mints -> Nat]
    /\ \A m \in Mints : claims'[m] <= claims[m] + (IF m = mint THEN amount ELSE 0)

Deposit(mint, v) == /\ vault' = [vault EXCEPT ![mint] = @ + v]
                    /\ ClaimsGrowBy(mint, v)

Withdraw(mint, v) == /\ v <= claims[mint]
                     /\ vault' = [vault EXCEPT ![mint] = @ - v]
                     /\ ClaimsGrowBy(mint, -v)

Move == /\ UNCHANGED vault
        /\ claims' \in [Mints -> Nat]
        /\ \A m \in Mints : claims'[m] <= claims[m]

Next == \/ Move
        \/ \E m \in Mints, v \in Volumes : Deposit(m, v) \/ Withdraw(m, v)

Spec == Init /\ [][Next]_vars

\* The vault can pay everyone: no mint is owed more than the contract holds
Solvent == \A m \in Mints : claims[m] <= vault[m]
============================================================================
