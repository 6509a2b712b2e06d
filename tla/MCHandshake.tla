----------------------------- MODULE MCHandshake -----------------------------
(* One order of ours and one of a peer, each with a nullifier of its own, and *)
(* two handshakes: they share the pair, both nullifiers and the index.        *)
EXTENDS Handshake, TLC

CONSTANTS a, b, na, nb, r1, r2

MCWalletNullifiers == a :> {na} @@ b :> {nb}

\* No definition tells two requests apart.
MCSymmetry == Permutations(Requests)
=============================================================================
