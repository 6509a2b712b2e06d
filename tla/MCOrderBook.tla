----------------------------- MODULE MCOrderBook -----------------------------
(* The order book with one order of the local cluster (o1, a wallet of its   *)
(* own), one order of another cluster (o2), two nullifiers and one handler in *)
(* flight beside those that take the lock at once.                           *)
EXTENDS OrderBook, TLC

CONSTANTS o1, o2, n1, n2, t1

MCWallets == {{o1}}

\* No definition tells two nullifiers or two handlers apart.
MCSymmetry == Permutations(Nullifiers) \cup Permutations(Tasks)
=============================================================================
