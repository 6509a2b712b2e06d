---------------------------- MODULE MCChainSync ----------------------------
(***************************************************************************)
(* Small instances of ChainSync: a tree of depth 3, one wallet.            *)
(***************************************************************************)
EXTENDS ChainSync

CONSTANTS None, nul

(* A block holds one or two transactions. *)
MCBlocks == {<<nul>>, <<None, None>>}
=============================================================================
