------------------------------ MODULE MCGossip ------------------------------
(***************************************************************************)
(* A relayer, a peer of its cluster and a peer of another cluster.         *)
(***************************************************************************)
EXTENDS Gossip

CONSTANTS l, c, d

MCPeerOrder == <<c, d, l>>
MCClusterPeers == {l, c}
=============================================================================
