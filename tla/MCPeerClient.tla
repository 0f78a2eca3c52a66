---------------------------- MODULE MCPeerClient ----------------------------
(* Instances of PeerClient for TLC. *)
EXTENDS PeerClient, TLC

\* Sound with Honest = {}: no peer and no value is told from another.
Symmetry == Permutations(Peers) \cup Permutations(Values)
=============================================================================
