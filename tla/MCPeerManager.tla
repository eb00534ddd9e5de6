--------------------------- MODULE MCPeerManager ---------------------------
(* Model-checking instance of PeerManager: two remote nodes, two secrets  *)
(* (so a pairing can use the wrong one), two inbound connections.          *)
EXTENDS PeerManager, TLC

CONSTANTS r1, r2, s1, s2, c1, c2

MCIds == {r1, r2}
MCSecrets == {s1, s2}
MCSlots == {c1, c2}

\* Ids, Secrets and Slots are interchangeable in every definition.
MCSymmetry == Permutations(MCIds) \cup Permutations(MCSecrets) \cup Permutations(MCSlots)
=============================================================================
