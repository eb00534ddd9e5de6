------------------------- MODULE MCHandshakeReplay --------------------------
(* The replay against one pair of nodes sharing a secret.                *)
EXTENDS HandshakeReplay, TLC

CONSTANTS s1, s2

MCSecrets == {s1, s2}
=============================================================================
