---------------------------- MODULE MCHandshake -----------------------------
(* Handshake with two pairing secrets, so that the two ends can hold       *)
(* different ones, and two TOTP windows, so that a window boundary can     *)
(* fall inside a handshake.                                                *)
EXTENDS Handshake, TLC

CONSTANTS s1, s2

MCSecrets == {s1, s2}

MCSymmetry == Permutations(MCSecrets)
=============================================================================
