---------------------------- MODULE MCEnvelopes ----------------------------
(* Envelopes for model checking: two switches and the TOTP secret, one of  *)
(* the switches with the associated data rotateKEK falls back to.          *)
EXTENDS Envelopes, TLC

CONSTANTS payload1, payload2, totp
MCRows == {payload1, payload2, totp}
MCKid == [row \in MCRows |-> IF row = totp THEN "totp" ELSE "switch"]
Symmetry == Permutations(Plaintexts) \cup Permutations(Keys)
=============================================================================
