----------------------------- MODULE MCVerifier ----------------------------
(* Two keys, two requests.                                                 *)
EXTENDS Verifier, TLC

CONSTANTS k1, k2, r1, r2

TwoKeys == {k1, k2}
TwoRequests == {r1, r2}
RequestSymmetry == Permutations(Requests)
============================================================================
