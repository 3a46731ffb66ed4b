-------------------------- MODULE MCSignatureChain --------------------------
(* SignatureChain for TLC: model values for its sets, and their symmetry.  *)
EXTENDS SignatureChain, TLC

CONSTANTS r1, r2, r3, d1, d2, u1, u2

MCSymmetry == Permutations({r1, r2, r3}) \union Permutations({u1, u2}) \union Permutations({d1, d2})

=============================================================================
