---------------------------- MODULE MCMagicLink ----------------------------
(* MagicLink for TLC: three requests, two of them from one address, for    *)
(* one email.                                                              *)
EXTENDS MagicLink, TLC

CONSTANTS q1, q2, q3, m1, v1, v2, e1, i1, i2

OneEmail == [q \in {q1, q2, q3} |-> e1]
TwoIps   == (q1 :> i1 @@ q2 :> i1 @@ q3 :> i2)

MCSymmetry == Permutations({v1, v2}) \union Permutations({q1, q2})
=============================================================================
