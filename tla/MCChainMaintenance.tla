------------------------ MODULE MCChainMaintenance ------------------------
(* ChainMaintenance for TLC.  A document that is still being signed and    *)
(* one that is not were signed once each, by someone else, before the      *)
(* requests come.  No symmetry: the run checks liveness too.               *)
EXTENDS ChainMaintenance

CONSTANTS r1, r2, d1, d2, u1, u3, c1

SignedBy(u, d, i) == [id |-> i, doc |-> d, sub |-> u, prev |-> Genesis, sum |-> NoSum,
                      gone |-> FALSE, seen |-> i - 1, at |-> i]
TwoSigned == {SignedBy(u3, d1, 1), SignedBy(u3, d2, 2)}
=============================================================================
