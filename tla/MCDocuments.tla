---------------------------- MODULE MCDocuments ----------------------------
(* Documents for TLC: two requests at a time, one owner and one            *)
(* administrator.                                                          *)
EXTENDS Documents, TLC

CONSTANTS q1, q2, owner, admin, n1, g1, g2, url1, path1, k1, none

Symmetric == Permutations({q1, q2}) \union Permutations({g1, g2})
=============================================================================
