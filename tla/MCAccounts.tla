----------------------------- MODULE MCAccounts -----------------------------
(* SignIn, and with it TenantConfig, for TLC: two administrators' requests *)
(* and one or two browsers, two providers, a server that is configured in  *)
(* its environment with one of them, or with mail alone.                   *)
EXTENDS SignIn, TLC

CONSTANTS q1, q2, main, d1, d2, p1, p2, s1, s2, mask, none, b1, b2, f1, f2

EnvConfig == [general |-> d1, oidc |-> p1, secret |-> s1, magic |-> FALSE, smtp |-> TRUE]
MailOnly == [general |-> d1, oidc |-> none, secret |-> none, magic |-> TRUE, smtp |-> TRUE]
Symmetric == Permutations({q1, q2}) \union Permutations({b1, b2}) \union Permutations({f1, f2})
=============================================================================
