---------------------------- MODULE MCCompletion ----------------------------
(* Signers, and with it Completion, for TLC: a1 and a2 are two accounts of *)
(* one person, and nobody has an account with e2.                          *)
EXTENDS Signers, TLC

CONSTANTS a1, a2, a3, e1, e2, e3, blank, noemail

SharedEmail == (a1 :> e1 @@ a2 :> e1 @@ a3 :> e3)

File(h, rs) == [header |-> h, rows |-> rs]
SampleFiles == {File("none", <<e1, blank, noemail>>), File("email", <<e1, e2>>),
                File("email", <<e2, e2>>), File("none", <<e3, e2, e1>>), File("name", <<e1>>)}
NoFiles == {}

Typed(e, spaces) == [email |-> e, padded |-> spaces]
SampleBodies == {<<Typed(e1, TRUE), Typed(e3, FALSE)>>, <<Typed(e3, FALSE), Typed(e3, TRUE)>>}
NoBodies == {}
=============================================================================
