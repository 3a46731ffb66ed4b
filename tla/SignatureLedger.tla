-------------------------- MODULE SignatureLedger --------------------------
(***************************************************************************)
(* What the signature store promises to its readers, without requests,     *)
(* transactions or a database: a ledger of signatures that only grows, in  *)
(* which a user signs a document at most once and every signature either   *)
(* opens a chain or continues an older signature of the same document.     *)
(* SignatureChain, the model of the code, is shown to implement it.        *)
(***************************************************************************)
EXTENDS Integers

CONSTANT Genesis        \* the "previous" of a signature that has none

VARIABLE ledger         \* the set of signatures, [id, doc, sub, prev] records

(* The signatures s may be chained to: older ones of its own document. *)
Ancestors(s) == {p \in ledger : p.doc = s.doc /\ p.id < s.id}

(* s can be appended: its number is new, its user has not signed its        *)
(* document, and what it is chained to is on the ledger.                    *)
MayAppend(s) ==
  /\ \A p \in ledger : p.id # s.id
  /\ \A p \in ledger : p.doc # s.doc \/ p.sub # s.sub
  /\ s.prev = Genesis \/ \E p \in Ancestors(s) : p.id = s.prev

Init == ledger = {}

Append == \E s \in ledger' \ ledger :
            /\ MayAppend(s)
            /\ ledger' = ledger \union {s}

Spec == Init /\ [][Append]_ledger
=============================================================================
