----------------------------- MODULE Completion -----------------------------
(***************************************************************************)
(* Who is expected to sign a document, who has, and the event              *)
(* document.completed, which HandleCreateSignature publishes when the      *)
(* statistics it reads in its own transaction say that nobody is pending.  *)
(*                                                                         *)
(* Signers are accounts; the expected signers are emails.  A person who    *)
(* signs in in several ways (OAuth, magic link, reminder link) has several *)
(* accounts with one email.  One document; SignatureChain has the rest of  *)
(* the request.                                                            *)
(***************************************************************************)
EXTENDS Integers, FiniteSets

CONSTANTS
  Accounts,     \* user_sub values
  Emails,
  EmailOf,      \* the email of an account
  MaxChanges    \* bound: how often the list of expected signers changes

ASSUME CompletionConstants ==
  EmailOf \in [Accounts -> Emails] /\ IsFiniteSet(Emails) /\ MaxChanges \in Nat

VARIABLES
  expected,    \* expected_signers: the emails
  signed,      \* committed signatures: [by, seen, at]
  pc,          \* per account: where its request is
  announce,    \* per account: what its request will announce
  completed,   \* committed document.completed events: [expected, by]
  clock,       \* (history) commits of signatures and changes of the list
  listed,      \* (history) the clock when the list last changed
  changes      \* how often the list has changed

vars == <<expected, signed, pc, announce, completed, clock, listed, changes>>

-----------------------------------------------------------------------------
Nothing == [on |-> FALSE, expected |-> {}, seen |-> 0]

TypeOK ==
  /\ expected \subseteq Emails
  /\ signed \subseteq [by : Accounts, seen : Nat, at : Nat]
  /\ pc \in [Accounts -> {"idle", "signed", "counted"}]
  /\ announce \in [Accounts -> [on : BOOLEAN, expected : SUBSET Emails, seen : Nat]]
  /\ completed \subseteq [expected : SUBSET Emails, by : Accounts]
  /\ clock \in Nat /\ listed \in Nat /\ changes \in 0..MaxChanges

Signers == {s.by : s \in signed}
SignedEmails == {EmailOf[a] : a \in Signers}

(* Mutant: signed_count is total_signature_count. *)
SignedCountTotal(A) == Cardinality(A)

(* GetStats over the signatures of the accounts A: signed_count counts the *)
(* pairs of an expected signer and a signature with its email.             *)
ExpectedCount == Cardinality(expected)
SignedCount(A) == Cardinality({p \in expected \X A : EmailOf[p[2]] = p[1]})
PendingCount(A) == ExpectedCount - SignedCount(A)

(* ListWithStatusByDocID: the signers listed as not having signed, to whom *)
(* reminders go.                                                           *)
Unsigned(A) == {e \in expected : \A a \in A : EmailOf[a] # e}

Init ==
  /\ expected = {}
  /\ signed = {}
  /\ pc = [a \in Accounts |-> "idle"]
  /\ announce = [a \in Accounts |-> Nothing]
  /\ completed = {}
  /\ clock = 0 /\ listed = 0
  /\ changes = 0

-----------------------------------------------------------------------------
(* AddExpected: ON CONFLICT DO NOTHING. *)
AddExpected ==
  /\ changes < MaxChanges
  /\ \E S \in SUBSET Emails : S # {} /\ expected' = expected \union S
  /\ changes' = changes + 1 /\ clock' = clock + 1 /\ listed' = clock + 1
  /\ UNCHANGED <<signed, pc, announce, completed>>

(* Remove: the handler answers an error when nobody was removed. *)
RemoveExpected ==
  /\ changes < MaxChanges
  /\ \E e \in expected : expected' = expected \ {e}
  /\ changes' = changes + 1 /\ clock' = clock + 1 /\ listed' = clock + 1
  /\ UNCHANGED <<signed, pc, announce, completed>>

(* CreateSignature inserts the row in the request's transaction. *)
Sign(a) ==
  /\ pc[a] = "idle" /\ a \notin Signers
  /\ pc' = [pc EXCEPT ![a] = "signed"]
  /\ UNCHANGED <<expected, signed, announce, completed, clock, listed, changes>>

(* Mutant: the request's own signature is not seen, as it is when the      *)
(* statistics are read on a connection of their own.                       *)
CountWithoutOwn(a) ==
  /\ pc[a] = "signed"
  /\ pc' = [pc EXCEPT ![a] = "counted"]
  /\ announce' = [announce EXCEPT ![a] =
       [on |-> ExpectedCount > 0 /\ PendingCount(Signers) = 0, expected |-> expected, seen |-> clock]]
  /\ UNCHANGED <<expected, signed, completed, clock, listed, changes>>

(* GetSignerStats: the signatures committed so far and the request's own.  *)
(* document.completed is queued in the same transaction.                   *)
Count(a) ==
  /\ pc[a] = "signed"
  /\ pc' = [pc EXCEPT ![a] = "counted"]
  /\ announce' = [announce EXCEPT ![a] =
       [on |-> ExpectedCount > 0 /\ PendingCount(Signers \union {a}) = 0, expected |-> expected, seen |-> clock]]
  /\ UNCHANGED <<expected, signed, completed, clock, listed, changes>>

(* The transaction commits the signature and the event. *)
Commit(a) ==
  /\ pc[a] = "counted"
  /\ pc' = [pc EXCEPT ![a] = "idle"]
  /\ clock' = clock + 1
  /\ signed' = signed \union {[by |-> a, seen |-> announce[a].seen, at |-> clock + 1]}
  /\ completed' = IF announce[a].on THEN completed \union {[expected |-> announce[a].expected, by |-> a]} ELSE completed
  /\ announce' = [announce EXCEPT ![a] = Nothing]
  /\ UNCHANGED <<expected, listed, changes>>

(* The transaction is lost, with the signature: the user may sign again. *)
RollBack(a) ==
  /\ pc[a] # "idle"
  /\ pc' = [pc EXCEPT ![a] = "idle"]
  /\ announce' = [announce EXCEPT ![a] = Nothing]
  /\ UNCHANGED <<expected, signed, completed, clock, listed, changes>>

Next ==
  \/ AddExpected
  \/ RemoveExpected
  \/ \E a \in Accounts : Sign(a) \/ Count(a) \/ Commit(a) \/ RollBack(a)

Spec == Init /\ [][Next]_vars
-----------------------------------------------------------------------------
(* Two accounts of the set A share an email of the set E. *)
Twins(E, A) == \E a, b \in A : a # b /\ EmailOf[a] = EmailOf[b] /\ EmailOf[a] \in E

(* "If expected signers completed -> publish document.completed": all the  *)
(* signers who were expected when the event was decided on have signed.    *)
(* The count of pairs breaks it when two accounts share an email.          *)
AnnouncedWhenComplete == \A c \in completed : c.expected \subseteq SignedEmails

(* Nothing else breaks it: however the list changes and the signers        *)
(* overlap, an event that came too early is of a document that two         *)
(* accounts of one expected signer have signed.                            *)
EarlyOnlyByTwins ==
  \A c \in completed : c.expected \subseteq SignedEmails \/ Twins(c.expected, Signers)

(* A document whose expected signers have all signed, one of them after    *)
(* the list last changed, has had its event, unless two of the requests    *)
(* overlapped so that neither saw the other's commit, or two accounts of   *)
(* one expected signer have signed, so that fewer than none are pending.   *)
Blind(s, t) == s.seen < t.at /\ t.seen < s.at
MissedOnlyByOverlap ==
  expected \subseteq SignedEmails /\ (\E s \in signed : EmailOf[s.by] \in expected /\ s.seen >= listed) =>
    \/ \E c \in completed : c.expected = expected
    \/ \E s, t \in signed : s # t /\ Blind(s, t)
    \/ Twins(expected, Signers)
=============================================================================
