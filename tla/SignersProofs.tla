---------------------------- MODULE SignersProofs ----------------------------
(***************************************************************************)
(* Proofs about Completion and Signers, for any accounts, emails, lists    *)
(* and CSV files.                                                          *)
(*                                                                         *)
(* A step of Signers is a step of Completion (SignersAreCompletion), so    *)
(* that what is proved of Completion holds while administrators import     *)
(* and remind.  The properties of Completion follow from IInv:             *)
(*   Clocked: commits have times of their own, and the list's last change  *)
(*     is not later than now;                                              *)
(*   Counting: what a request counted, told by the commits it saw;         *)
(*   Announcing: a request that saw everybody sign published the event.    *)
(*                                                                         *)
(* Accounts may share emails.  What a request counted tells who has signed *)
(* unless two accounts of one expected signer had.                         *)
(***************************************************************************)
EXTENDS Signers, FiniteSetTheorems, WellFoundedInduction, TLAPS

-----------------------------------------------------------------------------
(* The statistics, as statements about who has signed. *)

(* The pairs of SignedCount are as many as the expected signers covered. *)
Covered(A) == {e \in expected : \E a \in A : EmailOf[a] = e}

LEMMA CountIsCovered ==
  ASSUME expected \subseteq Emails, NEW A \in SUBSET Accounts, ~Twins(expected, A)
  PROVE  /\ IsFiniteSet(expected) /\ IsFiniteSet(Covered(A))
         /\ SignedCount(A) = Cardinality(Covered(A))
<1> DEFINE P == {p \in expected \X A : EmailOf[p[2]] = p[1]}
           f == [e \in Covered(A) |-> <<e, CHOOSE a \in A : EmailOf[a] = e>>]
<1>1. IsFiniteSet(expected)
  BY FS_Subset, CompletionConstants
<1>2. IsFiniteSet(Covered(A))
  BY <1>1, FS_Subset DEF Covered
<1>3. \A e \in Covered(A) : f[e] \in P /\ f[e][1] = e
  BY DEF Covered
<1>4. \A p \in P : p[1] \in Covered(A) /\ f[p[1]] = p
  BY DEF Covered, Twins
<1>5. f \in [Covered(A) -> P]
  BY <1>3
<1> HIDE DEF f, P
<1>6. f \in Bijection(Covered(A), P)
  BY <1>3, <1>4, <1>5 DEF Bijection, Injection, Surjection, IsInjective
<1>7. Cardinality(P) = Cardinality(Covered(A))
  BY <1>2, <1>6, FS_Bijection DEF ExistsBijection
<1>8. QED
  BY <1>1, <1>2, <1>7 DEF P, SignedCount

LEMMA CountComplete ==
  ASSUME expected \subseteq Emails, NEW A \in SUBSET Accounts, ~Twins(expected, A)
  PROVE  /\ ExpectedCount \in Nat /\ SignedCount(A) \in Nat
         /\ PendingCount(A) = 0 <=> \A e \in expected : \E a \in A : EmailOf[a] = e
<1>1. IsFiniteSet(expected) /\ IsFiniteSet(Covered(A)) /\ SignedCount(A) = Cardinality(Covered(A))
  BY CountIsCovered
<1>2. ExpectedCount \in Nat /\ SignedCount(A) \in Nat
  BY <1>1, FS_CardinalityType DEF ExpectedCount
<1>3. PendingCount(A) = 0 <=> ExpectedCount = SignedCount(A)
  BY <1>2 DEF PendingCount
<1>4. Covered(A) \subseteq expected
  BY DEF Covered
<1>5. ExpectedCount = SignedCount(A) => Covered(A) = expected
  BY <1>1, <1>4, FS_Subset DEF ExpectedCount
<1>6. Covered(A) = expected => ExpectedCount = SignedCount(A)
  BY <1>1 DEF ExpectedCount
<1>7. Covered(A) = expected <=> \A e \in expected : \E a \in A : EmailOf[a] = e
  BY DEF Covered
<1>8. QED
  BY <1>2, <1>3, <1>5, <1>6, <1>7

LEMMA SignersAreAccounts ==
  ASSUME TypeOK
  PROVE  Signers \subseteq Accounts
BY DEF TypeOK, Signers

-----------------------------------------------------------------------------
(* The inductive invariant of Completion. *)

(* The emails of those whose signatures were committed by time n. *)
SignedBy(n) == {EmailOf[s.by] : s \in {t \in signed : t.at <= n}}

(* Those who had signed by time n, and account a. *)
Had(a, n) == {s.by : s \in {t \in signed : t.at <= n}} \union {a}

LastCommit(s) == \A t \in signed : t.at <= s.at

Clocked ==
  /\ \A s \in signed : s.seen < s.at /\ s.at <= clock
  /\ \A s, t \in signed : s.at = t.at => s = t
  /\ signed = {} \/ \E s \in signed : LastCommit(s)
  /\ listed <= clock
  /\ \A a \in Accounts : announce[a].seen <= clock

(* Everybody expected (E) had signed, as the request of account a saw it   *)
(* at time n.                                                              *)
SawAll(E, a, n) == E # {} /\ E \subseteq SignedBy(n) \union {EmailOf[a]}

Counting ==
  \A a \in Accounts : pc[a] = "counted" =>
    /\ announce[a].seen >= listed => announce[a].expected = expected
    /\ \/ Twins(announce[a].expected, Had(a, announce[a].seen))
       \/ announce[a].on <=> SawAll(announce[a].expected, a, announce[a].seen)

Announcing ==
  \A s \in signed : s.seen >= listed /\ SawAll(expected, s.by, s.seen) =>
    \/ \E c \in completed : c.expected = expected
    \/ Twins(expected, Signers)

IInv == TypeOK /\ Clocked /\ Counting /\ Announcing /\ EarlyOnlyByTwins

LEMMA InitIInv == Init => IInv
BY CompletionConstants DEF Init, IInv, TypeOK, Clocked, Counting, Announcing, EarlyOnlyByTwins, Nothing

-----------------------------------------------------------------------------
(* Whatever changes the list of expected signers. *)
ListChanges ==
  /\ expected' \subseteq Emails
  /\ changes' = changes + 1 /\ changes' \in 0..MaxChanges
  /\ clock' = clock + 1 /\ listed' = clock + 1
  /\ UNCHANGED <<signed, pc, announce, completed>>

LEMMA ListChangesIInv ==
  ASSUME IInv, ListChanges
  PROVE  IInv'
<1>1. TypeOK'
  BY DEF IInv, TypeOK, ListChanges
<1>2. Clocked'
  BY DEF IInv, TypeOK, Clocked, LastCommit, ListChanges
<1>3. Counting'
  <2>1. ASSUME NEW a \in Accounts
        PROVE  announce[a].seen \in Nat /\ announce[a].seen < listed'
    BY DEF IInv, TypeOK, Clocked, ListChanges
  <2>2. \A E, a, n : SawAll(E, a, n)' <=> SawAll(E, a, n)
    BY DEF SawAll, SignedBy, ListChanges
  <2>3. \A a, n : Had(a, n)' = Had(a, n)
    BY DEF Had, ListChanges
  <2>4. QED
    BY <2>1, <2>2, <2>3 DEF IInv, TypeOK, Counting, Twins, ListChanges
<1>4. Announcing'
  <2>1. ASSUME NEW s \in signed
        PROVE  ~(s.seen >= listed')
    BY DEF IInv, TypeOK, Clocked, ListChanges
  <2>2. QED
    BY <2>1 DEF Announcing, ListChanges
<1>5. EarlyOnlyByTwins'
  BY DEF IInv, EarlyOnlyByTwins, Twins, SignedEmails, Signers, ListChanges
<1>6. QED
  BY <1>1, <1>2, <1>3, <1>4, <1>5 DEF IInv

(* Signing inserts the row, and losing the request forgets what it read. *)
LEMMA SignIInv ==
  ASSUME IInv, NEW a \in Accounts, Sign(a) \/ RollBack(a)
  PROVE  IInv'
<1>1. /\ UNCHANGED <<expected, signed, completed, clock, listed, changes>>
      /\ pc' \in [Accounts -> {"idle", "signed", "counted"}]
      /\ announce' \in [Accounts -> [on : BOOLEAN, expected : SUBSET Emails, seen : Nat]]
      /\ \A b \in Accounts : announce'[b].seen <= clock
      /\ \A b \in Accounts : pc'[b] = "counted" => pc[b] = "counted" /\ announce'[b] = announce[b]
  <2>1. CASE Sign(a)
    BY <2>1 DEF IInv, TypeOK, Clocked, Sign
  <2>2. CASE RollBack(a)
    <3>1. Nothing \in [on : BOOLEAN, expected : SUBSET Emails, seen : Nat] /\ Nothing.seen = 0
      BY DEF Nothing
    <3>2. QED
      BY <2>2, <3>1 DEF IInv, TypeOK, Clocked, RollBack
  <2>3. QED
    BY <2>1, <2>2
<1>2. TypeOK'
  BY <1>1 DEF IInv, TypeOK
<1>3. Clocked'
  BY <1>1 DEF IInv, Clocked, LastCommit
<1>4. /\ \A E, b, n : SawAll(E, b, n)' <=> SawAll(E, b, n)
      /\ \A b, n : Had(b, n)' = Had(b, n)
  BY <1>1 DEF SawAll, SignedBy, Had
<1>5. Counting'
  BY <1>1, <1>4 DEF IInv, Counting, Twins
<1>6. Announcing'
  BY <1>1, <1>4 DEF IInv, Announcing, Twins, Signers
<1>7. EarlyOnlyByTwins'
  BY <1>1 DEF IInv, EarlyOnlyByTwins, Twins, SignedEmails, Signers
<1>8. QED
  BY <1>2, <1>3, <1>5, <1>6, <1>7 DEF IInv

(* The statistics of the request's own transaction say that nobody is      *)
(* pending just when the request saw everybody sign, unless twins had.     *)
LEMMA CountIInv ==
  ASSUME IInv, NEW a \in Accounts, Count(a)
  PROVE  IInv'
<1> DEFINE on == ExpectedCount > 0 /\ PendingCount(Signers \union {a}) = 0
           counted == [on |-> on, expected |-> expected, seen |-> clock]
<1>1. SignedBy(clock) = SignedEmails
  BY DEF IInv, Clocked, SignedBy, SignedEmails, Signers
<1>2. Twins(expected, Signers \union {a}) \/ (on <=> SawAll(expected, a, clock))
  <2> SUFFICES ASSUME ~Twins(expected, Signers \union {a})
               PROVE  on <=> SawAll(expected, a, clock)
    OBVIOUS
  <2>1. expected \subseteq Emails /\ Signers \union {a} \in SUBSET Accounts
    BY SignersAreAccounts DEF IInv, TypeOK
  <2>2. ExpectedCount \in Nat /\ IsFiniteSet(expected)
    BY <2>1, CountComplete, CountIsCovered
  <2>3. ExpectedCount > 0 <=> expected # {}
    BY <2>2, FS_EmptySet DEF ExpectedCount
  <2>4. PendingCount(Signers \union {a}) = 0 <=> \A e \in expected : \E b \in Signers \union {a} : EmailOf[b] = e
    BY <2>1, CountComplete
  <2>5. QED
    BY <1>1, <2>3, <2>4 DEF SawAll, SignedEmails
<1>3. on \in BOOLEAN /\ Had(a, clock) = Signers \union {a}
  BY DEF IInv, Clocked, Had, Signers
<1> HIDE DEF on
<1>4. counted \in [on : BOOLEAN, expected : SUBSET Emails, seen : Nat]
  BY <1>3 DEF IInv, TypeOK
<1>5. /\ Twins(expected, Had(a, clock)) \/ (counted.on <=> SawAll(expected, a, clock))
      /\ counted.expected = expected /\ counted.seen = clock
  BY <1>2, <1>3
<1>6. /\ announce' = [announce EXCEPT ![a] = counted]
      /\ UNCHANGED <<expected, signed, completed, clock, listed, changes>>
      /\ pc' = [pc EXCEPT ![a] = "counted"]
  BY DEF Count, on
<1> HIDE DEF counted
<1>7. TypeOK'
  BY <1>4, <1>6 DEF IInv, TypeOK
<1>8. Clocked'
  <2>1. \A b \in Accounts : announce'[b].seen <= clock
    BY <1>5, <1>6 DEF IInv, TypeOK, Clocked
  <2>2. QED
    BY <1>6, <2>1 DEF IInv, Clocked, LastCommit
<1>9. /\ \A E, b, n : SawAll(E, b, n)' <=> SawAll(E, b, n)
      /\ \A b, n : Had(b, n)' = Had(b, n)
  BY <1>6 DEF SawAll, SignedBy, Had
<1>10. Counting'
  BY <1>5, <1>6, <1>9 DEF IInv, TypeOK, Counting, Twins
<1>11. Announcing'
  BY <1>6, <1>9 DEF IInv, Announcing, Twins, Signers
<1>12. EarlyOnlyByTwins'
  BY <1>6 DEF IInv, EarlyOnlyByTwins, Twins, SignedEmails, Signers
<1>13. QED
  BY <1>7, <1>8, <1>10, <1>11, <1>12 DEF IInv

(* The commit has a time of its own, after all that was seen before. *)
LEMMA CommitIInv ==
  ASSUME IInv, NEW a \in Accounts, Commit(a)
  PROVE  IInv'
<1>1. PICK s \in [by : Accounts, seen : Nat, at : Nat] :
        /\ s = [by |-> a, seen |-> announce[a].seen, at |-> clock + 1]
        /\ s.by = a /\ s.seen = announce[a].seen /\ s.at = clock + 1 /\ s.seen <= clock /\ clock \in Nat
  <2>1. /\ announce[a].seen \in Nat /\ clock \in Nat /\ clock + 1 \in Nat
        /\ announce[a].seen <= clock
    BY DEF IInv, TypeOK, Clocked
  <2> DEFINE r == [by |-> a, seen |-> announce[a].seen, at |-> clock + 1]
  <2>2. /\ r \in [by : Accounts, seen : Nat, at : Nat]
        /\ r.by = a /\ r.seen = announce[a].seen /\ r.at = clock + 1
    BY <2>1
  <2>3. QED
    BY <2>1, <2>2
<1>2. PICK c \in [expected : SUBSET Emails, by : Accounts] :
        /\ c.expected = announce[a].expected
        /\ completed' = IF announce[a].on THEN completed \union {c} ELSE completed
  BY DEF IInv, TypeOK, Commit
<1>3. /\ signed' = signed \union {s} /\ clock' = clock + 1
      /\ pc' = [pc EXCEPT ![a] = "idle"] /\ announce' = [announce EXCEPT ![a] = Nothing]
      /\ UNCHANGED <<expected, listed, changes>> /\ pc[a] = "counted"
  BY <1>1 DEF Commit
<1>4. /\ Nothing \in [on : BOOLEAN, expected : SUBSET Emails, seen : Nat]
      /\ Nothing.seen = 0
  BY DEF Nothing
<1>5. TypeOK'
  BY <1>3, <1>1, <1>2, <1>4 DEF IInv, TypeOK
<1>6. ASSUME NEW t \in signed
      PROVE  t.seen \in Nat /\ t.at \in Nat /\ t.seen < t.at /\ t.at <= clock /\ t.by \in Accounts
  BY DEF IInv, TypeOK, Clocked
<1>7. Clocked'
  <2>1. \A t \in signed' : t.seen < t.at /\ t.at <= clock'
    BY <1>3, <1>1, <1>2, <1>6
  <2>2. \A t, u \in signed' : t.at = u.at => t = u
    <3>1. \A t, u \in signed : t.at = u.at => t = u
      BY DEF IInv, Clocked
    <3>2. QED
      BY <1>3, <1>1, <1>2, <1>6, <3>1
  <2>3. LastCommit(s)' /\ s \in signed'
    BY <1>3, <1>1, <1>2, <1>6 DEF LastCommit
  <2>4. listed' <= clock'
    BY <1>3, <1>2 DEF IInv, TypeOK, Clocked
  <2>5. \A b \in Accounts : announce'[b].seen <= clock'
    BY <1>3, <1>1, <1>2, <1>4 DEF IInv, TypeOK, Clocked
  <2>6. QED
    BY <2>1, <2>2, <2>3, <2>4, <2>5 DEF Clocked
<1>8. ASSUME NEW n \in Nat, n <= clock
      PROVE  SignedBy(n)' = SignedBy(n)
  BY <1>3, <1>1, <1>2, <1>8 DEF SignedBy
<1>9. ASSUME NEW E, NEW b, NEW n \in Nat, n <= clock
      PROVE  /\ SawAll(E, b, n)' <=> SawAll(E, b, n)
             /\ Had(b, n)' = Had(b, n)
  <2>1. SawAll(E, b, n)' <=> SawAll(E, b, n)
    BY <1>8, <1>9 DEF SawAll
  <2>2. Had(b, n)' = Had(b, n)
    BY <1>3, <1>1, <1>9 DEF Had
  <2>3. QED
    BY <2>1, <2>2
<1>10. /\ Signers' = Signers \union {a}
       /\ Signers \subseteq Signers'
       /\ Had(a, announce[a].seen) \subseteq Signers'
  BY <1>3, <1>1 DEF Signers, Had
<1>11. Counting'
  <2>1. ASSUME NEW b \in Accounts, pc'[b] = "counted"
        PROVE  /\ pc[b] = "counted" /\ announce'[b] = announce[b]
               /\ announce[b].seen \in Nat /\ announce[b].seen <= clock
    BY <1>3, <1>2, <2>1 DEF IInv, TypeOK, Clocked
  <2>2. QED
    BY <1>3, <1>2, <1>9, <2>1 DEF IInv, Counting, Twins
<1>12. Announcing'
  <2> SUFFICES ASSUME NEW t \in signed', t.seen >= listed, SawAll(expected, t.by, t.seen)'
               PROVE  \/ \E d \in completed' : d.expected = expected
                      \/ Twins(expected, Signers')
    BY <1>3 DEF Announcing, Twins
  <2>1. t.seen \in Nat /\ t.seen <= clock
    BY <1>3, <1>1, <1>2, <1>6
  <2>2. SawAll(expected, t.by, t.seen)
    BY <1>3, <1>2, <1>9, <2>1
  <2>3. CASE t \in signed
    BY <1>3, <1>2, <1>10, <2>2, <2>3 DEF IInv, Announcing, Twins
  <2>4. CASE t = s
    <3>1. announce[a].expected = expected
      BY <1>3, <1>1, <1>2, <2>4 DEF IInv, Counting
    <3>2. announce[a].on \/ Twins(expected, Had(a, announce[a].seen))
      BY <1>3, <1>1, <1>2, <2>2, <2>4, <3>1 DEF IInv, Counting
    <3>3. CASE announce[a].on
      BY <1>2, <3>1, <3>3
    <3>4. CASE Twins(expected, Had(a, announce[a].seen))
      BY <1>10, <3>4 DEF Twins
    <3>5. QED
      BY <3>2, <3>3, <3>4
  <2>5. QED
    BY <1>3, <1>2, <2>3, <2>4
<1>13. EarlyOnlyByTwins'
  <2>1. SignedEmails \subseteq SignedEmails' /\ EmailOf[a] \in SignedEmails'
    BY <1>3, <1>1, <1>2 DEF SignedEmails, Signers
  <2>2. announce[a].on => \/ announce[a].expected \subseteq SignedEmails \union {EmailOf[a]}
                          \/ Twins(announce[a].expected, Signers')
    <3>1. CASE Twins(announce[a].expected, Had(a, announce[a].seen))
      BY <1>10, <3>1 DEF Twins
    <3>2. CASE announce[a].on <=> SawAll(announce[a].expected, a, announce[a].seen)
      BY <3>2 DEF SawAll, SignedBy, SignedEmails, Signers
    <3>3. QED
      BY <1>3, <3>1, <3>2 DEF IInv, Counting
  <2>3. ASSUME NEW c1 \in completed
        PROVE  c1.expected \subseteq SignedEmails' \/ Twins(c1.expected, Signers')
    BY <1>10, <2>1 DEF IInv, EarlyOnlyByTwins, Twins
  <2>4. c.expected \subseteq SignedEmails' \/ Twins(c.expected, Signers') \/ ~announce[a].on
    BY <1>2, <2>1, <2>2
  <2>5. QED
    BY <1>3, <1>2, <2>3, <2>4 DEF EarlyOnlyByTwins, Twins
<1>14. QED
  BY <1>5, <1>7, <1>11, <1>12, <1>13 DEF IInv

LEMMA NextIInv ==
  ASSUME IInv, [Next]_vars
  PROVE  IInv'
<1>1. CASE AddExpected \/ RemoveExpected
  <2>1. ListChanges
    BY <1>1, CompletionConstants DEF IInv, TypeOK, AddExpected, RemoveExpected, ListChanges
  <2>2. QED
    BY <2>1, ListChangesIInv
<1>2. ASSUME NEW a \in Accounts, Sign(a) \/ Count(a) \/ Commit(a) \/ RollBack(a)
      PROVE  IInv'
  BY <1>2, SignIInv, CountIInv, CommitIInv
<1>3. CASE UNCHANGED vars
  <2>1. /\ \A E, b, n : SawAll(E, b, n)' <=> SawAll(E, b, n)
        /\ \A b, n : Had(b, n)' = Had(b, n)
    BY <1>3 DEF vars, SawAll, SignedBy, Had
  <2>2. TypeOK' /\ Clocked'
    BY <1>3 DEF vars, IInv, TypeOK, Clocked, LastCommit
  <2>3. Counting'
    BY <1>3, <2>1 DEF vars, IInv, Counting, Twins
  <2>4. Announcing' /\ EarlyOnlyByTwins'
    BY <1>3, <2>1 DEF vars, IInv, Announcing, EarlyOnlyByTwins, Twins, SignedEmails, Signers
  <2>5. QED
    BY <2>2, <2>3, <2>4 DEF IInv
<1>4. QED
  BY <1>1, <1>2, <1>3 DEF Next

(* The last to have signed saw everybody, unless some pair is blind. *)
LEMMA LastSawAll ==
  ASSUME IInv, expected \subseteq SignedEmails,
         NEW r \in signed, EmailOf[r.by] \in expected, r.seen >= listed,
         ~\E s, t \in signed : s # t /\ Blind(s, t)
  PROVE  (\E c \in completed : c.expected = expected) \/ Twins(expected, Signers)
<1>1. PICK s \in signed : LastCommit(s)
  BY DEF IInv, Clocked
<1>2. \A t \in signed : t.seen \in Nat /\ t.at \in Nat /\ t.seen < t.at
  BY DEF IInv, TypeOK, Clocked
<1>3. ASSUME NEW t \in signed, t # s
      PROVE  t.at <= s.seen
  <2>1. t.at < s.at
    BY <1>1, <1>2, <1>3 DEF IInv, Clocked, LastCommit
  <2>2. ~Blind(s, t)
    BY <1>3
  <2>3. QED
    BY <1>2, <2>1, <2>2 DEF Blind
<1>4. s.seen >= listed
  <2>1. CASE r = s
    BY <2>1
  <2>2. CASE r # s
    BY <1>2, <1>3, <2>2 DEF IInv, TypeOK
  <2>3. QED
    BY <2>1, <2>2
<1>5. SawAll(expected, s.by, s.seen)
  BY <1>3 DEF SawAll, SignedBy, SignedEmails, Signers
<1>6. QED
  BY <1>4, <1>5 DEF IInv, Announcing

(* The inductive invariant of Completion, whoever shares an email.         *)
THEOREM Invariance == Spec => []IInv
<1>1. Init => IInv
  BY InitIInv
<1>2. IInv /\ [Next]_vars => IInv'
  BY NextIInv
<1>3. QED
  BY <1>1, <1>2, PTL DEF Spec

-----------------------------------------------------------------------------
(* Parse, a recursive function, is defined for every file, and returns     *)
(* emails: both by the least row for which it would not.                   *)
LEMMA LeastNumber ==
  ASSUME NEW T \in SUBSET Nat, T # {}
  PROVE  \E n \in T : \A m \in T : n <= m
<1> DEFINE U == {0..n : n \in T}
           R == StrictSubsetOrdering(Nat)
<1>1. U \subseteq FiniteSubsetsOf(Nat)
  <2>1. \A n \in T : IsFiniteSet(0..n) /\ 0..n \in SUBSET Nat
    BY FS_Interval
  <2>2. QED
    BY <2>1 DEF FiniteSubsetsOf
<1>2. U # {}
  OBVIOUS
<1>3. IsWellFoundedOn(R, FiniteSubsetsOf(Nat))
  BY FS_StrictSubsetOrderingWellFounded
<1> HIDE DEF U, R
<1>4. PICK x \in U : \A y \in U : ~(<<y, x>> \in R)
  BY <1>1, <1>2, <1>3, WFMin
<1>5. PICK n \in T : x = 0..n
  BY DEF U
<1>6. ASSUME NEW m \in T, m < n
      PROVE  FALSE
  <2>1. 0..m \subseteq 0..n /\ 0..m # 0..n /\ 0..m \in SUBSET Nat /\ 0..n \in SUBSET Nat
    <3>1. n \in 0..n /\ n \notin 0..m
      BY <1>6
    <3>2. QED
      BY <1>6, <3>1
  <2>2. <<0..m, 0..n>> \in R
    BY <2>1 DEF R, StrictSubsetOrdering
  <2>3. QED
    BY <1>4, <1>5, <2>2 DEF U
<1>7. QED
  BY <1>6

LEMMA ParseIsEmails ==
  ASSUME NEW file \in Files
  PROVE  Parse(file) \in Seq(Emails)
<1> DEFINE n == Len(file.rows)
           after(t, i) == IF i = 0 THEN <<>>
                          ELSE IF ValidRow(file, file.rows[i]) /\ (MaxSigners = 0 \/ Len(t[i - 1]) < MaxSigners)
                               THEN Append(t[i - 1], file.rows[i])
                               ELSE t[i - 1]
           signers == CHOOSE f : f = [i \in 0..n |-> after(f, i)]
           loops(k) == \E t \in [0..k -> Seq(Emails)] : \A i \in 0..k : t[i] = after(t, i)
           Bad == {k \in Nat : k <= n /\ ~loops(k)}
           Ill == {k \in 0..n : signers[k] \notin Seq(Emails)}
<1>1. n \in Nat
  BY SignersConstants
<1>2. \A t : after(t, 0) = <<>>
  OBVIOUS
<1>3. ASSUME NEW t, NEW k \in 1..n, t[k - 1] \in Seq(Emails)
      PROVE  after(t, k) \in Seq(Emails)
  BY <1>3 DEF ValidRow
<1>4. ASSUME NEW t, NEW u, NEW k \in 1..n, t[k - 1] = u[k - 1]
      PROVE  after(t, k) = after(u, k)
  BY <1>4
<1>5. Parse(file) = signers[n]
  BY DEF Parse
<1> HIDE DEF n, after
<1>6. loops(0)
  <2> DEFINE t == [i \in 0..0 |-> <<>>]
  <2>1. t \in [0..0 -> Seq(Emails)] /\ \A i \in 0..0 : i = 0 /\ t[i] = <<>>
    OBVIOUS
  <2>2. QED
    BY <1>2, <2>1
<1>7. ASSUME NEW k \in 1..n, loops(k - 1)
      PROVE  loops(k)
  <2>1. PICK t \in [0..(k - 1) -> Seq(Emails)] : \A i \in 0..(k - 1) : t[i] = after(t, i)
    BY <1>7
  <2> DEFINE u == [i \in 0..k |-> IF i = k THEN after(t, k) ELSE t[i]]
  <2>2. t[k - 1] \in Seq(Emails)
    OBVIOUS
  <2>3. u \in [0..k -> Seq(Emails)]
    BY <1>3, <2>2
  <2>4. u[k] = after(t, k) /\ \A i \in 0..(k - 1) : u[i] = t[i]
    OBVIOUS
  <2> HIDE DEF u
  <2>5. ASSUME NEW i \in 0..k
        PROVE  u[i] = after(u, i)
    <3>1. CASE i = 0
      BY <1>2, <2>1, <2>4, <3>1
    <3>2. CASE i # 0
      <4>1. i \in 1..n /\ u[i - 1] = t[i - 1]
        BY <1>1, <2>4, <3>2
      <4>2. u[i] = after(t, i)
        BY <2>1, <2>4
      <4>3. QED
        BY <1>4, <4>1, <4>2
    <3>3. QED
      BY <3>1, <3>2
  <2>6. QED
    BY <2>3, <2>5
<1> HIDE DEF loops
<1>8. Bad = {}
  <2> SUFFICES ASSUME Bad # {} PROVE FALSE
    OBVIOUS
  <2>1. PICK k \in Bad : \A m \in Bad : k <= m
    BY LeastNumber
  <2>2. k \in 1..n /\ k - 1 \notin Bad
    BY <1>1, <1>6, <2>1
  <2>3. loops(k - 1)
    BY <1>1, <2>2
  <2>4. QED
    BY <1>7, <2>2, <2>3
<1>9. PICK t : t = [i \in 0..n |-> after(t, i)]
  <2>1. loops(n)
    BY <1>1, <1>8
  <2>2. PICK t \in [0..n -> Seq(Emails)] : \A i \in 0..n : t[i] = after(t, i)
    BY <2>1 DEF loops
  <2>3. t = [i \in 0..n |-> after(t, i)]
    BY <2>2
  <2>4. QED
    BY <2>3
<1>10. signers = [i \in 0..n |-> after(signers, i)]
  BY <1>9
<1>11. \A i \in 0..n : signers[i] = after(signers, i)
  BY <1>10
<1> HIDE DEF signers
<1>12. Ill = {}
  <2> SUFFICES ASSUME Ill # {} PROVE FALSE
    OBVIOUS
  <2>1. Ill \in SUBSET Nat
    BY <1>1
  <2>2. PICK k \in Ill : \A m \in Ill : k <= m
    BY <2>1, LeastNumber
  <2>3. signers[0] \in Seq(Emails)
    <3>1. 0 \in 0..n
      BY <1>1
    <3>2. signers[0] = <<>>
      BY <1>2, <1>11, <3>1
    <3>3. QED
      BY <3>2
  <2>4. k \in 1..n /\ k - 1 \in 0..n /\ k - 1 \notin Ill
    BY <1>1, <2>2, <2>3
  <2>5. signers[k - 1] \in Seq(Emails)
    BY <2>4
  <2>6. signers[k] \in Seq(Emails)
    BY <1>3, <1>11, <2>4, <2>5
  <2>7. QED
    BY <2>6
<1>13. QED
  BY <1>1, <1>5, <1>12

-----------------------------------------------------------------------------
(* Whatever is done to the list while signers sign. *)
Importing ==
  /\ listed <= clock
  /\ admin.pc = "insert" =>
       /\ Len(admin.entries) \in 1..MaxSigners
       /\ admin.seen <= clock
       /\ listed <= admin.seen => admin.known = expected

(* A log keeps its signer on the list; a mail without one dooms the rest.  *)
(* Nobody had signed when the list was read.                               *)
Reminding ==
  /\ admin.logged \subseteq expected
  /\ ~admin.doomed => admin.mailed \subseteq admin.logged
  /\ admin.seen <= clock
  /\ \A e \in admin.todo \union admin.mailed : \A s \in signed : EmailOf[s.by] = e => s.at > admin.seen

SignersInv == SignersTypeOK /\ Importing /\ Reminding

(* The fields of the request in progress, as SignersTypeOK has them. *)
AdminTypeOK ==
  /\ admin.pc \in {"idle", "insert", "remind"}
  /\ admin.entries \in Seq(Entry) /\ Len(admin.entries) <= MaxSigners
  /\ admin.known \subseteq Emails /\ admin.todo \subseteq Emails /\ admin.seen \in Nat
  /\ admin.logged \subseteq admin.mailed /\ admin.mailed \subseteq Emails /\ admin.doomed \in BOOLEAN

LEMMA NoEntries == <<>> \in Seq(Entry) /\ Len(<<>>) <= MaxSigners
BY SignersConstants

LEMMA QuietIsTyped ==
  ASSUME admin' = Quiet
  PROVE  /\ AdminTypeOK' /\ admin'.pc = "idle"
         /\ admin'.logged = {} /\ admin'.mailed = {} /\ admin'.todo = {} /\ admin'.seen = 0
BY SignersConstants DEF Quiet, AdminTypeOK

LEMMA SignersInitInv == SignersInit => SignersInv
<1> SUFFICES ASSUME SignersInit PROVE SignersInv
  OBVIOUS
<1>1. /\ admin.pc = "idle" /\ admin.known = {} /\ admin.seen = 0
      /\ admin.todo = {} /\ admin.mailed = {} /\ admin.logged = {} /\ admin.doomed = FALSE
  BY DEF SignersInit, Quiet
<1>2. TypeOK /\ listed <= clock /\ clock = 0
  BY CompletionConstants DEF SignersInit, Init, TypeOK, Nothing
<1>3. AdminTypeOK
  BY SignersConstants DEF SignersInit, Quiet, AdminTypeOK
<1>4. SignersTypeOK
  BY <1>2, <1>3, SignersConstants DEF SignersInit, SignersTypeOK, AdminTypeOK
<1>5. QED
  BY <1>1, <1>2, <1>4 DEF SignersInv, Importing, Reminding

(* The steps of Completion keep its types. *)
LEMMA NextTypeOK ==
  ASSUME TypeOK, [Next]_vars
  PROVE  TypeOK'
<1>1. CASE AddExpected \/ RemoveExpected
  BY <1>1, CompletionConstants DEF TypeOK, AddExpected, RemoveExpected
<1>2. ASSUME NEW a \in Accounts, Sign(a)
      PROVE  TypeOK'
  BY <1>2 DEF TypeOK, Sign
<1>3. ASSUME NEW a \in Accounts, Count(a)
      PROVE  TypeOK'
  <2>1. PICK b \in BOOLEAN : b = (ExpectedCount > 0 /\ PendingCount(Signers \union {a}) = 0)
    OBVIOUS
  <2>2. announce' = [announce EXCEPT ![a] = [on |-> b, expected |-> expected, seen |-> clock]]
    BY <1>3, <2>1 DEF Count
  <2>3. QED
    BY <1>3, <2>2 DEF TypeOK, Count
<1>4. ASSUME NEW a \in Accounts, Commit(a)
      PROVE  TypeOK'
  BY <1>4 DEF TypeOK, Commit, Nothing
<1>5. ASSUME NEW a \in Accounts, RollBack(a)
      PROVE  TypeOK'
  BY <1>5 DEF TypeOK, RollBack, Nothing
<1>6. CASE UNCHANGED vars
  BY <1>6 DEF vars, TypeOK
<1>7. QED
  BY <1>1, <1>2, <1>3, <1>4, <1>5, <1>6 DEF Next

(* A step of Signers is a step of Completion, or leaves it unchanged: an   *)
(* import adds the emails of the file, at least one.                       *)
LEMMA SignersStep ==
  ASSUME SignersInv, [SignersNext]_signersVars
  PROVE  [Next]_vars
<1>1. CASE InsertSigners
  <2>1. /\ admin.entries \in Seq(Entry) /\ Len(admin.entries) >= 1
    BY <1>1 DEF SignersInv, SignersTypeOK, Importing, InsertSigners
  <2>2. EmailsOf(admin.entries) \in SUBSET Emails /\ EmailsOf(admin.entries) # {}
    <3>1. ASSUME NEW i \in DOMAIN admin.entries
          PROVE  admin.entries[i].email \in Emails
      <4>1. admin.entries[i] \in Entry
        BY <2>1
      <4>2. QED
        BY <4>1 DEF Entry
    <3>2. 1 \in DOMAIN admin.entries
      BY <2>1
    <3>3. QED
      BY <3>1, <3>2 DEF ToSet, EmailsOf
  <2>3. AddExpected
    BY <1>1, <2>2 DEF InsertSigners, AddExpected
  <2>4. QED
    BY <2>3 DEF Next
<1>2. CASE AddSigners \/ RemoveSigner
  BY <1>2 DEF AddSigners, RemoveSigner, Next
<1>3. CASE Import \/ Remind \/ CommitReminders \/ LoseRequest \/ UNCHANGED signersVars
  BY <1>3 DEF Import, Remind, CommitReminders, LoseRequest, signersVars
<1>4. ASSUME NEW e \in Emails, QueueReminder(e)
      PROVE  [Next]_vars
  BY <1>4 DEF QueueReminder
<1>5. QED
  BY <1>1, <1>2, <1>3, <1>4 DEF SignersNext, Next

(* Beside the administrator: signers sign, or somebody edits the list.     *)
LEMMA AdminApart ==
  ASSUME SignersInv, TypeOK', UNCHANGED <<admin, requests>>,
         mails' \in [Emails -> Nat], logs' \in [Emails -> Nat],
         \A s \in signed' : s \in signed \/ s.at = clock + 1,
         \/ UNCHANGED <<expected, listed>> /\ clock' \in {clock, clock + 1}
         \/ /\ clock' = clock + 1 /\ listed' = clock + 1
            /\ admin.logged \subseteq expected'
  PROVE  SignersInv'
<1>1. SignersTypeOK'
  BY DEF SignersInv, SignersTypeOK
<1>2. Importing'
  <2>1. clock \in Nat /\ listed \in Nat /\ admin.seen \in Nat
    BY DEF SignersInv, SignersTypeOK, TypeOK
  <2>2. CASE UNCHANGED <<expected, listed>> /\ clock' \in {clock, clock + 1}
    BY <2>1, <2>2 DEF SignersInv, Importing
  <2>3. CASE clock' = clock + 1 /\ listed' = clock + 1
    BY <2>1, <2>3 DEF SignersInv, Importing
  <2>4. QED
    BY <2>2, <2>3
<1>3. Reminding'
  <2>1. clock \in Nat /\ admin.seen \in Nat /\ admin.seen <= clock /\ admin.seen <= clock'
    BY DEF SignersInv, SignersTypeOK, TypeOK, Reminding
  <2>2. ASSUME NEW e \in admin.todo \union admin.mailed, NEW s \in signed', EmailOf[s.by] = e
        PROVE  s.at > admin.seen
    <3>1. CASE s \in signed
      BY <2>2, <3>1 DEF SignersInv, Reminding
    <3>2. CASE s.at = clock + 1
      BY <2>1, <3>2
    <3>3. QED
      BY <3>1, <3>2
  <2>3. QED
    BY <2>1, <2>2 DEF SignersInv, Reminding
<1>4. QED
  BY <1>1, <1>2, <1>3 DEF SignersInv

(* What ends a request, or finds nothing to do. *)
LEMMA EndOfRequest ==
  ASSUME SignersInv, TypeOK', admin' = Quiet, UNCHANGED requests,
         mails' \in [Emails -> Nat], logs' \in [Emails -> Nat], listed' <= clock'
  PROVE  SignersInv'
<1>1. /\ AdminTypeOK' /\ admin'.pc = "idle"
      /\ admin'.logged = {} /\ admin'.mailed = {} /\ admin'.todo = {} /\ admin'.seen = 0
  BY QuietIsTyped
<1>2. SignersTypeOK'
  BY <1>1 DEF AdminTypeOK, SignersInv, SignersTypeOK
<1>3. QED
  BY <1>1, <1>2 DEF SignersInv, Importing, Reminding, TypeOK

LEMMA ImportInv ==
  ASSUME SignersInv, Import
  PROVE  SignersInv'
<1>1. PICK entries \in {Preview(file) : file \in Files} \union Bodies :
        /\ Len(entries) \in 1..MaxSigners
        /\ admin' = [Quiet EXCEPT !.pc = "insert", !.entries = entries, !.known = expected, !.seen = clock]
  BY DEF Import
<1>2. entries \in Seq(Entry)
  <2>1. CASE entries \in Bodies
    BY <2>1, SignersConstants
  <2>2. ASSUME NEW file \in Files, entries = Preview(file)
        PROVE  entries \in Seq(Entry)
    <3>1. PICK s \in Seq(Emails) : s = Parse(file)
      BY ParseIsEmails
    <3>2. entries = [i \in 1..Len(s) |-> [email |-> s[i], padded |-> FALSE]]
      BY <2>2, <3>1 DEF Preview
    <3>3. QED
      BY <3>2 DEF Entry
  <2>3. QED
    BY <1>1, <2>1, <2>2
<1>3. /\ admin'.pc = "insert" /\ admin'.entries = entries /\ admin'.known = expected
      /\ admin'.seen = clock /\ admin'.todo = {} /\ admin'.mailed = {} /\ admin'.logged = {}
      /\ admin'.doomed = FALSE
  BY <1>1 DEF Quiet
<1>4. UNCHANGED vars /\ UNCHANGED <<mails, logs>> /\ requests' \in 0..MaxRequests
  BY SignersConstants DEF Import, Ask, SignersInv, SignersTypeOK
<1>5. TypeOK' /\ Len(entries) <= MaxSigners
  BY <1>1, <1>2, <1>4, NextTypeOK DEF SignersInv, SignersTypeOK
<1>6. SignersTypeOK'
  <2>1. expected \subseteq Emails /\ clock \in Nat
    BY DEF SignersInv, SignersTypeOK, TypeOK
  <2>2. QED
    BY <1>2, <1>3, <1>4, <1>5, <2>1 DEF SignersInv, SignersTypeOK
<1>7. Importing'
  BY <1>1, <1>3, <1>4 DEF vars, SignersInv, SignersTypeOK, TypeOK, Importing
<1>8. Reminding'
  BY <1>3, <1>4 DEF vars, SignersInv, SignersTypeOK, TypeOK, Reminding
<1>9. QED
  BY <1>6, <1>7, <1>8 DEF SignersInv

LEMMA RemindInv ==
  ASSUME SignersInv, Remind
  PROVE  SignersInv'
<1>1. PICK chosen \in SUBSET Emails :
        admin' = [Quiet EXCEPT !.pc = "remind", !.todo = Pending(chosen), !.seen = clock]
  BY DEF Remind
<1>2. /\ admin'.pc = "remind" /\ admin'.known = {}
      /\ admin'.seen = clock /\ admin'.todo = Pending(chosen) /\ admin'.mailed = {} /\ admin'.logged = {}
      /\ admin'.doomed = FALSE
  BY <1>1 DEF Quiet
<1>3. UNCHANGED vars /\ UNCHANGED <<mails, logs>> /\ requests' \in 0..MaxRequests
  BY SignersConstants DEF Remind, Ask, SignersInv, SignersTypeOK
<1>4. TypeOK' /\ Pending(chosen) \subseteq Emails
  BY <1>3, NextTypeOK DEF SignersInv, SignersTypeOK, TypeOK, Pending, Unsigned
<1>5. AdminTypeOK'
  <2>1. admin'.entries \in Seq(Entry) /\ Len(admin'.entries) <= MaxSigners
    BY <1>1, NoEntries DEF Quiet
  <2>2. admin'.doomed \in BOOLEAN /\ admin'.seen \in Nat
    BY <1>2 DEF SignersInv, SignersTypeOK, TypeOK
  <2>3. admin'.logged \subseteq admin'.mailed
    BY <1>2
  <2>4. admin'.pc \in {"idle", "insert", "remind"}
    BY <1>2
  <2>5. admin'.known \subseteq Emails /\ admin'.todo \subseteq Emails /\ admin'.mailed \subseteq Emails
    BY <1>2, <1>4
  <2>6. QED
    BY <2>1, <2>2, <2>3, <2>4, <2>5 DEF AdminTypeOK
<1>6. SignersTypeOK'
  BY <1>3, <1>4, <1>5 DEF SignersInv, SignersTypeOK, AdminTypeOK
<1>7. ASSUME NEW e \in Pending(chosen), NEW s \in signed
      PROVE  EmailOf[s.by] # e
  BY DEF Pending, Unsigned, Signers
<1>8. Reminding'
  BY <1>2, <1>3, <1>7 DEF vars, SignersInv, SignersTypeOK, TypeOK, Reminding
<1>9. QED
  BY <1>2, <1>3, <1>6, <1>8 DEF vars, SignersInv, Importing

LEMMA QueueReminderInv ==
  ASSUME SignersInv, NEW e \in Emails, QueueReminder(e)
  PROVE  SignersInv'
<1> DEFINE queued == e \notin Malformed /\ ~admin.doomed
           mailed == IF queued THEN admin.mailed \union {e} ELSE admin.mailed
           logged == IF queued /\ Loggable(e) THEN admin.logged \union {e} ELSE admin.logged
           doomed == admin.doomed \/ (queued /\ ~Loggable(e))
<1>1. /\ admin' = [admin EXCEPT !.todo = @ \ {e}, !.mailed = mailed, !.logged = logged, !.doomed = doomed]
      /\ UNCHANGED vars /\ UNCHANGED <<mails, logs, requests>>
  BY DEF QueueReminder
<1>2. TypeOK'
  BY <1>1, NextTypeOK DEF SignersInv, SignersTypeOK
<1>3. /\ logged \subseteq mailed /\ mailed \subseteq Emails
      /\ (admin.todo \ {e}) \union mailed \subseteq admin.todo \union admin.mailed /\ doomed \in BOOLEAN
      /\ logged \subseteq expected /\ (~doomed => mailed \subseteq logged)
  BY DEF QueueReminder, SignersInv, SignersTypeOK, Reminding, Loggable
<1> HIDE DEF mailed, logged, doomed
<1>4. /\ admin'.pc = admin.pc /\ admin'.entries = admin.entries /\ admin'.known = admin.known
      /\ admin'.seen = admin.seen /\ admin'.todo = admin.todo \ {e}
      /\ admin'.mailed = mailed /\ admin'.logged = logged /\ admin'.doomed = doomed
  BY <1>1
<1>5. admin.pc = "remind"
  BY DEF QueueReminder
<1>6. SignersTypeOK'
  BY <1>1, <1>2, <1>3, <1>4, <1>5 DEF vars, SignersInv, SignersTypeOK
<1>7. Reminding'
  BY <1>1, <1>3, <1>4 DEF vars, SignersInv, Reminding
<1>8. QED
  BY <1>1, <1>4, <1>5, <1>6, <1>7 DEF vars, SignersInv, Importing

LEMMA SignersNextInv ==
  ASSUME SignersInv, [SignersNext]_signersVars
  PROVE  SignersInv'
<1>1. TypeOK'
  BY SignersStep, NextTypeOK DEF SignersInv, SignersTypeOK
<1>2. CASE AddSigners \/ RemoveSigner
  <2>1. /\ UNCHANGED <<admin, requests>>
        /\ mails' \in [Emails -> Nat] /\ logs' \in [Emails -> Nat]
        /\ clock' = clock + 1 /\ listed' = clock + 1
        /\ admin.logged \subseteq expected'
    BY <1>2 DEF AddSigners, AddExpected, RemoveSigner, RemoveExpected, adminVars,
                SignersInv, SignersTypeOK, Reminding
  <2>2. signed' = signed
    BY <1>2 DEF AddSigners, AddExpected, RemoveSigner, RemoveExpected
  <2>3. QED
    BY <1>1, <2>1, <2>2, AdminApart
<1>3. CASE Import \/ Remind
  BY <1>3, ImportInv, RemindInv
<1>4. CASE InsertSigners \/ CommitReminders \/ LoseRequest
  <2>1. mails' \in [Emails -> Nat] /\ logs' \in [Emails -> Nat]
    <3>1. mails \in [Emails -> Nat] /\ logs \in [Emails -> Nat]
      BY DEF SignersInv, SignersTypeOK
    <3>2. CASE CommitReminders
      BY <3>1, <3>2 DEF CommitReminders
    <3>3. CASE InsertSigners \/ LoseRequest
      BY <3>1, <3>3 DEF InsertSigners, LoseRequest
    <3>4. QED
      BY <1>4, <3>2, <3>3
  <2>2. listed' <= clock'
    BY <1>4 DEF InsertSigners, CommitReminders, LoseRequest, vars, SignersInv, SignersTypeOK,
                TypeOK, Importing
  <2>3. admin' = Quiet /\ UNCHANGED requests
    BY <1>4 DEF InsertSigners, CommitReminders, LoseRequest
  <2>4. QED
    BY <1>1, <2>1, <2>2, <2>3, EndOfRequest
<1>5. ASSUME NEW e \in Emails, QueueReminder(e)
      PROVE  SignersInv'
  BY <1>5, QueueReminderInv
<1>6. ASSUME NEW a \in Accounts, Sign(a) \/ Count(a) \/ Commit(a) \/ RollBack(a), UNCHANGED adminVars
      PROVE  SignersInv'
  <2>1. UNCHANGED <<expected, listed>> /\ clock' \in {clock, clock + 1}
    BY <1>6 DEF Sign, Count, Commit, RollBack
  <2>2. /\ UNCHANGED <<admin, requests>>
        /\ mails' \in [Emails -> Nat] /\ logs' \in [Emails -> Nat]
    BY <1>6 DEF adminVars, SignersInv, SignersTypeOK
  <2>3. \A s \in signed' : s \in signed \/ s.at = clock + 1
    BY <1>6 DEF Sign, Count, Commit, RollBack
  <2>4. QED
    BY <1>1, <2>1, <2>2, <2>3, AdminApart
<1>7. CASE UNCHANGED signersVars
  <2>1. /\ UNCHANGED <<expected, listed, admin, requests>> /\ clock' = clock /\ signed' = signed
        /\ mails' \in [Emails -> Nat] /\ logs' \in [Emails -> Nat]
    BY <1>7 DEF signersVars, vars, adminVars, SignersInv, SignersTypeOK
  <2>2. QED
    BY <1>1, <2>1, AdminApart
<1>8. QED
  BY <1>2, <1>3, <1>4, <1>5, <1>6, <1>7 DEF SignersNext

(* The inductive invariant of imports and reminders, whoever shares an     *)
(* email.                                                                  *)
THEOREM SignersInvariance == SignersSpec => []SignersInv
<1>1. SignersInit => SignersInv
  BY SignersInitInv
<1>2. SignersInv /\ [SignersNext]_signersVars => SignersInv'
  BY SignersNextInv
<1>3. QED
  BY <1>1, <1>2, PTL DEF SignersSpec

(* The types of the list, of its signers and of the administrator's        *)
(* requests.                                                               *)
THEOREM TypeCorrect == SignersSpec => []SignersTypeOK
<1>1. SignersInv => SignersTypeOK
  BY DEF SignersInv
<1>2. QED
  BY <1>1, SignersInvariance, PTL

(* Imports and reminders change nothing that signing does not expect: what *)
(* administrators and signers do together is a behaviour of Completion.    *)
THEOREM SignersAreCompletion == SignersSpec => Spec
<1>1. SignersInit => Init
  BY DEF SignersInit
<1>2. SignersInv /\ [SignersNext]_signersVars => [Next]_vars
  BY SignersStep
<1>3. QED
  BY <1>1, <1>2, SignersInvariance, PTL DEF SignersSpec, Spec

(* document.completed is published before all who were expected have       *)
(* signed only if two accounts of one of them have.                        *)
THEOREM EventsAreEarlyByTwins == SignersSpec => []EarlyOnlyByTwins
<1>1. IInv => EarlyOnlyByTwins
  BY DEF IInv
<1>2. QED
  BY <1>1, Invariance, SignersAreCompletion, PTL

(* It is missed only when two requests overlapped, or two accounts of one  *)
(* expected signer have signed.                                            *)
THEOREM EventsAreMissedByOverlap == SignersSpec => []MissedOnlyByOverlap
<1>1. IInv => MissedOnlyByOverlap
  BY LastSawAll DEF MissedOnlyByOverlap
<1>2. QED
  BY <1>1, Invariance, SignersAreCompletion, PTL

-----------------------------------------------------------------------------
LEMMA CommitMatchesLogs ==
  ASSUME SignersInv, [SignersNext]_signersVars, NEW e \in Emails, mails'[e] # mails[e]
  PROVE  e \in expected' /\ mails'[e] - mails[e] = logs'[e] - logs[e]
<1>1. CommitReminders
  BY DEF SignersNext, AddSigners, RemoveSigner, Import, InsertSigners, Remind, QueueReminder,
         LoseRequest, adminVars, signersVars
<1>2. /\ mails'[e] = mails[e] + (IF e \in admin.mailed THEN 1 ELSE 0)
      /\ logs'[e] = logs[e] + (IF e \in admin.logged THEN 1 ELSE 0)
  BY <1>1 DEF CommitReminders
<1>3. admin.mailed = admin.logged /\ admin.logged \subseteq expected' /\ mails[e] \in Nat /\ logs[e] \in Nat
  BY <1>1 DEF CommitReminders, vars, SignersInv, SignersTypeOK, Reminding
<1>4. QED
  BY <1>2, <1>3

(* A reminder's mail is queued only together with its log, and to somebody *)
(* who is on the list.                                                     *)
THEOREM MailsHaveLogs == SignersSpec => RemindersMatchLogs
<1> DEFINE Matching == \A e \in Emails : mails'[e] # mails[e] =>
                         e \in expected' /\ mails'[e] - mails[e] = logs'[e] - logs[e]
<1>1. SignersInv /\ [SignersNext]_signersVars => Matching
  BY CommitMatchesLogs
<1>2. QED
  BY <1>1, SignersInvariance, PTL DEF SignersSpec, RemindersMatchLogs

(* Nobody is reminded who had signed when the list was read.               *)
THEOREM RemindersGoToPending == SignersSpec => RemindersOnlyToPending
<1> DEFINE Due == \A e \in Emails : mails'[e] # mails[e] =>
                    \A s \in signed : EmailOf[s.by] = e => s.at > admin.seen
<1>1. SignersInv /\ [SignersNext]_signersVars => Due
  <2> SUFFICES ASSUME SignersInv, [SignersNext]_signersVars, NEW e \in Emails, mails'[e] # mails[e],
                      NEW s \in signed, EmailOf[s.by] = e
               PROVE  s.at > admin.seen
    OBVIOUS
  <2>1. CommitReminders
    BY DEF SignersNext, AddSigners, RemoveSigner, Import, InsertSigners, Remind, QueueReminder,
           LoseRequest, adminVars, signersVars
  <2>2. mails'[e] = mails[e] + (IF e \in admin.mailed THEN 1 ELSE 0) /\ mails[e] \in Nat
    BY <2>1 DEF CommitReminders, SignersInv, SignersTypeOK
  <2>3. e \in admin.mailed
    BY <2>2
  <2>4. QED
    BY <2>3 DEF SignersInv, Reminding
<1>2. QED
  BY <1>1, SignersInvariance, PTL DEF SignersSpec, RemindersOnlyToPending

-----------------------------------------------------------------------------
(* The emails of a request to import: each named once, and none known that *)
(* has spaces around it.                                                   *)
Plain(entries, known) ==
  /\ \A i, j \in DOMAIN entries : entries[i].email = entries[j].email => i = j
  /\ \A r \in ToSet(entries) : r.padded => r.email \notin known

(* The entries that were not known are as many as the emails inserted.     *)
LEMMA InsertCounts ==
  ASSUME SignersInv, InsertSigners, Plain(admin.entries, admin.known), listed <= admin.seen
  PROVE  Imported(admin) = Cardinality(expected' \ expected)
<1> DEFINE D == 1..Len(admin.entries)
           K == {i \in D : admin.entries[i].email \in admin.known}
           added == expected' \ expected
           f == [i \in D \ K |-> admin.entries[i].email]
<1>1. /\ admin.entries \in Seq(Entry) /\ admin.known = expected
      /\ expected' = expected \union EmailsOf(admin.entries)
  BY DEF SignersInv, SignersTypeOK, Importing, InsertSigners
<1>2. DOMAIN admin.entries = D /\ Len(admin.entries) \in Nat
  BY <1>1
<1>3. IsFiniteSet(D) /\ Cardinality(D) = Len(admin.entries)
  BY <1>2, FS_Interval
<1>4. D \cap K = K
  OBVIOUS
<1>5. /\ IsFiniteSet(D \ K)
      /\ Cardinality(D \ K) = Len(admin.entries) - Cardinality(K)
  <2>1. /\ IsFiniteSet(D \ K)
        /\ Cardinality(D \ K) = Cardinality(D) - Cardinality(D \cap K)
    BY <1>3, FS_Difference
  <2>2. QED
    BY <1>3, <1>4, <2>1
<1>6. Imported(admin) = Cardinality(D \ K)
  <2>1. ASSUME NEW i \in D
        PROVE  i \in K <=> ~admin.entries[i].padded /\ admin.entries[i].email \in admin.known
    BY <1>2 DEF Plain, ToSet
  <2>2. K = {i \in DOMAIN admin.entries : ~admin.entries[i].padded /\ admin.entries[i].email \in admin.known}
    BY <1>2, <2>1
  <2>3. QED
    BY <1>2, <1>5, <2>2 DEF Imported, Skipped
<1>7. \A i \in D \ K : admin.entries[i].email \in added
  BY <1>1, <1>2 DEF ToSet, EmailsOf
<1>8. \A e \in added : \E i \in D \ K : admin.entries[i].email = e
  BY <1>1, <1>2 DEF ToSet, EmailsOf
<1>9. \A i, j \in D : admin.entries[i].email = admin.entries[j].email => i = j
  BY <1>2 DEF Plain
<1> HIDE DEF D, K, added
<1>10. f \in Bijection(D \ K, added)
  BY <1>7, <1>8, <1>9 DEF Bijection, Injection, Surjection, IsInjective
<1>11. Cardinality(added) = Cardinality(D \ K)
  BY <1>5, <1>10, FS_Bijection DEF ExistsBijection
<1>12. QED
  BY <1>6, <1>11 DEF added

(* The answer of an import says how many signers it added, unless an email *)
(* was named twice, a known one had spaces around it, or the list changed  *)
(* in between.                                                             *)
THEOREM ImportsCount == SignersSpec => ImportCountsTrue
<1> DEFINE Twice == \E i, j \in DOMAIN admin.entries : i # j /\ admin.entries[i].email = admin.entries[j].email
           Padded == \E r \in ToSet(admin.entries) : r.padded /\ r.email \in admin.known
           Counted == admin.pc = "insert" /\ changes' # changes /\ admin' = Quiet =>
                        \/ Imported(admin) = Cardinality(expected' \ expected)
                        \/ Twice \/ Padded
                        \/ listed > admin.seen
<1>1. SignersInv /\ [SignersNext]_signersVars => Counted
  <2> SUFFICES ASSUME SignersInv, [SignersNext]_signersVars, admin.pc = "insert", changes' # changes,
                      admin' = Quiet, ~Twice, ~Padded, ~(listed > admin.seen)
               PROVE  Imported(admin) = Cardinality(expected' \ expected)
    OBVIOUS
  <2>1. admin' # admin
    BY DEF Quiet
  <2>2. InsertSigners
    BY <2>1 DEF SignersNext, AddSigners, RemoveSigner, Import, Remind, QueueReminder, CommitReminders,
         LoseRequest, vars, adminVars, signersVars
  <2>3. listed <= admin.seen
    BY DEF SignersInv, SignersTypeOK, TypeOK
  <2>4. Plain(admin.entries, admin.known)
    BY DEF Plain
  <2>5. QED
    BY <2>2, <2>3, <2>4, InsertCounts
<1>2. QED
  BY <1>1, SignersInvariance, PTL DEF SignersSpec, ImportCountsTrue
=============================================================================
