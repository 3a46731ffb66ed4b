--------------------------- MODULE MagicLinkProofs ---------------------------
(***************************************************************************)
(* Proofs about MagicLink, for any requests, visits, emails, addresses and *)
(* limits.  The properties follow from one inductive invariant, IInv.      *)
(*   Requesting: a request that was mailed is counted or was lost, and a   *)
(*     token is there only after its request; finitely many have begun.    *)
(*   Visiting: one visit at most holds a token, which stays fresh till the *)
(*     visit ends.                                                         *)
(*   Opening: how many sessions a token has opened.                        *)
(*   Mailing: MailsAreLimited, with the requests that may still be mailed. *)
(***************************************************************************)
EXTENDS MagicLink, FiniteSetTheorems, TLAPS

Begun == {q \in Asks : ask[q].at # "idle"}

Requesting ==
  /\ IsFiniteSet(Begun)
  /\ \A q \in Asks :
       /\ ask[q].at # "done" => q \notin attempts /\ token[q] = "none" /\ log.lost[q] = 0
       /\ ask[q].at \notin {"commit", "done"} => ~ask[q].sent
       /\ ask[q].at = "done" /\ ask[q].sent => q \in attempts \/ log.lost[q] > 0

Holds(v, t) == visit[v].at \in {"session", "commit"} /\ visit[v].token = t

(* What a visit (x) says of the token it presents. *)
Presenting(x) ==
  /\ x.at \in {"mark", "session", "commit"} =>
       /\ x.token \in Tokens /\ token[x.token] # "none"
       /\ x.endpoint = "reminder" => x.token \in Reminders
  /\ x.at \in {"session", "commit"} => token[x.token] = "fresh"
  /\ x.session => x.at = "commit" /\ log.sessions[x.token] > 0
  /\ x.at = "commit" /\ x.endpoint = "reminder" => x.session

Visiting ==
  /\ \A v \in Visits : Presenting(visit[v])
  /\ \A v, w \in Visits, t \in Tokens : Holds(v, t) /\ Holds(w, t) => v = w

(* Visits whose session is open and whose mark has not been committed. *)
Opened(t) == {v \in Visits : visit[v].at = "commit" /\ visit[v].token = t /\ visit[v].session}

(* A token (k) has opened at most one session more than were lost (n, l),  *)
(* and that one only if it is used or about to be.                         *)
Balanced(k, n, l, opened) ==
  /\ n <= 1 + l
  /\ k \in {"none", "fresh"} /\ opened = {} => n <= l

Opening ==
  \A t \in Tokens :
    /\ Balanced(token[t], log.sessions[t], log.lost[t], Opened(t))
    /\ token[t] = "used by reminder" => t \in Reminders /\ log.sessions[t] > 0

(* Requests for the email of q that were mailed, or may still be. *)
Mailable(q) == {p \in SameEmail(q) : ask[p].sent \/ ask[p].at \in {"ip", "send", "commit"}}

Mailing ==
  \A q \in Asks : Mailable(q) # {} =>
    Cardinality(Mailable(q)) <= LimitEmail + log.peak[q] - 1 + Cardinality(LostAsks(q))

IInv == TypeOK /\ Requesting /\ Visiting /\ Opening /\ Mailing

-----------------------------------------------------------------------------
(* Steps on a component of the log. *)
LEMMA LoseOne ==
  ASSUME log \in Log, NEW t \in Tokens, log' = [log EXCEPT !.lost[t] = @ + 1]
  PROVE  /\ log' \in Log /\ log'.peak = log.peak /\ log'.sessions = log.sessions
         /\ \A s \in Tokens : log'.lost[s] = IF s = t THEN log.lost[s] + 1 ELSE log.lost[s]
<1> DEFINE lost == [log.lost EXCEPT ![t] = log.lost[t] + 1]
<1>1. /\ lost \in [Tokens -> Nat]
      /\ \A s \in Tokens : lost[s] = IF s = t THEN log.lost[s] + 1 ELSE log.lost[s]
  BY DEF Log
<1>2. log' = [log EXCEPT !.lost = lost]
  BY DEF Log
<1> HIDE DEF lost
<1>3. QED
  BY <1>1, <1>2 DEF Log

LEMMA OpenOne ==
  ASSUME log \in Log, NEW t \in Tokens, log' = [log EXCEPT !.sessions[t] = @ + 1]
  PROVE  /\ log' \in Log /\ log'.peak = log.peak /\ log'.lost = log.lost
         /\ \A s \in Tokens : log'.sessions[s] = IF s = t THEN log.sessions[s] + 1 ELSE log.sessions[s]
<1> DEFINE sessions == [log.sessions EXCEPT ![t] = log.sessions[t] + 1]
<1>1. /\ sessions \in [Tokens -> Nat]
      /\ \A s \in Tokens : sessions[s] = IF s = t THEN log.sessions[s] + 1 ELSE log.sessions[s]
  BY DEF Log
<1>2. log' = [log EXCEPT !.sessions = sessions]
  BY DEF Log
<1> HIDE DEF sessions
<1>3. QED
  BY <1>1, <1>2 DEF Log

(* The start: nothing has been asked, made or presented. *)
LEMMA InitIInv == Init => IInv
<1> SUFFICES ASSUME Init PROVE IInv
  OBVIOUS
<1>1. TypeOK
  BY DEF Init, TypeOK, Ask, Visit, Log, NoVisit
<1>2. Requesting
  <2>1. Begun = {}
    BY DEF Init, Begun
  <2>2. \A q \in Asks : q \in Tokens
    BY DEF Tokens
  <2>3. QED
    BY <2>1, <2>2, FS_EmptySet DEF Init, Requesting
<1>3. Visiting
  BY DEF Init, Visiting, Presenting, Holds, NoVisit
<1>4. Opening
  BY DEF Init, Opening, Balanced
<1>5. Mailing
  BY DEF Init, Mailing, Mailable, SameEmail
<1>6. QED
  BY <1>1, <1>2, <1>3, <1>4, <1>5 DEF IInv

-----------------------------------------------------------------------------
(* What a step beside the visits leaves true of them: a token may appear,  *)
(* and what was lost may grow.                                             *)
LEMMA VisitsApart ==
  ASSUME IInv, TypeOK', UNCHANGED visit, log'.sessions = log.sessions,
         \A t \in Tokens : /\ log.lost[t] <= log'.lost[t]
                           /\ token'[t] = token[t] \/ (token[t] = "none" /\ token'[t] = "fresh")
  PROVE  Visiting' /\ Opening'
<1>1. Visiting'
  <2>1. ASSUME NEW v \in Visits PROVE Presenting(visit[v])'
    <3>1. Presenting(visit[v])
      BY DEF IInv, Visiting
    <3>2. QED
      BY <3>1 DEF Presenting
  <2>2. QED
    BY <2>1 DEF IInv, Visiting, Holds
<1>2. Opening'
  <2> SUFFICES ASSUME NEW t \in Tokens
               PROVE  /\ Balanced(token'[t], log'.sessions[t], log'.lost[t], Opened(t)')
                      /\ token'[t] = "used by reminder" => t \in Reminders /\ log'.sessions[t] > 0
    BY DEF Opening
  <2>1. Opened(t)' = Opened(t)
    BY DEF Opened
  <2>2. log.sessions[t] \in Nat /\ log.lost[t] \in Nat /\ log'.lost[t] \in Nat
    BY DEF IInv, TypeOK, Log
  <2>3. /\ Balanced(token[t], log.sessions[t], log.lost[t], Opened(t))
        /\ token[t] = "used by reminder" => t \in Reminders /\ log.sessions[t] > 0
    BY DEF IInv, Opening
  <2>4. ASSUME NEW n \in Nat, NEW l \in Nat, NEW m \in Nat, l <= m, NEW k, NEW j, NEW o,
               Balanced(k, n, l, o), j = k \/ (k = "none" /\ j = "fresh")
        PROVE  Balanced(j, n, m, o)
    BY <2>4 DEF Balanced
  <2>5. /\ log.lost[t] <= log'.lost[t] /\ log'.sessions[t] = log.sessions[t]
        /\ token'[t] = token[t] \/ (token[t] = "none" /\ token'[t] = "fresh")
    OBVIOUS
  <2>6. Balanced(token'[t], log.sessions[t], log'.lost[t], Opened(t))
    <3>1. Balanced(token[t], log.sessions[t], log.lost[t], Opened(t))
      BY <2>3
    <3> DEFINE n == log.sessions[t]
               l == log.lost[t]
               m == log'.lost[t]
               k == token[t]
               j == token'[t]
    <3>2. n \in Nat /\ l \in Nat /\ m \in Nat /\ l <= m /\ Balanced(k, n, l, Opened(t)) /\ (j = k \/ (k = "none" /\ j = "fresh"))
      BY <2>2, <3>1, <2>5
    <3> HIDE DEF n, l, m, k, j
    <3>3. Balanced(j, n, m, Opened(t))
      BY <2>4, <3>2
    <3>4. QED
      BY <3>3 DEF n, m, j
  <2>7. Balanced(token'[t], log'.sessions[t], log'.lost[t], Opened(t)')
    BY <2>1, <2>5, <2>6, Zenon
  <2>8. QED
    BY <2>3, <2>5, <2>7
<1>3. QED
  BY <1>1, <1>2

(* Fewer requests may be mailed, or more are known to overlap or be lost. *)
LEMMA MailingShrinks ==
  ASSUME IInv, TypeOK', Requesting', NEW q \in Asks,
         Mailable(q)' \subseteq Mailable(q), log.peak[q] <= log'.peak[q],
         \A p \in Asks : log.lost[p] > 0 => log'.lost[p] > 0, Mailable(q)' # {}
  PROVE  Cardinality(Mailable(q)') <= LimitEmail + log'.peak[q] - 1 + Cardinality(LostAsks(q)')
<1>1. \A p \in Asks : log.lost[p] \in Nat /\ log'.lost[p] \in Nat
  BY DEF IInv, TypeOK, Log, Tokens
<1>2. LostAsks(q) \subseteq LostAsks(q)' /\ LostAsks(q)' \subseteq Begun'
  BY <1>1 DEF Requesting, LostAsks, SameEmail, Begun
<1>3. Mailable(q) \subseteq Begun
  BY DEF Mailable, Begun, IInv, Requesting, SameEmail
<1>4. /\ IsFiniteSet(LostAsks(q)') /\ IsFiniteSet(LostAsks(q)) /\ IsFiniteSet(Mailable(q))
      /\ IsFiniteSet(Mailable(q)')
      /\ Cardinality(LostAsks(q)) <= Cardinality(LostAsks(q)')
      /\ Cardinality(Mailable(q)') <= Cardinality(Mailable(q))
  BY <1>2, <1>3, FS_Subset DEF IInv, Requesting
<1>5. /\ Cardinality(LostAsks(q)') \in Nat /\ Cardinality(LostAsks(q)) \in Nat
      /\ Cardinality(Mailable(q)) \in Nat /\ Cardinality(Mailable(q)') \in Nat
      /\ log.peak[q] \in Nat /\ log'.peak[q] \in Nat
  BY <1>4, FS_CardinalityType DEF IInv, TypeOK, Log
<1>6. Cardinality(Mailable(q)) <= LimitEmail + log.peak[q] - 1 + Cardinality(LostAsks(q))
  BY DEF IInv, Mailing
<1> DEFINE m == Cardinality(Mailable(q))
           n == Cardinality(Mailable(q)')
           k == log.peak[q]
           l == log'.peak[q]
           i == Cardinality(LostAsks(q))
           j == Cardinality(LostAsks(q)')
<1>7. /\ m \in Nat /\ n \in Nat /\ k \in Nat /\ l \in Nat /\ i \in Nat /\ j \in Nat
      /\ n <= m /\ k <= l /\ i <= j /\ m <= LimitEmail + k - 1 + i
  BY <1>4, <1>5, <1>6
<1> HIDE DEF m, n, k, l, i, j
<1>8. n <= LimitEmail + l - 1 + j
  BY <1>7, MagicLinkConstants
<1>9. QED
  BY <1>8 DEF n, l, j

(* What a step beside the requests leaves true of them: it makes no token  *)
(* of a request, and what was lost may grow.                               *)
LEMMA RequestsApart ==
  ASSUME IInv, TypeOK', UNCHANGED <<ask, attempts>>, log'.peak = log.peak,
         \A q \in Asks : /\ log.lost[q] <= log'.lost[q]
                         /\ token[q] = "none" => token'[q] = "none" /\ log'.lost[q] = log.lost[q]
  PROVE  Requesting' /\ Mailing'
<1>1. \A q \in Asks : log.lost[q] \in Nat /\ log'.lost[q] \in Nat
  BY DEF IInv, TypeOK, Log, Tokens
<1>2. Requesting'
  <2>1. Begun' = Begun
    BY DEF Begun
  <2>2. QED
    BY <1>1, <2>1 DEF IInv, Requesting
<1>3. Mailing'
  <2> SUFFICES ASSUME NEW q \in Asks, Mailable(q)' # {}
               PROVE  Cardinality(Mailable(q)') <= LimitEmail + log'.peak[q] - 1 + Cardinality(LostAsks(q)')
    BY DEF Mailing
  <2>1. Mailable(q)' = Mailable(q)
    BY DEF Mailable
  <2>2. log.peak[q] <= log'.peak[q] /\ \A p \in Asks : log.lost[p] > 0 => log'.lost[p] > 0
    <3>1. log.peak[q] \in Nat /\ log'.peak[q] = log.peak[q]
      BY DEF IInv, TypeOK, Log
    <3>2. \A p \in Asks : log.lost[p] <= log'.lost[p]
      OBVIOUS
    <3>3. ASSUME NEW m \in Nat, NEW n \in Nat, m <= n, m > 0 PROVE n > 0
      BY <3>3
    <3>4. \A p \in Asks : log.lost[p] > 0 => log'.lost[p] > 0
      BY <1>1, <3>2, <3>3
    <3>5. QED
      BY <3>1, <3>4
  <2>3. QED
    BY <1>2, <2>1, <2>2, MailingShrinks
<1>4. QED
  BY <1>2, <1>3

-----------------------------------------------------------------------------
(* A request moves on: no other does, and no more than one begins.         *)
LEMMA OneAsk ==
  ASSUME IInv, NEW q \in Asks, NEW r \in Ask, ask' = [ask EXCEPT ![q] = r]
  PROVE  /\ ask' \in [Asks -> Ask] /\ ask'[q] = r /\ \A p \in Asks \ {q} : ask'[p] = ask[p]
         /\ IsFiniteSet(Begun')
<1>1. ask' \in [Asks -> Ask] /\ ask'[q] = r /\ \A p \in Asks \ {q} : ask'[p] = ask[p]
  BY DEF IInv, TypeOK
<1>2. IsFiniteSet(Begun \union {q}) /\ Begun' \subseteq Begun \union {q}
  BY <1>1, FS_AddElement DEF IInv, Requesting, Begun
<1>3. QED
  BY <1>1, <1>2, FS_Subset

LEMMA AskTold ==
  ASSUME IInv, NEW q \in Asks, NEW l \in {"ip", "send", "refuse", "commit", "done"}, AskTo(q, l)
  PROVE  \E r \in Ask : r.at = l /\ r.sent = ask[q].sent /\ ask' = [ask EXCEPT ![q] = r]
<1> DEFINE new(r) == [r EXCEPT !.at = l]
<1>1. \A r \in Ask : new(r) \in Ask /\ new(r).at = l /\ new(r).sent = r.sent
  BY DEF Ask
<1>2. ask[q] \in Ask /\ ask' = [ask EXCEPT ![q] = new(ask[q])]
  BY DEF IInv, TypeOK, AskTo
<1> HIDE DEF new
<1>3. QED
  BY <1>1, <1>2, Zenon

(* A step of a request that has been counted, was refused or failed: it    *)
(* takes the request nearer to its end, and no request is mailed that was  *)
(* not to be.                                                              *)
LEMMA AskIInv ==
  ASSUME IInv, NEW q \in Asks, NEW r \in Ask, ask' = [ask EXCEPT ![q] = r],
         TypeOK', UNCHANGED visit, log'.sessions = log.sessions,
         \A p \in Asks : log.peak[p] <= log'.peak[p],
         \A t \in Tokens : log.lost[t] <= log'.lost[t] /\ (t # q => log'.lost[t] = log.lost[t]),
         \A t \in Tokens : token'[t] = token[t] \/ (t = q /\ token[t] = "none" /\ token'[t] = "fresh"),
         attempts \subseteq attempts', attempts' \subseteq attempts \union {q},
         ask[q].at # "done" /\ r.at # "idle",
         r.at # "done" => attempts' = attempts /\ token'[q] = token[q] /\ log'.lost[q] = log.lost[q],
         r.at \notin {"commit", "done"} => ~r.sent,
         r.at = "done" /\ r.sent => q \in attempts' \/ log'.lost[q] > 0,
         r.sent \/ r.at \in {"ip", "send", "commit"} => ask[q].sent \/ ask[q].at \in {"ip", "send", "commit"}
  PROVE  IInv'
<1>1. /\ ask'[q] = r /\ \A p \in Asks \ {q} : ask'[p] = ask[p]
      /\ IsFiniteSet(Begun')
  BY OneAsk
<1>2. \A p \in Asks : p \in Tokens /\ log.lost[p] \in Nat /\ log'.lost[p] \in Nat
  BY DEF IInv, TypeOK, Log, Tokens
<1>3. Requesting'
  BY <1>1, <1>2 DEF IInv, Requesting
<1>4. Visiting' /\ Opening'
  BY VisitsApart
<1>5. Mailing'
  <2> SUFFICES ASSUME NEW p \in Asks, Mailable(p)' # {}
               PROVE  Cardinality(Mailable(p)') <= LimitEmail + log'.peak[p] - 1 + Cardinality(LostAsks(p)')
    BY DEF Mailing
  <2>1. Mailable(p)' \subseteq Mailable(p)
    BY <1>1 DEF Mailable, SameEmail
  <2>2. \A s \in Asks : log.lost[s] > 0 => log'.lost[s] > 0
    BY <1>2
  <2>3. QED
    BY <1>3, <2>1, <2>2, MailingShrinks
<1>6. QED
  BY <1>3, <1>4, <1>5 DEF IInv

LEMMA LogNumbers ==
  ASSUME TypeOK
  PROVE  /\ log \in Log
         /\ \A t \in Tokens : /\ log.lost[t] \in Nat /\ log.lost[t] <= log.lost[t]
                              /\ log.sessions[t] \in Nat /\ log.sessions[t] <= log.sessions[t]
         /\ \A q \in Asks : log.peak[q] \in Nat /\ log.peak[q] <= log.peak[q]
<1>1. log \in Log
  BY DEF TypeOK
<1>2. ASSUME NEW n \in Nat PROVE n <= n
  OBVIOUS
<1>3. \A t \in Tokens : log.lost[t] \in Nat /\ log.sessions[t] \in Nat
  BY <1>1 DEF Log
<1>4. \A q \in Asks : log.peak[q] \in Nat
  BY <1>1 DEF Log
<1>5. QED
  BY <1>1, <1>2, <1>3, <1>4, Zenon

LEMMA CheckIpIInv ==
  ASSUME IInv, NEW q \in Asks, CheckIp(q) \/ AskFails(q)
  PROVE  IInv'
<1>1. UNCHANGED <<attempts, token, expired, visit, log>> /\ ask[q].at \in {"ip", "send"}
  BY DEF CheckIp, AskFails
<1> PICK r \in Ask : /\ r.at \in {"refuse", "send", "done"} /\ r.sent = ask[q].sent
                     /\ ask' = [ask EXCEPT ![q] = r]
  BY AskTold DEF CheckIp, AskFails
<1>2. TypeOK'
  BY <1>1, OneAsk DEF IInv, TypeOK
<1>3. ~ask[q].sent
  BY <1>1 DEF IInv, Requesting
<1>4. TypeOK
  BY DEF IInv
<1>5. QED
  BY <1>1, <1>2, <1>3, <1>4, LogNumbers, AskIInv

LEMMA SendLinkIInv ==
  ASSUME IInv, NEW q \in Asks, SendLink(q)
  PROVE  IInv'
<1>1. UNCHANGED <<attempts, token, expired, visit, log>> /\ ask[q].at = "send"
  BY DEF SendLink
<1> PICK r \in Ask : r.at = "commit" /\ ask' = [ask EXCEPT ![q] = r]
  BY DEF SendLink, Ask
<1>2. TypeOK'
  BY <1>1, OneAsk DEF IInv, TypeOK
<1>3. TypeOK
  BY DEF IInv
<1>4. QED
  BY <1>1, <1>2, <1>3, LogNumbers, AskIInv

LEMMA CommitAskIInv ==
  ASSUME IInv, NEW q \in Asks, CommitAsk(q)
  PROVE  IInv'
<1>1. UNCHANGED <<expired, visit>> /\ ask[q].at \in {"refuse", "commit"} /\ q \in Tokens /\ TypeOK
  BY DEF CommitAsk, Tokens, IInv
<1> PICK r \in Ask : r.at = "done" /\ r.sent = ask[q].sent /\ ask' = [ask EXCEPT ![q] = r]
  BY AskTold DEF CommitAsk
<1>2. token[q] = "none" /\ (ask[q].sent => ask[q].at = "commit")
  BY <1>1 DEF IInv, Requesting
<1>3. CASE /\ attempts' = attempts \union {q} /\ UNCHANGED log
           /\ token' = IF ask[q].at = "commit" THEN [token EXCEPT ![q] = "fresh"] ELSE token
  <2>1. /\ \A t \in Tokens : token'[t] = token[t] \/ (t = q /\ token'[t] = "fresh")
        /\ token' \in [Tokens -> {"none", "fresh", "used by login", "used by reminder", "deleted"}]
    BY <1>1, <1>3 DEF TypeOK
  <2>2. TypeOK'
    BY <1>1, <1>3, <2>1, OneAsk DEF TypeOK
  <2>3. QED
    BY <1>1, <1>2, <1>3, <2>1, <2>2, LogNumbers, AskIInv
<1>4. CASE log' = [log EXCEPT !.lost[q] = @ + 1] /\ UNCHANGED <<attempts, token>>
  <2>1. /\ log' \in Log /\ log'.peak = log.peak /\ log'.sessions = log.sessions
        /\ \A t \in Tokens : log'.lost[t] = IF t = q THEN log.lost[t] + 1 ELSE log.lost[t]
    BY <1>1, <1>4, LoseOne DEF TypeOK
  <2>2. TypeOK'
    BY <1>1, <1>4, <2>1, OneAsk DEF TypeOK
  <2>3. ASSUME NEW n \in Nat PROVE n <= n + 1 /\ n + 1 > 0
    OBVIOUS
  <2>4. /\ \A t \in Tokens : log.lost[t] <= log'.lost[t] /\ (t # q => log'.lost[t] = log.lost[t])
        /\ log'.lost[q] > 0
    BY <1>1, <2>1, <2>3, LogNumbers
  <2>5. QED
    BY <1>1, <1>2, <1>4, <2>1, <2>2, <2>4, LogNumbers, AskIInv
<1>5. QED
  BY <1>3, <1>4 DEF CommitAsk

(* The log after the check: the requests of the email know of the overlap. *)
LEMMA CheckEmailLog ==
  ASSUME IInv, NEW q \in Asks, CheckEmail(q)
  PROVE  /\ log' \in Log /\ log'.lost = log.lost /\ log'.sessions = log.sessions
         /\ \A p \in Asks : log.peak[p] <= log'.peak[p]
         /\ \A p \in SameEmail(q) : Cardinality(InFlight(q)) + 1 <= log'.peak[p]
<1> DEFINE n == Cardinality(InFlight(q)) + 1
           peak == [p \in Asks |-> IF p \in SameEmail(q) /\ n > log.peak[p] THEN n ELSE log.peak[p]]
<1>1. log \in Log /\ log.peak \in [Asks -> Nat]
  BY DEF IInv, TypeOK, Log
<1>2. IsFiniteSet(InFlight(q))
  <2>1. InFlight(q) \subseteq Begun
    BY DEF InFlight, Begun, SameEmail
  <2>2. QED
    BY <2>1, FS_Subset DEF IInv, Requesting
<1>3. n \in Nat
  BY <1>2, FS_CardinalityType
<1>4. log' = [log EXCEPT !.peak = peak]
  BY DEF CheckEmail
<1> HIDE DEF n
<1>5. /\ peak \in [Asks -> Nat]
      /\ \A p \in Asks : log.peak[p] <= peak[p] /\ (p \in SameEmail(q) => n <= peak[p])
  BY <1>1, <1>3
<1> HIDE DEF peak
<1>6. log' \in Log /\ log'.lost = log.lost /\ log'.sessions = log.sessions /\ log'.peak = peak
  BY <1>1, <1>4, <1>5 DEF Log
<1>7. \A p \in SameEmail(q) : n <= peak[p]
  BY <1>5 DEF SameEmail
<1>8. QED
  BY <1>5, <1>6, <1>7 DEF n

(* A request that passes the first check joins those that may be mailed:   *)
(* of them, fewer than LimitEmail are counted, and the rest are in flight  *)
(* or were lost.                                                           *)
LEMMA MailableBound ==
  ASSUME IInv, NEW q \in Asks, ~OverEmailLimit(q)
  PROVE  Cardinality(Mailable(q) \union {q}) <= LimitEmail + Cardinality(InFlight(q)) + Cardinality(LostAsks(q))
<1> DEFINE counted == attempts \intersect SameEmail(q)
           i == Cardinality(counted)
           j == Cardinality(InFlight(q))
           k == Cardinality(LostAsks(q))
<1>1. Mailable(q) \subseteq (counted \union InFlight(q)) \union LostAsks(q)
  BY DEF IInv, Requesting, TypeOK, Mailable, InFlight, LostAsks, SameEmail, Ask
<1>2. counted \subseteq Begun /\ InFlight(q) \subseteq Begun /\ LostAsks(q) \subseteq Begun
  BY LogNumbers DEF IInv, Requesting, SameEmail, InFlight, LostAsks, Begun
<1>3. IsFiniteSet(counted) /\ IsFiniteSet(InFlight(q)) /\ IsFiniteSet(LostAsks(q)) /\ IsFiniteSet(Mailable(q))
  <2>1. Mailable(q) \subseteq Begun
    BY <1>1, <1>2
  <2>2. QED
    BY <1>2, <2>1, FS_Subset DEF IInv, Requesting
<1>4. i \in Nat /\ j \in Nat /\ k \in Nat /\ i < LimitEmail
  BY <1>3, FS_CardinalityType, MagicLinkConstants DEF OverEmailLimit
<1> HIDE DEF counted, i
<1>5. /\ IsFiniteSet(counted \union InFlight(q))
      /\ Cardinality(counted \union InFlight(q)) \in Nat
      /\ Cardinality(counted \union InFlight(q)) <= i + j
  <2>1. /\ IsFiniteSet(counted \union InFlight(q)) /\ IsFiniteSet(counted \intersect InFlight(q))
        /\ Cardinality(counted \union InFlight(q)) = i + j - Cardinality(counted \intersect InFlight(q))
    BY <1>3, FS_Union, FS_Intersection DEF i
  <2>2. /\ Cardinality(counted \intersect InFlight(q)) \in Nat
        /\ Cardinality(counted \union InFlight(q)) \in Nat
    BY <2>1, FS_CardinalityType
  <2>3. QED
    BY <1>4, <2>1, <2>2
<1> DEFINE all == (counted \union InFlight(q)) \union LostAsks(q)
<1>6. IsFiniteSet(all) /\ Cardinality(all) \in Nat /\ Cardinality(all) <= i + j + k
  <2>1. /\ IsFiniteSet(all) /\ IsFiniteSet((counted \union InFlight(q)) \intersect LostAsks(q))
        /\ Cardinality(all) = Cardinality(counted \union InFlight(q)) + k
                              - Cardinality((counted \union InFlight(q)) \intersect LostAsks(q))
    BY <1>3, <1>5, FS_Union, FS_Intersection
  <2>2. /\ Cardinality((counted \union InFlight(q)) \intersect LostAsks(q)) \in Nat
        /\ Cardinality(all) \in Nat
    BY <2>1, FS_CardinalityType
  <2>3. QED
    BY <1>4, <1>5, <2>1, <2>2
<1>7. Cardinality(Mailable(q)) \in Nat /\ Cardinality(Mailable(q)) <= Cardinality(all)
  BY <1>1, <1>3, <1>6, FS_Subset, FS_CardinalityType
<1>8. Cardinality(Mailable(q) \union {q}) \in Nat /\ Cardinality(Mailable(q) \union {q}) <= Cardinality(Mailable(q)) + 1
  <2>1. Cardinality(Mailable(q) \union {q}) = IF q \in Mailable(q) THEN Cardinality(Mailable(q)) ELSE Cardinality(Mailable(q)) + 1
    BY <1>3, FS_AddElement
  <2>2. QED
    BY <1>7, <2>1
<1> HIDE DEF all
<1>9. QED
  BY <1>4, <1>6, <1>7, <1>8, MagicLinkConstants

LEMMA CheckEmailIInv ==
  ASSUME IInv, NEW q \in Asks, CheckEmail(q)
  PROVE  IInv'
<1>1. UNCHANGED <<attempts, token, expired, visit>> /\ ask[q].at = "idle" /\ TypeOK
  BY DEF CheckEmail, IInv
<1>2. /\ log' \in Log /\ log'.lost = log.lost /\ log'.sessions = log.sessions
      /\ \A p \in Asks : log.peak[p] <= log'.peak[p]
      /\ \A p \in SameEmail(q) : Cardinality(InFlight(q)) + 1 <= log'.peak[p]
  BY CheckEmailLog
<1>3. ~ask[q].sent
  BY <1>1 DEF IInv, Requesting
<1>4. \A t \in Tokens : log.lost[t] <= log'.lost[t] /\ log'.lost[t] = log.lost[t]
  BY <1>1, <1>2, LogNumbers
<1>5. CASE OverEmailLimit(q)
  <2> PICK r \in Ask : r.at = "refuse" /\ r.sent = ask[q].sent /\ ask' = [ask EXCEPT ![q] = r]
    BY <1>5, AskTold DEF CheckEmail
  <2>1. TypeOK'
    BY <1>1, <1>2, OneAsk DEF TypeOK
  <2>2. QED
    BY <1>1, <1>2, <1>3, <1>4, <2>1, AskIInv
<1>6. CASE ~OverEmailLimit(q)
  <2> PICK r \in Ask : r.at = "ip" /\ r.sent = ask[q].sent /\ ask' = [ask EXCEPT ![q] = r]
    BY <1>6, AskTold DEF CheckEmail
  <2>1. /\ ask' \in [Asks -> Ask] /\ ask'[q] = r /\ \A p \in Asks \ {q} : ask'[p] = ask[p]
        /\ IsFiniteSet(Begun')
    BY OneAsk
  <2>2. TypeOK'
    BY <1>1, <1>2, <2>1 DEF TypeOK
  <2>3. Requesting'
    BY <1>1, <1>2, <1>3, <2>1 DEF IInv, Requesting
  <2>4. Visiting' /\ Opening'
    BY <1>1, <1>2, <1>4, <2>2, VisitsApart
  <2>5. ASSUME NEW p \in Asks, Mailable(p)' # {}
        PROVE  Cardinality(Mailable(p)') <= LimitEmail + log'.peak[p] - 1 + Cardinality(LostAsks(p)')
    <3>1. CASE p \in SameEmail(q)
      <4>1. SameEmail(p) = SameEmail(q)
        BY <3>1 DEF SameEmail
      <4>2. Mailable(p)' = Mailable(q) \union {q} /\ LostAsks(p)' = LostAsks(q)
        BY <1>2, <2>1, <4>1 DEF Mailable, LostAsks, SameEmail
      <4>3. /\ Cardinality(Mailable(p)') <= LimitEmail + Cardinality(InFlight(q)) + Cardinality(LostAsks(q))
            /\ Cardinality(InFlight(q)) + 1 <= log'.peak[p]
        BY <1>2, <1>6, <3>1, <4>2, MailableBound
      <4>4. /\ Mailable(q) \subseteq Begun /\ InFlight(q) \subseteq Begun /\ LostAsks(q) \subseteq Begun
        BY LogNumbers, <1>1 DEF IInv, Requesting, SameEmail, InFlight, LostAsks, Begun, Mailable
      <4>5. /\ IsFiniteSet(InFlight(q)) /\ IsFiniteSet(LostAsks(q)) /\ IsFiniteSet(Mailable(q))
        BY <4>4, FS_Subset DEF IInv, Requesting
      <4>6. IsFiniteSet(Mailable(q) \union {q})
        BY <4>5, FS_AddElement
      <4> DEFINE n == Cardinality(Mailable(p)')
                 i == Cardinality(InFlight(q))
                 k == Cardinality(LostAsks(q))
                 l == log'.peak[p]
      <4>7. n \in Nat /\ i \in Nat /\ k \in Nat /\ n <= LimitEmail + i + k /\ i + 1 <= l
        BY <4>2, <4>3, <4>5, <4>6, FS_CardinalityType
      <4>8. l \in Nat
        BY <1>2 DEF Log
      <4> HIDE DEF n, i, k, l
      <4>9. n <= LimitEmail + l - 1 + k
        BY <4>7, <4>8, MagicLinkConstants
      <4>10. QED
        BY <4>2, <4>9 DEF n, l, k
    <3>2. CASE p \notin SameEmail(q)
      <4>1. q \notin SameEmail(p)
        BY <3>2 DEF SameEmail
      <4>2. Mailable(p)' \subseteq Mailable(p)
        BY <2>1, <4>1 DEF Mailable, SameEmail
      <4>3. QED
        BY <1>2, <2>2, <2>3, <2>5, <4>2, MailingShrinks
    <3>3. QED
      BY <3>1, <3>2
  <2>6. QED
    BY <2>2, <2>3, <2>4, <2>5 DEF IInv, Mailing
<1>7. QED
  BY <1>5, <1>6

-----------------------------------------------------------------------------
LEMMA OneVisit ==
  ASSUME IInv, NEW v \in Visits, NEW x \in Visit, visit' = [visit EXCEPT ![v] = x]
  PROVE  visit' \in [Visits -> Visit] /\ visit'[v] = x /\ \A w \in Visits \ {v} : visit'[w] = visit[w]
  BY DEF IInv, TypeOK

(* A visit that is over presents and holds nothing. *)
LEMMA OverVisit ==
  LET x == [NoVisit EXCEPT !.at = "done"] IN x \in Visit /\ x.at = "done" /\ ~x.session
  BY DEF NoVisit, Visit

LEMMA VisitTold ==
  ASSUME IInv, NEW v \in Visits, NEW l \in {"mark", "session", "commit", "done"}, VisitTo(v, l)
  PROVE  \E x \in Visit : /\ visit' = [visit EXCEPT ![v] = x] /\ x.at = l
                          /\ l = "done" => ~x.session
                          /\ l # "done" => /\ x.token = visit[v].token /\ x.endpoint = visit[v].endpoint
                                           /\ x.session = visit[v].session
<1> DEFINE new(x) == [x EXCEPT !.at = l]
<1>1. \A x \in Visit : /\ new(x) \in Visit /\ new(x).at = l /\ new(x).token = x.token
                       /\ new(x).endpoint = x.endpoint /\ new(x).session = x.session
  BY DEF Visit
<1>2. visit[v] \in Visit
  BY DEF IInv, TypeOK
<1>3. CASE l # "done"
  <2>1. visit' = [visit EXCEPT ![v] = new(visit[v])]
    BY <1>3 DEF VisitTo
  <2> HIDE DEF new
  <2>2. QED
    BY <1>1, <1>2, <1>3, <2>1, Zenon
<1>4. CASE l = "done"
  BY <1>4, OverVisit DEF VisitTo
<1>5. QED
  BY <1>3, <1>4

(* A visit that holds no token, before its step or after it, and has       *)
(* opened no session: it presents one, is turned away or fails.            *)
LEMMA VisitIInv ==
  ASSUME IInv, NEW v \in Visits, NEW x \in Visit, visit' = [visit EXCEPT ![v] = x],
         UNCHANGED <<ask, attempts, token, expired, log>>,
         visit[v].at # "commit", ~x.session,
         Presenting(x),
         x.at \in {"session", "commit"} => \A w \in Visits \ {v} : ~Holds(w, x.token)
  PROVE  IInv'
<1>1. visit' \in [Visits -> Visit] /\ visit'[v] = x /\ \A w \in Visits \ {v} : visit'[w] = visit[w]
  BY OneVisit
<1>2. TypeOK'
  BY <1>1 DEF IInv, TypeOK
<1>3. Requesting' /\ Mailing'
  BY <1>2, LogNumbers, RequestsApart DEF IInv, Tokens
<1>4. Visiting'
  <2>1. ASSUME NEW w \in Visits PROVE Presenting(visit[w])'
    BY <1>1 DEF IInv, Visiting, Presenting
  <2>2. ASSUME NEW w \in Visits, NEW u \in Visits, NEW t \in Tokens, Holds(w, t)', Holds(u, t)' PROVE w = u
    BY <1>1, <2>2 DEF IInv, Visiting, Holds
  <2>3. QED
    BY <2>1, <2>2 DEF Visiting
<1>5. Opening'
  <2>1. \A t \in Tokens : Opened(t)' = Opened(t)
    BY <1>1 DEF Opened, IInv, Visiting, Presenting
  <2>2. QED
    BY <2>1 DEF IInv, Opening, Balanced
<1>6. QED
  BY <1>2, <1>3, <1>4, <1>5 DEF IInv

LEMMA PresentIInv ==
  ASSUME IInv, NEW v \in Visits, Present(v)
  PROVE  IInv'
<1> PICK t \in Tokens, endpoint \in {"login", "reminder"} :
       visit' = [visit EXCEPT ![v] =
         IF token[t] = "fresh" /\ t \notin expired /\ (endpoint = "reminder" => t \in Reminders)
         THEN [at |-> "mark", token |-> t, endpoint |-> endpoint, session |-> FALSE]
         ELSE [NoVisit EXCEPT !.at = "done"]]
  BY DEF Present
<1> DEFINE x == IF token[t] = "fresh" /\ t \notin expired /\ (endpoint = "reminder" => t \in Reminders)
                THEN [at |-> "mark", token |-> t, endpoint |-> endpoint, session |-> FALSE]
                ELSE [NoVisit EXCEPT !.at = "done"]
<1>1. x \in Visit /\ Presenting(x) /\ ~x.session /\ x.at \in {"mark", "done"}
  BY OverVisit DEF Visit, Presenting
<1>2. UNCHANGED <<ask, attempts, token, expired, log>> /\ visit[v].at = "idle"
  BY DEF Present
<1>3. visit' = [visit EXCEPT ![v] = x]
  OBVIOUS
<1> HIDE DEF x
<1>4. QED
  BY <1>1, <1>2, <1>3, VisitIInv

LEMMA MarkIInv ==
  ASSUME IInv, NEW v \in Visits, Mark(v) \/ VisitFails(v)
  PROVE  IInv'
<1>1. UNCHANGED <<ask, attempts, token, expired, log>> /\ visit[v].at \in {"mark", "session"}
  BY DEF Mark, VisitFails
<1>2. Presenting(visit[v]) /\ visit[v].session \in BOOLEAN /\ ~visit[v].session
  BY <1>1 DEF IInv, Visiting, Presenting, TypeOK, Visit
<1>3. CASE VisitTo(v, "done")
  <2> PICK x \in Visit : visit' = [visit EXCEPT ![v] = x] /\ x.at = "done" /\ ~x.session
    BY <1>3, VisitTold
  <2>1. Presenting(x)
    BY DEF Presenting
  <2>2. QED
    BY <1>1, <2>1, VisitIInv
<1>4. CASE Mark(v) /\ VisitTo(v, "session") /\ token[visit[v].token] = "fresh"
  <2> PICK x \in Visit : /\ visit' = [visit EXCEPT ![v] = x] /\ x.at = "session"
                         /\ x.token = visit[v].token /\ x.endpoint = visit[v].endpoint
                         /\ x.session = visit[v].session
    BY <1>4, VisitTold
  <2>1. Presenting(x)
    BY <1>1, <1>2, <1>4 DEF Presenting
  <2>2. \A w \in Visits : ~Holds(w, x.token)
    BY <1>4 DEF Mark, Locked, Holds
  <2>3. QED
    BY <1>1, <1>2, <2>1, <2>2, VisitIInv
<1>5. QED
  BY <1>3, <1>4 DEF Mark, VisitFails

(* The visit that holds a token is the only one to have opened a session   *)
(* with it that is not committed.                                          *)
LEMMA HolderAlone ==
  ASSUME IInv, NEW v \in Visits, NEW t \in Tokens, Holds(v, t)
  PROVE  /\ token[t] = "fresh"
         /\ \A w \in Visits \ {v} : ~Holds(w, t)
         /\ Opened(t) = IF visit[v].session THEN {v} ELSE {}
<1>1. token[t] = "fresh" /\ \A w \in Visits \ {v} : ~Holds(w, t)
  BY DEF IInv, Visiting, Presenting, Holds
<1>2. Opened(t) \subseteq {v}
  BY <1>1 DEF Opened, Holds
<1>3. v \in Opened(t) <=> visit[v].session
  BY DEF Opened, Holds, IInv, Visiting, Presenting
<1>4. QED
  BY <1>1, <1>2, <1>3

LEMMA BalancedSteps ==
  ASSUME NEW n \in Nat, NEW l \in Nat, NEW k, NEW j, NEW S, NEW T, Balanced(k, n, l, S)
  PROVE  /\ k = "fresh" /\ S = {} /\ T # {} => Balanced(k, n + 1, l, T)
         /\ Balanced(k, n, l + 1, T)
         /\ j \notin {"none", "fresh"} => Balanced(j, n, l, T)
  BY DEF Balanced

LEMMA OpenSessionIInv ==
  ASSUME IInv, NEW v \in Visits, OpenSession(v)
  PROVE  IInv'
<1> DEFINE t == visit[v].token
<1>1. /\ UNCHANGED <<ask, attempts, token, expired>> /\ visit[v].at = "session"
      /\ visit[v] \in Visit /\ TypeOK
  BY DEF OpenSession, IInv, TypeOK
<1>2. Presenting(visit[v]) /\ ~visit[v].session /\ t \in Tokens
  BY <1>1 DEF IInv, Visiting, Presenting
<1>3. /\ Holds(v, t) /\ token[t] = "fresh" /\ Opened(t) = {}
      /\ \A w \in Visits \ {v} : ~Holds(w, t)
  BY <1>1, <1>2, HolderAlone DEF Holds
<1>4. CASE VisitTo(v, IF visit[v].endpoint = "login" THEN "commit" ELSE "done") /\ UNCHANGED log
  <2> PICK l \in {"commit", "done"} : VisitTo(v, l) /\ (l = "commit" => visit[v].endpoint = "login")
    BY <1>4
  <2> PICK x \in Visit : /\ visit' = [visit EXCEPT ![v] = x] /\ x.at = l
                         /\ l = "done" => ~x.session
                         /\ l # "done" => /\ x.token = visit[v].token /\ x.endpoint = visit[v].endpoint
                                          /\ x.session = visit[v].session
    BY VisitTold
  <2>1. ~x.session /\ Presenting(x)
    BY <1>1, <1>2, <1>3 DEF Presenting
  <2>2. x.at \in {"session", "commit"} => x.token = t
    OBVIOUS
  <2> HIDE DEF t
  <2>3. QED
    BY <1>1, <1>3, <1>4, <2>1, <2>2, VisitIInv
<1>5. CASE /\ visit' = [visit EXCEPT ![v].at = "commit", ![v].session = TRUE]
           /\ log' = [log EXCEPT !.sessions[visit[v].token] = @ + 1]
  <2> PICK x \in Visit : /\ x.at = "commit" /\ x.session /\ x.token = t /\ x.endpoint = visit[v].endpoint
                          /\ visit' = [visit EXCEPT ![v] = x]
    <3> DEFINE new(y) == [y EXCEPT !.at = "commit", !.session = TRUE]
    <3>1. \A y \in Visit : /\ new(y) \in Visit /\ new(y).at = "commit" /\ new(y).session
                           /\ new(y).token = y.token /\ new(y).endpoint = y.endpoint
      BY DEF Visit
    <3>2. visit' = [visit EXCEPT ![v] = new(visit[v])]
      BY <1>5
    <3> HIDE DEF new
    <3>3. QED
      BY <1>1, <3>1, <3>2, Zenon
  <2>1. /\ x \in Visit /\ x.at = "commit" /\ x.session /\ x.token = t /\ x.endpoint = visit[v].endpoint
        /\ visit' = [visit EXCEPT ![v] = x]
    OBVIOUS
  <2>2. /\ log' \in Log /\ log'.peak = log.peak /\ log'.lost = log.lost
        /\ \A s \in Tokens : log'.sessions[s] = IF s = t THEN log.sessions[s] + 1 ELSE log.sessions[s]
    BY <1>1, <1>2, <1>5, OpenOne DEF TypeOK
  <2> HIDE DEF t
  <2>3. visit' \in [Visits -> Visit] /\ visit'[v] = x /\ \A w \in Visits \ {v} : visit'[w] = visit[w]
    BY <2>1, OneVisit
  <2>4. TypeOK'
    BY <1>1, <2>2, <2>3 DEF TypeOK
  <2>5. Requesting' /\ Mailing'
    BY <1>1, <2>2, <2>4, LogNumbers, RequestsApart DEF Tokens
  <2>6. \A s \in Tokens : log.sessions[s] > 0 => log'.sessions[s] > 0
    <3>1. ASSUME NEW n \in Nat PROVE n + 1 > 0
      OBVIOUS
    <3>2. QED
      BY <1>1, <2>2, <3>1, LogNumbers
  <2>7. log'.sessions[t] > 0
    <3>1. ASSUME NEW n \in Nat PROVE n + 1 > 0
      OBVIOUS
    <3>2. QED
      BY <1>1, <1>2, <2>2, <3>1, LogNumbers
  <2>8. Visiting'
    <3>1. Presenting(x)'
      <4>1. log'.sessions[x.token] > 0 /\ token'[x.token] = "fresh" /\ x.token \in Tokens
        BY <1>1, <1>2, <1>3, <2>1, <2>7
      <4>2. x.endpoint = "reminder" => x.token \in Reminders
        BY <1>1, <1>2, <2>1 DEF Presenting, t
      <4>3. QED
        BY <2>1, <4>1, <4>2 DEF Presenting
    <3>2. ASSUME NEW w \in Visits \ {v} PROVE Presenting(visit[w])'
      <4>1. Presenting(visit[w]) /\ visit'[w] = visit[w] /\ visit[w] \in Visit
        BY <2>3 DEF IInv, Visiting, TypeOK
      <4>2. visit[w].session => visit[w].token \in Tokens
        BY <4>1 DEF Presenting
      <4>3. QED
        BY <1>1, <2>6, <4>1, <4>2 DEF Presenting
    <3>3. ASSUME NEW w \in Visits, NEW u \in Visits, NEW s \in Tokens, Holds(w, s)', Holds(u, s)' PROVE w = u
      BY <1>3, <2>1, <2>3, <3>3 DEF IInv, Visiting, Holds, t
    <3>4. QED
      BY <2>1, <2>3, <3>1, <3>2, <3>3 DEF Visiting, Presenting
  <2>9. Opening'
    <3> SUFFICES ASSUME NEW s \in Tokens
                 PROVE  /\ Balanced(token'[s], log'.sessions[s], log'.lost[s], Opened(s)')
                        /\ token'[s] = "used by reminder" => s \in Reminders /\ log'.sessions[s] > 0
      BY DEF Opening
    <3>1. /\ Balanced(token[s], log.sessions[s], log.lost[s], Opened(s))
          /\ token[s] = "used by reminder" => s \in Reminders /\ log.sessions[s] > 0
          /\ log.sessions[s] \in Nat /\ log.lost[s] \in Nat
      BY <1>1, LogNumbers DEF IInv, Opening
    <3>2. CASE s = t
      <4>1. v \in Opened(s)'
        BY <2>1, <2>3, <3>2 DEF Opened
      <4> DEFINE n == log.sessions[s]
                 l == log.lost[s]
      <4>2. log'.sessions[s] = n + 1 /\ log'.lost[s] = l /\ token'[s] = token[s] /\ token[s] = "fresh" /\ Opened(s) = {}
        BY <1>1, <1>3, <2>2, <3>2
      <4>3. n \in Nat /\ l \in Nat /\ Balanced(token[s], n, l, {})
        BY <3>1, <4>2
      <4> HIDE DEF n, l
      <4>4. Balanced(token[s], n + 1, l, Opened(s)')
        BY <4>1, <4>2, <4>3, BalancedSteps
      <4>5. QED
        BY <4>2, <4>4
    <3>3. CASE s # t
      <4>1. Opened(s)' = Opened(s)
        BY <1>1, <2>1, <2>3, <3>3 DEF Opened, t
      <4>2. QED
        BY <1>1, <2>2, <3>1, <3>3, <4>1
    <3>4. QED
      BY <3>2, <3>3
  <2>10. QED
    BY <2>4, <2>5, <2>8, <2>9 DEF IInv
<1>6. QED
  BY <1>4, <1>5 DEF OpenSession

(* The visit that holds the token t ends: what the token becomes, or what  *)
(* is lost, keeps the balance.                                             *)
LEMMA EndVisitIInv ==
  ASSUME IInv, NEW v \in Visits, NEW t \in Tokens, Holds(v, t),
         NEW x \in Visit, x.at = "done", ~x.session, visit' = [visit EXCEPT ![v] = x],
         UNCHANGED <<ask, attempts, expired>>,
         token' \in [Tokens -> {"none", "fresh", "used by login", "used by reminder", "deleted"}],
         token'[t] # "none", \A s \in Tokens \ {t} : token'[s] = token[s],
         log' \in Log, log'.peak = log.peak, log'.sessions = log.sessions,
         \A s \in Tokens : log.lost[s] <= log'.lost[s],
         \A s \in Tokens \ {t} : log'.lost[s] = log.lost[s],
         Balanced(token'[t], log.sessions[t], log'.lost[t], {}),
         token'[t] = "used by reminder" => t \in Reminders /\ log.sessions[t] > 0
  PROVE  IInv'
<1>1. visit' \in [Visits -> Visit] /\ visit'[v] = x /\ \A w \in Visits \ {v} : visit'[w] = visit[w]
  BY OneVisit
<1>2. TypeOK'
  BY <1>1 DEF IInv, TypeOK
<1>3. /\ token[t] = "fresh" /\ \A w \in Visits \ {v} : ~Holds(w, t)
  BY HolderAlone
<1>4. Requesting' /\ Mailing'
  BY <1>2, <1>3, RequestsApart DEF Tokens
<1>5. Visiting'
  <2>1. ASSUME NEW w \in Visits \ {v} PROVE Presenting(visit[w])'
    <3>1. Presenting(visit[w]) /\ visit'[w] = visit[w] /\ ~Holds(w, t)
      BY <1>1, <1>3 DEF IInv, Visiting
    <3>2. visit[w].at \in {"mark", "session", "commit"} =>
            visit[w].token \in Tokens /\ token[visit[w].token] # "none"
      BY <3>1 DEF Presenting
    <3>3. visit[w].at \in {"mark", "session", "commit"} => token'[visit[w].token] # "none"
      BY <3>2
    <3>4. visit[w].at \in {"session", "commit"} => token'[visit[w].token] = token[visit[w].token]
      BY <3>1, <3>2 DEF Holds
    <3>5. QED
      BY <3>1, <3>3, <3>4 DEF Presenting
  <2>2. Presenting(visit[v])'
    BY <1>1 DEF Presenting
  <2>3. ASSUME NEW w \in Visits, NEW u \in Visits, NEW s \in Tokens, Holds(w, s)', Holds(u, s)' PROVE w = u
    BY <1>1, <2>3 DEF IInv, Visiting, Holds
  <2>4. QED
    BY <2>1, <2>2, <2>3 DEF Visiting
<1>6. Opening'
  <2> SUFFICES ASSUME NEW s \in Tokens
               PROVE  /\ Balanced(token'[s], log'.sessions[s], log'.lost[s], Opened(s)')
                      /\ token'[s] = "used by reminder" => s \in Reminders /\ log'.sessions[s] > 0
    BY DEF Opening
  <2>1. CASE s = t
    <3>1. Opened(s)' = {}
      BY <1>1, <1>3, <2>1 DEF Opened, Holds
    <3>2. QED
      BY <2>1, <3>1
  <2>2. CASE s # t
    <3>1. Opened(s)' = Opened(s)
      BY <1>1, <2>2 DEF Opened, Holds
    <3>2. /\ Balanced(token[s], log.sessions[s], log.lost[s], Opened(s))
          /\ token[s] = "used by reminder" => s \in Reminders /\ log.sessions[s] > 0
      BY DEF IInv, Opening
    <3>3. QED
      BY <2>2, <3>1, <3>2
  <2>3. QED
    BY <2>1, <2>2
<1>7. QED
  BY <1>2, <1>4, <1>5, <1>6 DEF IInv

LEMMA CommitVisitIInv ==
  ASSUME IInv, NEW v \in Visits, CommitVisit(v)
  PROVE  IInv'
<1> PICK x \in Visit : visit' = [visit EXCEPT ![v] = x] /\ x.at = "done" /\ ~x.session
  BY VisitTold DEF CommitVisit
<1>1. /\ UNCHANGED <<ask, attempts, expired>> /\ visit[v].at = "commit"
      /\ visit[v] \in Visit /\ Presenting(visit[v])
  BY DEF CommitVisit, IInv, TypeOK, Visiting
<1>2. PICK t \in Tokens : t = visit[v].token
  BY <1>1 DEF Presenting
<1>3. /\ Holds(v, t) /\ token[t] = "fresh" /\ Opened(t) = IF visit[v].session THEN {v} ELSE {}
  BY <1>1, <1>2, HolderAlone DEF Holds
<1>4. /\ Balanced(token[t], log.sessions[t], log.lost[t], Opened(t))
      /\ log.sessions[t] \in Nat /\ log.lost[t] \in Nat /\ log \in Log
      /\ \A s \in Tokens : log.lost[s] <= log.lost[s]
      /\ token \in [Tokens -> {"none", "fresh", "used by login", "used by reminder", "deleted"}]
  BY LogNumbers DEF IInv, Opening, TypeOK
<1>5. CASE token' = [token EXCEPT ![t] = Used(v)] /\ UNCHANGED log
  <2>1. Used(v) \in {"used by login", "used by reminder"}
    BY DEF Used
  <2>2. /\ token' \in [Tokens -> {"none", "fresh", "used by login", "used by reminder", "deleted"}]
        /\ token'[t] = Used(v) /\ \A s \in Tokens \ {t} : token'[s] = token[s]
    BY <1>4, <1>5, <2>1
  <2>3. Balanced(token'[t], log.sessions[t], log'.lost[t], {})
    <3> DEFINE n == log.sessions[t]
               l == log.lost[t]
    <3>1. n \in Nat /\ l \in Nat /\ Balanced(token[t], n, l, Opened(t))
      BY <1>4
    <3> HIDE DEF n, l
    <3>2. Balanced(Used(v), n, l, {})
      BY <2>1, <3>1, BalancedSteps
    <3>3. QED
      BY <1>5, <2>2, <3>2 DEF n, l
  <2>4. token'[t] = "used by reminder" => t \in Reminders /\ log.sessions[t] > 0
    BY <1>1, <1>2, <2>2 DEF Used, Presenting, Visit
  <2>5. QED
    BY <1>1, <1>3, <1>4, <1>5, <2>1, <2>2, <2>3, <2>4, EndVisitIInv
<1>6. CASE visit[v].session /\ log' = [log EXCEPT !.lost[t] = @ + 1] /\ UNCHANGED token
  <2>1. /\ log' \in Log /\ log'.peak = log.peak /\ log'.sessions = log.sessions
        /\ \A s \in Tokens : log'.lost[s] = IF s = t THEN log.lost[s] + 1 ELSE log.lost[s]
    BY <1>4, <1>6, LoseOne
  <2>2. \A s \in Tokens : log.lost[s] <= log'.lost[s]
    <3>1. ASSUME NEW n \in Nat PROVE n <= n + 1
      OBVIOUS
    <3>2. QED
      BY <1>4, <2>1, <3>1
  <2>3. Balanced(token[t], log.sessions[t], log'.lost[t], {})
    <3> DEFINE n == log.sessions[t]
               l == log.lost[t]
    <3>1. n \in Nat /\ l \in Nat /\ Balanced(token[t], n, l, Opened(t))
      BY <1>4
    <3> HIDE DEF n, l
    <3>2. Balanced(token[t], n, l + 1, {})
      BY <3>1, BalancedSteps
    <3>3. QED
      BY <2>1, <3>2 DEF n, l
  <2>4. /\ token' = token /\ token'[t] # "none" /\ token'[t] # "used by reminder"
        /\ \A s \in Tokens \ {t} : log'.lost[s] = log.lost[s]
    BY <1>3, <1>6, <2>1
  <2>5. QED
    BY <1>1, <1>3, <1>4, <2>1, <2>2, <2>3, <2>4, EndVisitIInv
<1>7. CASE ~visit[v].session /\ UNCHANGED <<log, token>>
  BY <1>1, <1>3, <1>4, <1>7, EndVisitIInv
<1>8. QED
  BY <1>1, <1>2, <1>5, <1>6, <1>7 DEF CommitVisit, Visit

-----------------------------------------------------------------------------
(* A reminder makes its token, a token expires, nothing happens. *)
LEMMA TokenIInv ==
  ASSUME IInv, (\E t \in Tokens : CreateReminderToken(t) \/ Expire(t)) \/ UNCHANGED vars
  PROVE  IInv'
<1>1. UNCHANGED <<ask, attempts, visit, log>> /\ TypeOK
  BY DEF CreateReminderToken, Expire, vars, IInv
<1>2. /\ \A t \in Tokens : token'[t] = token[t] \/ (token[t] = "none" /\ token'[t] = "fresh")
      /\ \A q \in Asks : token'[q] = token[q]
      /\ TypeOK'
  BY MagicLinkConstants DEF CreateReminderToken, Expire, vars, IInv, TypeOK, Tokens
<1>3. Visiting' /\ Opening'
  BY <1>1, <1>2, LogNumbers, VisitsApart
<1>4. Requesting' /\ Mailing'
  BY <1>1, <1>2, LogNumbers, RequestsApart DEF Tokens
<1>5. QED
  BY <1>2, <1>3, <1>4 DEF IInv

LEMMA CleanupIInv ==
  ASSUME IInv, NEW t \in Tokens, Cleanup(t)
  PROVE  IInv'
<1>1. /\ UNCHANGED <<ask, attempts, expired, visit, log>> /\ TypeOK
      /\ token[t] # "none" /\ token'[t] = "deleted" /\ \A s \in Tokens \ {t} : token'[s] = token[s]
      /\ \A v \in Visits : ~Holds(v, t)
  BY DEF Cleanup, Locked, Holds, IInv, TypeOK
<1>2. TypeOK'
  BY DEF Cleanup, IInv, TypeOK
<1>3. Requesting' /\ Mailing'
  BY <1>1, <1>2, LogNumbers, RequestsApart DEF Tokens
<1>4. Visiting'
  <2>1. ASSUME NEW v \in Visits PROVE Presenting(visit[v])'
    <3>1. Presenting(visit[v]) /\ ~Holds(v, t)
      BY <1>1 DEF IInv, Visiting
    <3>2. QED
      BY <1>1, <3>1 DEF Presenting, Holds
  <2>2. QED
    BY <1>1, <2>1 DEF IInv, Visiting, Holds
<1>5. Opening'
  <2> SUFFICES ASSUME NEW s \in Tokens
               PROVE  /\ Balanced(token'[s], log'.sessions[s], log'.lost[s], Opened(s)')
                      /\ token'[s] = "used by reminder" => s \in Reminders /\ log'.sessions[s] > 0
    BY DEF Opening
  <2>1. Opened(s)' = Opened(s)
    BY <1>1 DEF Opened
  <2>2. /\ Balanced(token[s], log.sessions[s], log.lost[s], Opened(s))
        /\ token[s] = "used by reminder" => s \in Reminders /\ log.sessions[s] > 0
    BY DEF IInv, Opening
  <2>3. QED
    BY <1>1, <2>1, <2>2 DEF Balanced
<1>6. QED
  BY <1>2, <1>3, <1>4, <1>5 DEF IInv

-----------------------------------------------------------------------------
(* The invariant holds whatever requests, visits and the cleanup do. *)
THEOREM Invariance == Spec => []IInv
<1>1. Init => IInv
  BY InitIInv
<1>2. IInv /\ [Next]_vars => IInv'
  <2> SUFFICES ASSUME IInv, [Next]_vars PROVE IInv'
    OBVIOUS
  <2>1. ASSUME NEW q \in Asks, CheckEmail(q) \/ CheckIp(q) \/ SendLink(q) \/ CommitAsk(q) \/ AskFails(q)
        PROVE  IInv'
    BY <2>1, CheckEmailIInv, CheckIpIInv, SendLinkIInv, CommitAskIInv
  <2>2. ASSUME NEW v \in Visits, Present(v) \/ Mark(v) \/ OpenSession(v) \/ CommitVisit(v) \/ VisitFails(v)
        PROVE  IInv'
    BY <2>2, PresentIInv, MarkIInv, OpenSessionIInv, CommitVisitIInv
  <2>3. ASSUME NEW t \in Tokens, CreateReminderToken(t) \/ Expire(t) \/ Cleanup(t)
        PROVE  IInv'
    BY <2>3, TokenIInv, CleanupIInv
  <2>4. QED
    BY <2>1, <2>2, <2>3, TokenIInv DEF Next
<1>3. QED
  BY <1>1, <1>2, PTL DEF Spec

(* Every variable keeps its type. *)
THEOREM TypeCorrect == Spec => []TypeOK
<1>1. IInv => TypeOK
  BY DEF IInv
<1>2. QED
  BY <1>1, Invariance, PTL

(* However many visits present a token at once, it opens one session, and  *)
(* one more for each that was lost after it had been opened.               *)
THEOREM TokensOpenOneSession == Spec => []SingleUse
<1>1. IInv => SingleUse
  BY DEF IInv, Opening, Balanced, SingleUse
<1>2. QED
  BY <1>1, Invariance, PTL

(* The limit per email holds for requests one after the other; every       *)
(* request in flight at the same time, or lost after its mail, may add one. *)
THEOREM RequestsAreLimited == Spec => []MailsAreLimited
<1>1. IInv => MailsAreLimited
  <2> SUFFICES ASSUME IInv, NEW q \in Asks, Sent(q) # {}
               PROVE  Cardinality(Sent(q)) <= LimitEmail + log.peak[q] - 1 + Cardinality(LostAsks(q))
    BY DEF MailsAreLimited
  <2>1. Sent(q) \subseteq Mailable(q) /\ Mailable(q) \subseteq Begun /\ LostAsks(q) \subseteq Begun
    BY DEF Sent, Mailable, LostAsks, Begun, SameEmail, IInv, Requesting
  <2>2. /\ IsFiniteSet(Sent(q)) /\ IsFiniteSet(Mailable(q)) /\ IsFiniteSet(LostAsks(q))
        /\ Cardinality(Sent(q)) <= Cardinality(Mailable(q))
    BY <2>1, FS_Subset DEF IInv, Requesting
  <2> DEFINE m == Cardinality(Sent(q))
             n == Cardinality(Mailable(q))
             k == Cardinality(LostAsks(q))
             l == log.peak[q]
  <2>3. m \in Nat /\ n \in Nat /\ k \in Nat /\ m <= n
    BY <2>2, FS_CardinalityType
  <2>4. n <= LimitEmail + l - 1 + k
    BY <2>1 DEF IInv, Mailing
  <2>5. l \in Nat
    BY LogNumbers DEF IInv
  <2> HIDE DEF m, n, k, l
  <2>6. m <= LimitEmail + l - 1 + k
    BY <2>3, <2>4, <2>5, MagicLinkConstants
  <2>7. QED
    BY <2>6 DEF m, k, l
<1>2. QED
  BY <1>1, Invariance, PTL

(* What the reminder endpoint marks as used has opened a session, and was  *)
(* a reminder's.                                                           *)
THEOREM RemindersOpenSessions == Spec => []ReminderUsedMeansSession
<1>1. IInv => ReminderUsedMeansSession
  BY DEF IInv, Opening, ReminderUsedMeansSession
<1>2. QED
  BY <1>1, Invariance, PTL

(* MarkAsUsed, DeleteExpired: a used token stays used by the same endpoint *)
(* or is deleted, and a deleted one stays so: a visit that is about to     *)
(* commit holds a token that is fresh (Visiting).                          *)
THEOREM TokensStayUsed == Spec => UsedForever
<1> DEFINE Stays == \A t \in Tokens : token[t] \notin {"none", "fresh"} => token'[t] \in {token[t], "deleted"}
<1>1. IInv /\ [Next]_vars => [Stays]_vars
  <2> SUFFICES ASSUME IInv, Next, NEW t \in Tokens, token[t] \notin {"none", "fresh"}
               PROVE  token'[t] \in {token[t], "deleted"}
    BY DEF Stays
  <2>1. ASSUME NEW q \in Asks, CommitAsk(q) PROVE token'[t] \in {token[t], "deleted"}
    <3>1. token[q] = "none"
      BY <2>1 DEF CommitAsk, IInv, Requesting
    <3>2. token' = token \/ token' = [token EXCEPT ![q] = "fresh"]
      BY <2>1 DEF CommitAsk
    <3>3. QED
      BY <3>1, <3>2 DEF IInv, TypeOK
  <2>2. ASSUME NEW v \in Visits, CommitVisit(v) PROVE token'[t] \in {token[t], "deleted"}
    <3>1. token' = token \/ token' = [token EXCEPT ![visit[v].token] = Used(v)]
      BY <2>2 DEF CommitVisit
    <3>2. token[visit[v].token] = "fresh"
      BY <2>2 DEF CommitVisit, IInv, Visiting, Presenting
    <3>3. QED
      BY <3>1, <3>2 DEF IInv, TypeOK
  <2>3. ASSUME NEW s \in Tokens, CreateReminderToken(s) \/ Cleanup(s) PROVE token'[t] \in {token[t], "deleted"}
    BY <2>3 DEF CreateReminderToken, Cleanup, IInv, TypeOK
  <2>4. CASE UNCHANGED token
    BY <2>4
  <2>5. QED
    BY <2>1, <2>2, <2>3, <2>4
       DEF Next, CheckEmail, CheckIp, SendLink, AskFails, Present, Mark, OpenSession, VisitFails, Expire
<1>2. QED
  BY <1>1, Invariance, PTL DEF Spec, UsedForever, Stays
=============================================================================
