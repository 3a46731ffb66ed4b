----------------------------- MODULE MagicLink -----------------------------
(***************************************************************************)
(* Sign-in links: RequestMagicLink with its rate limits, the reminder      *)
(* tokens, the two endpoints that consume a token and the cleanup worker.  *)
(*                                                                         *)
(* Each request is one transaction, settled after the answer (and with it  *)
(* the session cookie) has been written; the mail is sent inside it.  A    *)
(* request of a link answers 200 whatever happens, so its transaction      *)
(* commits unless a statement has failed.  One window of the rate limit.   *)
(***************************************************************************)
EXTENDS Integers, FiniteSets, Functions

CONSTANTS
  Asks,         \* requests of a link; each creates at most one token
  Reminders,    \* tokens made by CreateReminderAuthToken
  Visits,       \* requests that present a token
  EmailOf,      \* the email an Ask is for
  IpOf,         \* the address an Ask comes from
  LimitEmail,   \* rateLimitPerEmail
  LimitIp,      \* rateLimitPerIP
  MaxLost       \* bound: transactions lost after the mail or the session

ASSUME MagicLinkConstants ==
  /\ Asks \intersect Reminders = {}
  /\ LimitEmail \in Nat \ {0} /\ LimitIp \in Nat \ {0} /\ MaxLost \in Nat

Tokens == Asks \union Reminders

VARIABLES
  ask,        \* per Ask: where it is, and whether its mail has been sent
  attempts,   \* Asks whose row in magic_link_auth_attempts is committed
  token,      \* committed rows of magic_link_tokens, per token
  expired,    \* tokens whose expires_at has passed
  visit,      \* per Visit: [at, token, endpoint, session]
  log         \* (history) see Log

vars == <<ask, attempts, token, expired, visit, log>>

-----------------------------------------------------------------------------
(* peak: most requests for the email of an Ask that were in flight at once; *)
(* sessions: sessions opened with a token; lost: transactions rolled back   *)
(* after the mail was sent, or after the session was opened.               *)
Log   == [peak : [Asks -> Nat], sessions : [Tokens -> Nat], lost : [Tokens -> Nat]]
Ask   == [at : {"idle", "ip", "send", "refuse", "commit", "done"}, sent : BOOLEAN]
Visit == [at : {"idle", "mark", "session", "commit", "done"}, token : Tokens \union {"none"},
          endpoint : {"login", "reminder"}, session : BOOLEAN]

TypeOK ==
  /\ ask \in [Asks -> Ask]
  /\ attempts \subseteq Asks
  /\ token \in [Tokens -> {"none", "fresh", "used by login", "used by reminder", "deleted"}]
  /\ expired \subseteq Tokens
  /\ visit \in [Visits -> Visit]
  /\ log \in Log

NoVisit == [at |-> "idle", token |-> "none", endpoint |-> "login", session |-> FALSE]

Init ==
  /\ ask = [q \in Asks |-> [at |-> "idle", sent |-> FALSE]]
  /\ attempts = {}
  /\ token = [t \in Tokens |-> "none"]
  /\ expired = {}
  /\ visit = [v \in Visits |-> NoVisit]
  /\ log = [peak |-> [q \in Asks |-> 0], sessions |-> [t \in Tokens |-> 0], lost |-> [t \in Tokens |-> 0]]

-----------------------------------------------------------------------------
SameEmail(q) == {p \in Asks : EmailOf[p] = EmailOf[q]}

(* Requests for the email of q that are in flight. *)
InFlight(q) == {p \in SameEmail(q) : ask[p].at \notin {"idle", "done"}}

(* Mutant: > for >=. *)
OverEmailLimitStrict(q) == Cardinality(attempts \intersect SameEmail(q)) > LimitEmail

(* CountRecentAttempts, CountRecentAttemptsByIP: every committed attempt   *)
(* counts, also those that were refused.                                   *)
OverEmailLimit(q) == Cardinality(attempts \intersect SameEmail(q)) >= LimitEmail
OverIpLimit(q)    == Cardinality({p \in attempts : IpOf[p] = IpOf[q]}) >= LimitIp

Losses == FoldFunction(LAMBDA n, m : n + m, 0, log.lost)

AskTo(q, l) == ask' = [ask EXCEPT ![q].at = l]

(* RequestMagicLink, once the email has been validated. *)
CheckEmail(q) ==
  LET n == Cardinality(InFlight(q)) + 1 IN
  /\ ask[q].at = "idle"
  /\ AskTo(q, IF OverEmailLimit(q) THEN "refuse" ELSE "ip")
  /\ log' = [log EXCEPT !.peak = [p \in Asks |-> IF p \in SameEmail(q) /\ n > @[p] THEN n ELSE @[p]]]
  /\ UNCHANGED <<attempts, token, expired, visit>>

CheckIp(q) ==
  /\ ask[q].at = "ip"
  /\ AskTo(q, IF OverIpLimit(q) THEN "refuse" ELSE "send")
  /\ UNCHANGED <<attempts, token, expired, visit, log>>

(* CreateToken, seen by others only once committed, then emailSender.Send; *)
(* when the mail fails the token stays.                                    *)
SendLink(q) ==
  /\ ask[q].at = "send"
  /\ \E ok \in BOOLEAN : ask' = [ask EXCEPT ![q] = [at |-> "commit", sent |-> ok]]
  /\ UNCHANGED <<attempts, token, expired, visit, log>>

(* logAttempt, on every way out, and the commit of token and attempt; or   *)
(* one of them fails and neither is kept.                                  *)
CommitAsk(q) ==
  /\ ask[q].at \in {"refuse", "commit"}
  /\ AskTo(q, "done")
  /\ \/ /\ attempts' = attempts \union {q}
        /\ token' = IF ask[q].at = "commit" THEN [token EXCEPT ![q] = "fresh"] ELSE token
        /\ UNCHANGED log
     \/ /\ Losses < MaxLost
        /\ log' = [log EXCEPT !.lost[q] = @ + 1]
        /\ UNCHANGED <<attempts, token>>
  /\ UNCHANGED <<expired, visit>>

(* A statement fails, or the request is lost, before the mail is sent. *)
AskFails(q) ==
  /\ ask[q].at \in {"ip", "send"}
  /\ AskTo(q, "done")
  /\ UNCHANGED <<attempts, token, expired, visit, log>>

(* CreateReminderAuthToken, in a transaction that commits. *)
CreateReminderToken(t) ==
  /\ t \in Reminders /\ token[t] = "none"
  /\ token' = [token EXCEPT ![t] = "fresh"]
  /\ UNCHANGED <<ask, attempts, expired, visit, log>>

-----------------------------------------------------------------------------
(* The row of the token is locked by a visit that has marked it. *)
Locked(t) == \E v \in Visits : visit[v].at \in {"session", "commit"} /\ visit[v].token = t

VisitTo(v, l) == visit' = [visit EXCEPT ![v] = IF l = "done" THEN [NoVisit EXCEPT !.at = "done"] ELSE [@ EXCEPT !.at = l]]

(* VerifyMagicLink or VerifyReminderAuthToken: GetByToken and IsValid.     *)
(* The second one takes reminder tokens only.                              *)
Present(v) ==
  /\ visit[v].at = "idle"
  /\ \E t \in Tokens, endpoint \in {"login", "reminder"} :
       visit' = [visit EXCEPT ![v] =
         IF token[t] = "fresh" /\ t \notin expired /\ (endpoint = "reminder" => t \in Reminders)
         THEN [at |-> "mark", token |-> t, endpoint |-> endpoint, session |-> FALSE]
         ELSE [NoVisit EXCEPT !.at = "done"]]
  /\ UNCHANGED <<ask, attempts, token, expired, log>>

(* Mutant: the UPDATE has no "AND used_at IS NULL". *)
MarkAgain(v) ==
  /\ visit[v].at = "mark" /\ ~Locked(visit[v].token)
  /\ VisitTo(v, IF token[visit[v].token] = "deleted" THEN "done" ELSE "session")
  /\ UNCHANGED <<ask, attempts, token, expired, log>>

(* MarkAsUsed: waits for the row, and fails when it is used or gone. *)
Mark(v) ==
  /\ visit[v].at = "mark" /\ ~Locked(visit[v].token)
  /\ VisitTo(v, IF token[visit[v].token] = "fresh" THEN "session" ELSE "done")
  /\ UNCHANGED <<ask, attempts, token, expired, log>>

(* Mutant: the reminder endpoint redirects to an error page, like login. *)
OpenSessionRedirects(v) ==
  /\ visit[v].at = "session"
  /\ \/ /\ visit' = [visit EXCEPT ![v].at = "commit", ![v].session = TRUE]
        /\ log' = [log EXCEPT !.sessions[visit[v].token] = @ + 1]
     \/ /\ VisitTo(v, "commit")
        /\ UNCHANGED log
  /\ UNCHANGED <<ask, attempts, token, expired>>

(* SetCurrentUser, and the answer.  When it fails, login redirects (302,   *)
(* so the token stays used) and reminder answers 500 (rolled back).        *)
OpenSession(v) ==
  /\ visit[v].at = "session"
  /\ \/ /\ visit' = [visit EXCEPT ![v].at = "commit", ![v].session = TRUE]
        /\ log' = [log EXCEPT !.sessions[visit[v].token] = @ + 1]
     \/ /\ VisitTo(v, IF visit[v].endpoint = "login" THEN "commit" ELSE "done")
        /\ UNCHANGED log
  /\ UNCHANGED <<ask, attempts, token, expired>>

Used(v) == IF visit[v].endpoint = "login" THEN "used by login" ELSE "used by reminder"

(* The transaction of the visit commits, or is lost with the mark. *)
CommitVisit(v) ==
  /\ visit[v].at = "commit"
  /\ VisitTo(v, "done")
  /\ \/ /\ token' = [token EXCEPT ![visit[v].token] = Used(v)]
        /\ UNCHANGED log
     \/ /\ Losses < MaxLost
        /\ log' = IF visit[v].session THEN [log EXCEPT !.lost[visit[v].token] = @ + 1] ELSE log
        /\ UNCHANGED token
  /\ UNCHANGED <<ask, attempts, expired>>

(* The visit is lost before it has answered. *)
VisitFails(v) ==
  /\ visit[v].at \in {"mark", "session"}
  /\ VisitTo(v, "done")
  /\ UNCHANGED <<ask, attempts, token, expired, log>>

Expire(t) ==
  /\ token[t] # "none" /\ t \notin expired
  /\ expired' = expired \union {t}
  /\ UNCHANGED <<ask, attempts, token, visit, log>>

(* Mutant: the cleanup does not wait for the row that a visit has marked.  *)
CleanupAnyRow(t) ==
  /\ t \in expired /\ token[t] \notin {"none", "deleted"}
  /\ token' = [token EXCEPT ![t] = "deleted"]
  /\ UNCHANGED <<ask, attempts, expired, visit, log>>

(* DeleteExpired; it waits for a row that a visit has marked. *)
Cleanup(t) ==
  /\ t \in expired /\ token[t] \notin {"none", "deleted"} /\ ~Locked(t)
  /\ token' = [token EXCEPT ![t] = "deleted"]
  /\ UNCHANGED <<ask, attempts, expired, visit, log>>

Next ==
  \/ \E q \in Asks : CheckEmail(q) \/ CheckIp(q) \/ SendLink(q) \/ CommitAsk(q) \/ AskFails(q)
  \/ \E v \in Visits : Present(v) \/ Mark(v) \/ OpenSession(v) \/ CommitVisit(v) \/ VisitFails(v)
  \/ \E t \in Tokens : CreateReminderToken(t) \/ Expire(t) \/ Cleanup(t)

Spec == Init /\ [][Next]_vars
-----------------------------------------------------------------------------
(* A token opens one session, however many visits present it at once; one  *)
(* more for each time its mark was lost after the session had been opened. *)
SingleUse == \A t \in Tokens : log.sessions[t] <= 1 + log.lost[t]

(* Requests for one email that come one after the other get LimitEmail     *)
(* mails at most; every request that overlaps may add one, and so may a    *)
(* request that was rolled back after its mail.                            *)
Sent(q) == {p \in SameEmail(q) : ask[p].sent}
LostAsks(q) == {p \in SameEmail(q) : log.lost[p] > 0}
MailsAreLimited ==
  \A q \in Asks : Sent(q) # {} => Cardinality(Sent(q)) <= LimitEmail + log.peak[q] - 1 + Cardinality(LostAsks(q))

(* A token that was consumed by the reminder endpoint has opened a session *)
(* (the endpoint of the sign-in link does not promise that).               *)
ReminderUsedMeansSession ==
  \A t \in Tokens : token[t] = "used by reminder" => t \in Reminders /\ log.sessions[t] > 0

(* A consumed token keeps the endpoint that consumed it until the cleanup  *)
(* deletes it, and a deleted token does not come back, not even by a visit *)
(* that found it before it expired.                                        *)
UsedForever ==
  [][\A t \in Tokens : token[t] \notin {"none", "fresh"} => token'[t] \in {token[t], "deleted"}]_vars
=============================================================================
