----------------------------- MODULE EmailQueue -----------------------------
(***************************************************************************)
(* The email_queue table and the email workers of the processes that share *)
(* it.  A worker polls: one autocommitted statement locks a batch of due   *)
(* rows and marks them 'processing'; a goroutine per row then opens a      *)
(* transaction (WithTenantContext), sends the mail, writes the result and  *)
(* publishes reminder.sent or reminder.failed in that transaction.  Rows   *)
(* of the batch wait for one of MaxConcurrent slots.                       *)
(*                                                                         *)
(* Nothing of a transaction is kept when one of its statements or its      *)
(* COMMIT fails, or when the worker stops: Stop cancels the context under  *)
(* every open transaction.  The mail that was sent meanwhile stays sent.   *)
(***************************************************************************)
EXTENDS Integers, FiniteSets

CONSTANTS
  Emails,          \* the mails to queue
  Workers,         \* processes that run an email worker
  MaxRetries,      \* email_queue.max_retries
  BatchSize,       \* WorkerConfig.BatchSize
  MaxConcurrent,   \* WorkerConfig.MaxConcurrent
  RowSecurity,     \* whether the database role is subject to row security
  MaxHalts         \* bound: how often workers stop or die

ASSUME QueueConstants ==
  /\ MaxRetries \in Nat
  /\ BatchSize \in Nat \ {0}
  /\ MaxConcurrent \in Nat \ {0}
  /\ RowSecurity \in BOOLEAN
  /\ MaxHalts \in Nat

VARIABLES
  queue,    \* committed rows: [status, retries, due]
  loop,     \* per worker: "polling", "claiming", "working" or "down"
  locked,   \* per worker: the rows its claiming statement has locked
  task,     \* per worker and mail: the goroutine that processes it
  halts,    \* how often a worker has stopped or died
  log       \* (history) per mail, what has happened to it

vars == <<queue, loop, locked, task, halts, log>>

-----------------------------------------------------------------------------
NoTask == [at |-> "none", retries |-> 0, error |-> "none", doomed |-> FALSE]

(* The error of a Send, as categorizeError and isRetryableError see it. *)
Outcomes == {"none", "transient", "permanent"}

Row  == [status : {"absent", "pending", "processing", "sent", "failed"}, retries : 0..MaxRetries, due : BOOLEAN]
Task == [at : {"none", "queued", "open", "mark", "publish", "commit"}, retries : 0..MaxRetries,
         error : Outcomes, doomed : BOOLEAN]

(* tries: calls of Send; accepted: those without error; refused: whether  *)
(* one failed for good; lost: whether a goroutine gave the mail up without *)
(* a result; sentEvents, failedEvents: committed reminder.* events.        *)
Log == [tries : Nat, accepted : Nat, refused : BOOLEAN, lost : BOOLEAN, sentEvents : Nat, failedEvents : Nat]

TypeOK ==
  /\ queue \in [Emails -> Row]
  /\ loop \in [Workers -> {"polling", "claiming", "working", "down"}]
  /\ locked \in [Workers -> SUBSET Emails]
  /\ task \in [Workers -> [Emails -> Task]]
  /\ halts \in 0..MaxHalts
  /\ log \in [Emails -> Log]

Init ==
  /\ queue = [e \in Emails |-> [status |-> "absent", retries |-> 0, due |-> FALSE]]
  /\ loop = [w \in Workers |-> "polling"]
  /\ locked = [w \in Workers |-> {}]
  /\ task = [w \in Workers |-> [e \in Emails |-> NoTask]]
  /\ halts = 0
  /\ log = [e \in Emails |-> [tries |-> 0, accepted |-> 0, refused |-> FALSE, lost |-> FALSE,
                              sentEvents |-> 0, failedEvents |-> 0]]

(* The mails a worker has taken and not yet finished. *)
Held(w) == {e \in Emails : task[w][e].at # "none"}

Running(w) == {e \in Held(w) : task[w][e].at # "queued"}

-----------------------------------------------------------------------------
(* Enqueue, in a request whose transaction commits: due at once. *)
Enqueue(e) ==
  /\ queue[e].status = "absent" /\ log[e].tries = 0
  /\ queue' = [queue EXCEPT ![e] = [status |-> "pending", retries |-> 0, due |-> TRUE]]
  /\ UNCHANGED <<loop, locked, task, halts, log>>

(* The time set in scheduled_for comes. *)
Elapse(e) ==
  /\ queue[e].status = "pending" /\ ~queue[e].due
  /\ queue' = [queue EXCEPT ![e].due = TRUE]
  /\ UNCHANGED <<loop, locked, task, halts, log>>

DueRows == {e \in Emails : queue[e].status = "pending" /\ queue[e].due}

(* Mutants: FOR UPDATE SKIP LOCKED is left out; every claim asks for       *)
(* retry_count < max_retries, as GetRetryableEmails does.                  *)
AnyDueRows == DueRows
BelowMaxRetries == {e \in DueRows : queue[e].retries < MaxRetries} \ UNION {locked[w] : w \in Workers}

(* Rows that GetNextToProcess can lock: SKIP LOCKED passes over those that *)
(* another worker's statement has locked.                                  *)
Claimable == DueRows \ UNION {locked[w] : w \in Workers}

(* Rows that GetRetryableEmails can lock. *)
Retryable == {e \in Claimable : queue[e].retries > 0 /\ queue[e].retries < MaxRetries}

(* A claiming statement that finds the rows in S locks LIMIT of them. *)
Batches(S) == {B \in SUBSET S : B # {} /\ (Cardinality(B) = BatchSize \/ (B = S /\ Cardinality(B) < BatchSize))}

(* The subselect of GetNextToProcess or, when that found nothing and by    *)
(* now there is something, of GetRetryableEmails.                          *)
LockRows(w) ==
  /\ loop[w] = "polling"
  /\ \E S \in Batches(Claimable) \union Batches(Retryable) : locked' = [locked EXCEPT ![w] = S]
  /\ loop' = [loop EXCEPT ![w] = "claiming"]
  /\ UNCHANGED <<queue, task, halts, log>>

Claimed(S) == [e \in Emails |-> IF e \in S THEN [queue[e] EXCEPT !.status = "processing"] ELSE queue[e]]

(* The tasks of w once the rows in S have come back to it. *)
Tasks(w, S) == [task EXCEPT ![w] = [e \in Emails |->
  IF e \in S THEN [NoTask EXCEPT !.at = "queued", !.retries = queue[e].retries] ELSE task[w][e]]]

(* The UPDATE of either query, which commits; the batch comes back. *)
Claim(w) ==
  /\ loop[w] = "claiming"
  /\ queue' = Claimed(locked[w])
  /\ task' = Tasks(w, locked[w])
  /\ locked' = [locked EXCEPT ![w] = {}]
  /\ loop' = [loop EXCEPT ![w] = "working"]
  /\ UNCHANGED <<halts, log>>

(* The UPDATE fails; or it commits and only some rows come back: none when *)
(* Scan fails, fewer when the connection breaks, which ends rows.Next and  *)
(* is not asked about (rows.Err), so that processBatch goes on with those. *)
ClaimFails(w) ==
  /\ loop[w] = "claiming"
  /\ \/ /\ loop' = [loop EXCEPT ![w] = "polling"]
        /\ UNCHANGED <<queue, task, log>>
     \/ \E S \in SUBSET locked[w] \ {locked[w]} :
          /\ queue' = Claimed(locked[w])
          /\ task' = Tasks(w, S)
          /\ loop' = [loop EXCEPT ![w] = IF S = {} THEN "polling" ELSE "working"]
          /\ log' = [e \in Emails |-> IF e \in locked[w] \ S THEN [log[e] EXCEPT !.lost = TRUE] ELSE log[e]]
  /\ locked' = [locked EXCEPT ![w] = {}]
  /\ UNCHANGED halts

(* The goroutine is started when there is a slot, and opens its           *)
(* transaction; if it cannot, the error is logged and the row stays.      *)
Begin(w, e) ==
  /\ task[w][e].at = "queued" /\ Cardinality(Running(w)) < MaxConcurrent
  /\ \/ task' = [task EXCEPT ![w][e].at = "open"] /\ UNCHANGED log
     \/ task' = [task EXCEPT ![w][e] = NoTask] /\ log' = [log EXCEPT ![e].lost = TRUE]
  /\ UNCHANGED <<queue, loop, locked, halts>>

(* sender.Send: the server takes the mail, or not. *)
Send(w, e) ==
  /\ task[w][e].at = "open"
  /\ \E error \in Outcomes :
       /\ task' = [task EXCEPT ![w][e].at = "mark", ![w][e].error = error]
       /\ log' = [log EXCEPT ![e].tries = @ + 1,
                             ![e].accepted = IF error = "none" THEN @ + 1 ELSE @,
                             ![e].refused = @ \/ error = "permanent"]
  /\ UNCHANGED <<queue, loop, locked, halts>>

(* MarkAsSent or MarkAsFailedWithDelay, whose result Settled writes down.  *)
(* Errors are only logged, but a failed statement dooms the transaction.   *)
Mark(w, e) ==
  /\ task[w][e].at = "mark"
  /\ task' \in {[task EXCEPT ![w][e].at = "publish"],
                [task EXCEPT ![w][e].at = "publish", ![w][e].doomed = TRUE]}
  /\ UNCHANGED <<queue, loop, locked, halts, log>>

(* Mutant: the event is queued outside the transaction. *)
PublishOutside(w, e) ==
  /\ task[w][e].at = "publish"
  /\ task' \in {[task EXCEPT ![w][e].at = "commit"],
                [task EXCEPT ![w][e].at = "commit", ![w][e].doomed = TRUE]}
  /\ log' = [log EXCEPT ![e].sentEvents = @ + 1]
  /\ UNCHANGED <<queue, loop, locked, halts>>

(* Publish(reminder.sent / reminder.failed), in the same transaction. *)
Publish(w, e) ==
  /\ task[w][e].at = "publish"
  /\ task' \in {[task EXCEPT ![w][e].at = "commit"],
                [task EXCEPT ![w][e].at = "commit", ![w][e].doomed = TRUE]}
  /\ UNCHANGED <<queue, loop, locked, halts, log>>

(* Mutants: the last retry is not granted; a permanent error is retried. *)
ShouldRetryOneLess(t, r) == t.error = "transient" /\ t.retries + 1 < MaxRetries /\ r.retries < MaxRetries
ShouldRetryForever(t, r) == t.error = "transient"

(* RetryCount < MaxRetries && isRetryableError on the row as it was       *)
(* claimed, and the UPDATE's own WHERE retry_count < max_retries.         *)
ShouldRetry(t, r) == t.error # "permanent" /\ t.retries < MaxRetries /\ r.retries < MaxRetries

(* Mutant: the status is not looked at: everything is retried. *)
SettledByRetry(t, r) ==
  IF ShouldRetry(t, r) THEN [status |-> "pending", retries |-> r.retries + 1, due |-> FALSE]
  ELSE [r EXCEPT !.status = "failed"]

(* The row after the transaction's updates. *)
Settled(t, r) ==
  IF t.error = "none" THEN [r EXCEPT !.status = "sent"]
  ELSE IF ShouldRetry(t, r) THEN [status |-> "pending", retries |-> r.retries + 1, due |-> FALSE]
  ELSE [r EXCEPT !.status = "failed"]

(* The transaction commits, unless it is doomed or COMMIT fails. *)
Commit(w, e) ==
  LET t == task[w][e] IN
  /\ t.at = "commit"
  /\ \/ /\ ~t.doomed
        /\ queue' = [queue EXCEPT ![e] = Settled(t, queue[e])]
        /\ log' = IF t.error = "none" THEN [log EXCEPT ![e].sentEvents = @ + 1]
                  ELSE [log EXCEPT ![e].failedEvents = @ + 1]
     \/ /\ log' = [log EXCEPT ![e].lost = TRUE]
        /\ UNCHANGED queue
  /\ task' = [task EXCEPT ![w][e] = NoTask]
  /\ UNCHANGED <<loop, locked, halts>>

(* wg.Wait returns: back to the ticker. *)
EndBatch(w) ==
  /\ loop[w] = "working" /\ Held(w) = {}
  /\ loop' = [loop EXCEPT ![w] = "polling"]
  /\ UNCHANGED <<queue, locked, task, halts, log>>

(* Mutant: what the worker held is put back into the queue. *)
HaltRequeues(w) ==
  /\ loop[w] # "down" /\ halts < MaxHalts
  /\ loop' = [loop EXCEPT ![w] = "down"]
  /\ locked' = [locked EXCEPT ![w] = {}]
  /\ task' = [task EXCEPT ![w] = [e \in Emails |-> NoTask]]
  /\ queue' = [e \in Emails |-> IF e \in Held(w) THEN [queue[e] EXCEPT !.status = "pending"] ELSE queue[e]]
  /\ halts' = halts + 1
  /\ UNCHANGED log

(* Stop (its context ends under every open transaction) or a crash. *)
Halt(w) ==
  /\ loop[w] # "down" /\ halts < MaxHalts
  /\ loop' = [loop EXCEPT ![w] = "down"]
  /\ locked' = [locked EXCEPT ![w] = {}]
  /\ task' = [task EXCEPT ![w] = [e \in Emails |-> NoTask]]
  /\ log' = [e \in Emails |-> IF e \in Held(w) THEN [log[e] EXCEPT !.lost = TRUE] ELSE log[e]]
  /\ halts' = halts + 1
  /\ UNCHANGED queue

(* The process is started again: NewWorker, Start. *)
Restart(w) ==
  /\ loop[w] = "down"
  /\ loop' = [loop EXCEPT ![w] = "polling"]
  /\ UNCHANGED <<queue, locked, task, halts, log>>

(* CleanupOldEmails, for a row past its retention.  The cleanup loop sets  *)
(* no tenant, and then the policy for DELETE shows it no row.              *)
Cleanup(e) ==
  /\ ~RowSecurity
  /\ queue[e].status \in {"sent", "failed"}
  /\ queue' = [queue EXCEPT ![e] = [status |-> "absent", retries |-> 0, due |-> FALSE]]
  /\ UNCHANGED <<loop, locked, task, halts, log>>

Process(w, e) == Begin(w, e) \/ Send(w, e) \/ Mark(w, e) \/ Publish(w, e) \/ Commit(w, e)

Poll(w) == LockRows(w) \/ Claim(w) \/ EndBatch(w)

Next ==
  \/ \E e \in Emails : Enqueue(e) \/ Elapse(e) \/ Cleanup(e)
  \/ \E w \in Workers : Poll(w) \/ ClaimFails(w) \/ Halt(w) \/ Restart(w)
  \/ \E w \in Workers, e \in Emails : Process(w, e)

(* The ticker keeps firing, goroutines run, time passes and a process that  *)
(* is down is started again.  A claim that is tried again and again does not  *)
(* fail each time; every other step that may fail may always fail.         *)
Spec ==
  /\ Init /\ [][Next]_vars
  /\ \A e \in Emails : WF_vars(Elapse(e))
  /\ \A w \in Workers : WF_vars(Poll(w)) /\ SF_vars(Claim(w)) /\ WF_vars(Restart(w))
  /\ \A w \in Workers, e \in Emails : WF_vars(Process(w, e))
-----------------------------------------------------------------------------
(* A mail is never in the hands of two workers, whatever their polls and   *)
(* restarts.                                                               *)
OneHolder == \A v, w \in Workers : v # w => Held(v) \intersect Held(w) = {}

(* "the email won't be resent" (processEmail): once the server has taken a *)
(* mail it is not sent again, also when the result could not be written.   *)
NeverResent == \A e \in Emails : log[e].accepted <= 1 /\
                 (log[e].accepted = 1 => \A w \in Workers : task[w][e].at \notin {"queued", "open"})

(* The row tells the truth: 'sent' only for a mail that was taken,         *)
(* 'failed' only for one that was not.                                     *)
StatusTruthful == \A e \in Emails : /\ queue[e].status = "sent" => log[e].accepted = 1
                                    /\ queue[e].status = "failed" => log[e].accepted = 0

(* A mail is given up only after a permanent error or 1 + max_retries      *)
(* tries, and is never tried more often: the checks in Go and in SQL agree.*)
TriesBeforeFailing ==
  \A e \in Emails : /\ log[e].tries <= MaxRetries + 1
                    /\ queue[e].status = "failed" /\ ~log[e].refused => log[e].tries = MaxRetries + 1

(* Webhook subscribers hear reminder.sent once for each row that is 'sent' *)
(* and reminder.failed once for each failed try the row has recorded.      *)
EventsMatchRows ==
  \A e \in Emails : queue[e].status # "absent" =>
    /\ log[e].sentEvents = IF queue[e].status = "sent" THEN 1 ELSE 0
    /\ log[e].failedEvents = queue[e].retries + IF queue[e].status = "failed" THEN 1 ELSE 0

(* The table is a queue with bounded retries (WorkQueue). *)
AbstractState(s) == IF s = "sent" THEN "done" ELSE s
Abstract == INSTANCE WorkQueue WITH
  Jobs    <- Emails,
  state   <- [e \in Emails |-> AbstractState(queue[e].status)],
  retries <- [e \in Emails |-> queue[e].retries]
ImplementsWorkQueue == Abstract!Spec

(* A queued mail is sent or given up, unless a worker lost it between the  *)
(* claim and the commit: no mail is left waiting for a slot, after its last *)
(* retry or by a worker that stops.                                        *)
EveryMailSettles ==
  \A e \in Emails : queue[e].status = "pending" ~> queue[e].status \in {"sent", "failed"} \/ log[e].lost
=============================================================================
