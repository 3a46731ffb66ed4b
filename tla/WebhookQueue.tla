---------------------------- MODULE WebhookQueue ----------------------------
(***************************************************************************)
(* Webhooks: Publish, which fans an event out to one delivery per webhook  *)
(* in the transaction of whoever publishes it; the delivery workers; and   *)
(* the administration of webhooks beside both.                             *)
(*                                                                         *)
(* A delivery is named by its event and its webhook.  A worker claims it   *)
(* like EmailQueue claims a mail (FOR UPDATE SKIP LOCKED, autocommit), so  *)
(* a delivery has one goroutine at most and workers need no names here.    *)
(* An insert holds a share lock on its webhook until its transaction ends, *)
(* and deleting a webhook, which cascades to its deliveries, waits for it. *)
(***************************************************************************)
EXTENDS Integers, FiniteSets

CONSTANTS
  Events,        \* events that are published
  Hooks,         \* webhook ids
  MaxRetries,    \* webhook_deliveries.max_retries
  BatchSize,     \* WorkerConfig.BatchSize
  RowSecurity,   \* whether the database role is subject to row security
  MaxFaults      \* bound: how often a claim or a goroutine gives up

ASSUME WebhookConstants ==
  /\ MaxRetries \in Nat /\ MaxFaults \in Nat
  /\ BatchSize \in Nat \ {0}
  /\ RowSecurity \in BOOLEAN

Deliveries == Events \X Hooks

VARIABLES
  hook,     \* per webhook: "none", "active", "inactive" or "deleted"
  pub,      \* per event: the Publish that queues it
  rows,     \* committed rows of webhook_deliveries: [status, retries, due]
  task,     \* per delivery: the goroutine that posts it
  faults,   \* how often a claim or a goroutine has given up
  log       \* (history) per delivery: posts, accepted posts, given up

vars == <<hook, pub, rows, task, faults, log>>

-----------------------------------------------------------------------------
Row  == [status : {"absent", "pending", "processing", "delivered", "failed"}, retries : 0..MaxRetries, due : BOOLEAN]
Task == [at : {"none", "open", "mark"}, retries : 0..MaxRetries, ok : BOOLEAN]
Pub  == [at : {"idle", "queueing", "committed", "rolled back"}, doomed : BOOLEAN,
         listed : SUBSET Hooks, queued : SUBSET Hooks, left : SUBSET Hooks]
Log  == [posts : Nat, accepted : Nat, lost : BOOLEAN]

TypeOK ==
  /\ hook \in [Hooks -> {"none", "active", "inactive", "deleted"}]
  /\ pub \in [Events -> Pub]
  /\ rows \in [Deliveries -> Row]
  /\ task \in [Deliveries -> Task]
  /\ faults \in 0..MaxFaults
  /\ log \in [Deliveries -> Log]

NoRow  == [status |-> "absent", retries |-> 0, due |-> FALSE]
NewRow == [status |-> "pending", retries |-> 0, due |-> TRUE]
NoTask == [at |-> "none", retries |-> 0, ok |-> FALSE]

Init ==
  /\ hook = [h \in Hooks |-> "none"]
  /\ pub = [v \in Events |-> [at |-> "idle", doomed |-> FALSE, listed |-> {}, queued |-> {}, left |-> {}]]
  /\ rows = [d \in Deliveries |-> NoRow]
  /\ task = [d \in Deliveries |-> NoTask]
  /\ faults = 0
  /\ log = [d \in Deliveries |-> [posts |-> 0, accepted |-> 0, lost |-> FALSE]]

-----------------------------------------------------------------------------
(* Create; Update and SetActive. *)
CreateHook(h) ==
  /\ hook[h] = "none"
  /\ hook' \in {[hook EXCEPT ![h] = "active"], [hook EXCEPT ![h] = "inactive"]}
  /\ UNCHANGED <<pub, rows, task, faults, log>>

SetActive(h) ==
  /\ hook[h] \in {"active", "inactive"}
  /\ hook' = [hook EXCEPT ![h] = IF @ = "active" THEN "inactive" ELSE "active"]
  /\ UNCHANGED <<pub, rows, task, faults, log>>

(* Transactions that hold a share lock on the webhook. *)
Referring(h) == {v \in Events : pub[v].at = "queueing" /\ ~pub[v].doomed /\ h \in pub[v].queued}

(* Mutant: no foreign key, so nothing waits. *)
DeleteWithoutWaiting(h) ==
  /\ hook[h] \in {"active", "inactive"}
  /\ hook' = [hook EXCEPT ![h] = "deleted"]
  /\ rows' = [d \in Deliveries |-> IF d[2] = h THEN NoRow ELSE rows[d]]
  /\ UNCHANGED <<pub, task, faults, log>>

(* Delete, with the cascade; goroutines that hold a row do not notice. *)
DeleteHook(h) ==
  /\ hook[h] \in {"active", "inactive"} /\ Referring(h) = {}
  /\ hook' = [hook EXCEPT ![h] = "deleted"]
  /\ rows' = [d \in Deliveries |-> IF d[2] = h THEN NoRow ELSE rows[d]]
  /\ UNCHANGED <<pub, task, faults, log>>

(* Publish: ListActiveByEvent, which may fail and doom the transaction.    *)
(* All webhooks subscribe to the events here.                              *)
List(v) ==
  LET active == {h \in Hooks : hook[h] = "active"} IN
  /\ pub[v].at = "idle"
  /\ pub' \in {[pub EXCEPT ![v].at = "queueing", ![v].listed = active, ![v].left = active],
               [pub EXCEPT ![v].at = "queueing", ![v].doomed = TRUE]}
  /\ UNCHANGED <<hook, rows, task, faults, log>>

(* Mutant: each row is queued on its own connection. *)
QueueOutside(v, h) ==
  /\ pub[v].at = "queueing" /\ h \in pub[v].left
  /\ IF hook[h] = "deleted" \/ pub[v].doomed
     THEN pub' = [pub EXCEPT ![v].left = @ \ {h}] /\ UNCHANGED rows
     ELSE /\ pub' = [pub EXCEPT ![v].left = @ \ {h}, ![v].queued = @ \union {h}]
          /\ rows' = [rows EXCEPT ![<<v, h>>] = NewRow]
  /\ UNCHANGED <<hook, task, faults, log>>

(* Mutant: a row that cannot be queued leaves the others alone. *)
QueueOrSkip(v, h) ==
  /\ pub[v].at = "queueing" /\ h \in pub[v].left
  /\ \/ pub' = [pub EXCEPT ![v].left = @ \ {h}]
     \/ hook[h] # "deleted" /\ pub' = [pub EXCEPT ![v].left = @ \ {h}, ![v].queued = @ \union {h}]
  /\ UNCHANGED <<hook, rows, task, faults, log>>

(* Publish: one Enqueue of the loop.  Its error is logged and the loop     *)
(* goes on, but the failed INSERT (any failure, or a webhook that was      *)
(* deleted since the list) has doomed the transaction.                     *)
Queue(v, h) ==
  /\ pub[v].at = "queueing" /\ h \in pub[v].left
  /\ \/ pub' = [pub EXCEPT ![v].left = @ \ {h}, ![v].doomed = TRUE]
     \/ /\ hook[h] # "deleted" /\ ~pub[v].doomed
        /\ pub' = [pub EXCEPT ![v].left = @ \ {h}, ![v].queued = @ \union {h}]
  /\ UNCHANGED <<hook, rows, task, faults, log>>

(* The publisher's transaction ends, with all of its rows or none. *)
EndPublish(v) ==
  /\ pub[v].at = "queueing" /\ pub[v].left = {}
  /\ \/ /\ ~pub[v].doomed
        /\ pub' = [pub EXCEPT ![v].at = "committed"]
        /\ rows' = [d \in Deliveries |-> IF d[1] = v /\ d[2] \in pub[v].queued THEN NewRow ELSE rows[d]]
     \/ /\ pub' = [pub EXCEPT ![v].at = "rolled back"]
        /\ UNCHANGED rows
  /\ UNCHANGED <<hook, task, faults, log>>

-----------------------------------------------------------------------------
(* The time set in scheduled_for comes. *)
Elapse(d) ==
  /\ rows[d].status = "pending" /\ ~rows[d].due
  /\ rows' = [rows EXCEPT ![d].due = TRUE]
  /\ UNCHANGED <<hook, pub, task, faults, log>>

Due == {d \in Deliveries : rows[d].status = "pending" /\ rows[d].due}

Claimed(S) == [d \in Deliveries |-> IF d \in S THEN [rows[d] EXCEPT !.status = "processing"] ELSE rows[d]]

Retryable == {d \in Due : rows[d].retries > 0 /\ rows[d].retries < MaxRetries}

(* A claiming statement that finds the rows in S takes LIMIT of them.      *)
(* GetRetryable is asked when GetNextToProcess has found nothing; by then  *)
(* there may be something.                                                 *)
Taken(S) == {B \in SUBSET S : B # {} /\ (Cardinality(B) = BatchSize \/ (B = S /\ Cardinality(B) < BatchSize))}
Batches  == Taken(Due) \union Taken(Retryable)

(* The rows that come back of those that were claimed: the statement joins *)
(* webhooks, whose policy shows no row when no tenant is set.              *)
Returned(S) == IF RowSecurity THEN {} ELSE S

Tasks(S) == [d \in Deliveries |->
  IF d \in S THEN [at |-> "open", retries |-> rows[d].retries, ok |-> FALSE] ELSE task[d]]

(* GetNextToProcess, or GetRetryable: the UPDATE, and the join. *)
Claim ==
  /\ \E S \in Batches : rows' = Claimed(S) /\ task' = Tasks(Returned(S))
  /\ UNCHANGED <<hook, pub, faults, log>>

(* The rows are claimed and only some come back: none when Scan fails,     *)
(* fewer when the connection breaks (rows.Err is not asked).               *)
ClaimFails ==
  /\ faults < MaxFaults
  /\ \E S \in Batches : \E back \in SUBSET S \ {S} :
       /\ rows' = Claimed(S)
       /\ task' = Tasks(back \intersect Returned(S))
       /\ log' = [d \in Deliveries |-> IF d \in S \ back THEN [log[d] EXCEPT !.lost = TRUE] ELSE log[d]]
  /\ faults' = faults + 1
  /\ UNCHANGED <<hook, pub>>

(* processOne: the POST.  The receiver answers 2xx, or not, or not in time. *)
Post(d) ==
  /\ task[d].at = "open"
  /\ \E ok \in BOOLEAN :
       /\ task' = [task EXCEPT ![d].at = "mark", ![d].ok = ok]
       /\ log' = [log EXCEPT ![d].posts = @ + 1, ![d].accepted = IF ok THEN @ + 1 ELSE @]
  /\ UNCHANGED <<hook, pub, rows, faults>>

(* Mutants: an UPSERT; a retry whatever the count; a lost failure. *)
SettleUpsert(d) ==
  /\ task[d].at = "mark"
  /\ rows' = [rows EXCEPT ![d].status = IF task[d].ok THEN "delivered" ELSE "failed"]
  /\ task' = [task EXCEPT ![d] = NoTask]
  /\ UNCHANGED <<hook, pub, faults, log>>

SettleAlwaysRetries(d) ==
  /\ task[d].at = "mark"
  /\ rows' = IF rows[d].status = "absent" THEN rows
             ELSE IF task[d].ok THEN [rows EXCEPT ![d].status = "delivered"]
             ELSE [rows EXCEPT ![d] = [status |-> "pending", retries |-> @.retries + 1, due |-> FALSE]]
  /\ task' = [task EXCEPT ![d] = NoTask]
  /\ UNCHANGED <<hook, pub, faults, log>>

SettleOnlySuccess(d) ==
  /\ task[d].at = "mark"
  /\ rows' = IF rows[d].status # "absent" /\ task[d].ok THEN [rows EXCEPT ![d].status = "delivered"] ELSE rows
  /\ task' = [task EXCEPT ![d] = NoTask]
  /\ UNCHANGED <<hook, pub, faults, log>>

(* MarkDelivered or MarkFailed, and the commit.  An UPDATE of a row that   *)
(* was deleted changes nothing.                                            *)
Settle(d) ==
  /\ task[d].at = "mark"
  /\ rows' = IF rows[d].status = "absent" THEN rows
             ELSE IF task[d].ok THEN [rows EXCEPT ![d].status = "delivered"]
             ELSE IF task[d].retries < MaxRetries /\ rows[d].retries < MaxRetries
             THEN [rows EXCEPT ![d] = [status |-> "pending", retries |-> @.retries + 1, due |-> FALSE]]
             ELSE [rows EXCEPT ![d].status = "failed"]
  /\ task' = [task EXCEPT ![d] = NoTask]
  /\ UNCHANGED <<hook, pub, faults, log>>

(* The worker stops or dies, or the transaction cannot be opened, written  *)
(* (a response body cut inside a character is one cause) or committed: the *)
(* goroutine ends without a result.                                        *)
GiveUp(d) ==
  /\ task[d].at # "none" /\ faults < MaxFaults
  /\ task' = [task EXCEPT ![d] = NoTask]
  /\ faults' = faults + 1
  /\ log' = [log EXCEPT ![d].lost = TRUE]
  /\ UNCHANGED <<hook, pub, rows>>

(* CleanupOld, for a row past its retention: the policy for DELETE shows   *)
(* it no row either.                                                       *)
Cleanup(d) ==
  /\ ~RowSecurity
  /\ rows[d].status \in {"delivered", "failed"}
  /\ rows' = [rows EXCEPT ![d] = NoRow]
  /\ UNCHANGED <<hook, pub, task, faults, log>>

Next ==
  \/ \E h \in Hooks : CreateHook(h) \/ SetActive(h) \/ DeleteHook(h)
  \/ \E v \in Events : List(v) \/ EndPublish(v) \/ \E h \in Hooks : Queue(v, h)
  \/ Claim \/ ClaimFails
  \/ \E d \in Deliveries : Elapse(d) \/ Post(d) \/ Settle(d) \/ GiveUp(d) \/ Cleanup(d)

(* At least one worker polls, its goroutines run and time passes. *)
Spec ==
  /\ Init /\ [][Next]_vars
  /\ WF_vars(Claim)
  /\ \A d \in Deliveries : WF_vars(Elapse(d)) /\ WF_vars(Post(d) \/ Settle(d))
-----------------------------------------------------------------------------
(* An event whose transaction committed reaches every webhook that Publish *)
(* listed: none is skipped because queueing for another one failed or a    *)
(* webhook was deleted meanwhile.                                          *)
EventReachesAll ==
  \A v \in Events : pub[v].at = "committed" =>
    \A h \in pub[v].listed : hook[h] = "deleted" \/ rows[<<v, h>>].status # "absent" \/ log[<<v, h>>].posts > 0

(* Nothing is posted, or waits to be, for an event whose transaction has   *)
(* not committed.                                                          *)
NoEventFromRollback ==
  \A v \in Events, h \in Hooks : pub[v].at # "committed" => rows[<<v, h>>].status = "absent" /\ log[<<v, h>>].posts = 0

(* A deleted webhook leaves no delivery behind, although events are being  *)
(* published, and deliveries posted, while it is deleted.                  *)
DeletedHookHasNoRows == \A v \in Events, h \in Hooks : hook[h] = "deleted" => rows[<<v, h>>].status = "absent"

(* A receiver that has accepted a delivery does not get it again, and no   *)
(* one gets it more often than 1 + max_retries times.                      *)
PostsAreBounded == \A d \in Deliveries : log[d].accepted <= 1 /\ log[d].posts <= MaxRetries + 1

(* webhook_deliveries is a queue with bounded retries (WorkQueue). *)
AbstractState(s) == IF s = "delivered" THEN "done" ELSE s
Abstract == INSTANCE WorkQueue WITH
  Jobs    <- Deliveries,
  state   <- [d \in Deliveries |-> AbstractState(rows[d].status)],
  retries <- [d \in Deliveries |-> rows[d].retries]
ImplementsWorkQueue == Abstract!Spec

(* A queued delivery is delivered, given up after its retries or removed,  *)
(* unless a worker that claimed it stopped, failed or lost its connection. *)
(* With row security this is what migration 0020 and the changelog claim   *)
(* for the workers, and does not hold (see the README).                    *)
EveryDeliverySettles ==
  \A d \in Deliveries :
    rows[d].status = "pending" ~> rows[d].status \in {"delivered", "failed", "absent"} \/ log[d].lost
=============================================================================
