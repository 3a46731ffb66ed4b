----------------------------- MODULE WorkQueue -----------------------------
(***************************************************************************)
(* What a table of jobs with retries promises, without workers, batches or *)
(* transactions: a job is taken by one worker at a time, goes back to the  *)
(* queue a bounded number of times, ends once and is never taken again     *)
(* after that.  email_queue (EmailQueue) and webhook_deliveries            *)
(* (WebhookQueue) are shown to implement it.                               *)
(***************************************************************************)
EXTENDS Integers

CONSTANTS Jobs, MaxRetries

VARIABLES
  state,    \* per job: "absent", "pending", "processing", "done" or "failed"
  retries   \* per job: how often it has gone back to the queue

Init ==
  /\ state = [j \in Jobs |-> "absent"]
  /\ retries = [j \in Jobs |-> 0]

(* Jobs enter the queue, alone or several at once. *)
Submit == \E S \in SUBSET Jobs :
            /\ \A j \in S : state[j] = "absent"
            /\ state' = [j \in Jobs |-> IF j \in S THEN "pending" ELSE state[j]]
            /\ UNCHANGED retries

(* A worker takes a batch of pending jobs. *)
Take == \E S \in SUBSET Jobs :
          /\ \A j \in S : state[j] = "pending"
          /\ state' = [j \in Jobs |-> IF j \in S THEN "processing" ELSE state[j]]
          /\ UNCHANGED retries

(* A job that was taken goes back to the queue. *)
Retry(j) ==
  /\ state[j] = "processing" /\ retries[j] < MaxRetries
  /\ state' = [state EXCEPT ![j] = "pending"]
  /\ retries' = [retries EXCEPT ![j] = retries[j] + 1]

(* A job that was taken ends. *)
End(j) ==
  /\ state[j] = "processing"
  /\ state' \in {[state EXCEPT ![j] = "done"], [state EXCEPT ![j] = "failed"]}
  /\ UNCHANGED retries

(* Jobs are removed: finished ones by the retention, any by their owner. *)
Remove == \E S \in SUBSET Jobs :
            /\ state' = [j \in Jobs |-> IF j \in S THEN "absent" ELSE state[j]]
            /\ retries' = [j \in Jobs |-> IF j \in S THEN 0 ELSE retries[j]]

Next ==
  \/ Submit
  \/ Take
  \/ \E j \in Jobs : Retry(j) \/ End(j)
  \/ Remove

Spec == Init /\ [][Next]_<<state, retries>>
=============================================================================
