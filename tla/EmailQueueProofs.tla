-------------------------- MODULE EmailQueueProofs --------------------------
(***************************************************************************)
(* Proofs about EmailQueue, for any mails, workers, batches and number of  *)
(* retries.  The safety properties follow from one inductive invariant,    *)
(* IInv, which adds to them                                                *)
(*   - that the rows a worker's statement has locked are due and locked by *)
(*     no other worker,                                                    *)
(*   - that the row of a mail in somebody's hands is 'processing' and has  *)
(*     the count of retries it was claimed with,                           *)
(*   - how often a mail has been tried, from the status and the count of   *)
(*     retries of its row and from how far its goroutine is.               *)
(***************************************************************************)
EXTENDS EmailQueue, TLAPS

Unsent(t) == t.at \in {"queued", "open"}
Tried(t)  == t.at \in {"mark", "publish", "commit"}

Locks ==
  /\ \A v, w \in Workers : v # w => locked[v] \intersect locked[w] = {}
  /\ \A w \in Workers : \A e \in locked[w] : queue[e].status = "pending"

(* What a goroutine (t) says of its row (q) and of the history (l). *)
Handled(t, q, l) ==
  /\ t.at # "none" => q.status = "processing" /\ t.retries = q.retries
  /\ Unsent(t) => l.tries = q.retries /\ l.accepted = 0 /\ ~l.refused
  /\ Tried(t) => /\ l.tries = q.retries + 1
                 /\ l.accepted = IF t.error = "none" THEN 1 ELSE 0
                 /\ l.refused <=> t.error = "permanent"

Hands == \A w \in Workers, e \in Emails : Handled(task[w][e], queue[e], log[e])

(* What the row of a mail (q) says of its history (l). *)
Counted(q, l) ==
  /\ l.accepted <= 1 /\ l.tries <= MaxRetries + 1
  /\ q.status = "absent" => q.retries = 0
  /\ q.status = "absent" /\ l.tries = 0 =>
       l.accepted = 0 /\ ~l.refused /\ l.sentEvents = 0 /\ l.failedEvents = 0
  /\ q.status = "pending" => l.tries = q.retries /\ l.accepted = 0 /\ ~l.refused
  /\ q.status = "sent" => l.accepted = 1 /\ l.tries = q.retries + 1
  /\ q.status = "failed" => l.accepted = 0 /\ l.tries = q.retries + 1 /\ (l.refused \/ q.retries = MaxRetries)
  /\ q.status # "absent" =>
       /\ l.sentEvents = IF q.status = "sent" THEN 1 ELSE 0
       /\ l.failedEvents = q.retries + IF q.status = "failed" THEN 1 ELSE 0

Counts == \A e \in Emails : Counted(queue[e], log[e])

IInv == TypeOK /\ Locks /\ OneHolder /\ Hands /\ Counts

-----------------------------------------------------------------------------
(* The table is empty and nobody holds anything at the start. *)
LEMMA InitIInv == Init => IInv
<1> SUFFICES ASSUME Init PROVE IInv
  OBVIOUS
<1>1. TypeOK
  BY QueueConstants DEF Init, TypeOK, Row, Task, Log, NoTask, Outcomes
<1>2. Locks /\ OneHolder /\ Hands
  BY DEF Init, Locks, OneHolder, Hands, Handled, Held, NoTask, Unsent, Tried
<1>3. Counts
  BY QueueConstants DEF Init, Counts, Counted
<1>4. QED
  BY <1>1, <1>2, <1>3 DEF IInv

(* Rows that a statement can lock are due, and locked by nobody. *)
LEMMA BatchesAreFree ==
  ASSUME NEW S \in Batches(Claimable) \union Batches(Retryable)
  PROVE  /\ S \subseteq Emails
         /\ \A e \in S : queue[e].status = "pending"
         /\ \A w \in Workers : S \intersect locked[w] = {}
  BY DEF Batches, Claimable, Retryable, DueRows

(* A mail whose row is not 'processing' is in nobody's hands. *)
LEMMA HeldIsProcessing ==
  ASSUME IInv, NEW w \in Workers, NEW e \in Held(w)
  PROVE  e \in Emails /\ queue[e].status = "processing"
  BY DEF IInv, Hands, Handled, Held

-----------------------------------------------------------------------------
LEMMA EnqueueIInv ==
  ASSUME IInv, NEW e \in Emails, Enqueue(e)
  PROVE  IInv'
<1>1. TypeOK'
  BY QueueConstants DEF IInv, TypeOK, Enqueue, Row
<1>2. Locks' /\ OneHolder' /\ Hands'
  BY DEF IInv, TypeOK, Enqueue, Locks, OneHolder, Hands, Handled, Held, Unsent, Tried, Row
<1>3. Counts'
  BY QueueConstants DEF IInv, TypeOK, Enqueue, Counts, Counted
<1>4. QED
  BY <1>1, <1>2, <1>3 DEF IInv

LEMMA ElapseIInv ==
  ASSUME IInv, NEW e \in Emails, Elapse(e)
  PROVE  IInv'
<1>1. TypeOK'
  BY DEF IInv, TypeOK, Elapse, Row
<1>2. Locks' /\ OneHolder' /\ Hands'
  BY DEF IInv, TypeOK, Elapse, Locks, OneHolder, Hands, Handled, Held, Unsent, Tried, Row
<1>3. Counts'
  BY DEF IInv, TypeOK, Elapse, Counts, Counted, Row
<1>4. QED
  BY <1>1, <1>2, <1>3 DEF IInv

LEMMA CleanupIInv ==
  ASSUME IInv, NEW e \in Emails, Cleanup(e)
  PROVE  IInv'
<1>1. TypeOK'
  BY QueueConstants DEF IInv, TypeOK, Cleanup, Row
<1>2. Locks' /\ OneHolder' /\ Hands'
  BY DEF IInv, TypeOK, Cleanup, Locks, OneHolder, Hands, Handled, Held, Unsent, Tried, Row
<1>3. Counts'
  BY DEF IInv, TypeOK, Cleanup, Counts, Counted, Row
<1>4. QED
  BY <1>1, <1>2, <1>3 DEF IInv

LEMMA LockRowsIInv ==
  ASSUME IInv, NEW w \in Workers, LockRows(w)
  PROVE  IInv'
<1> PICK S \in Batches(Claimable) \union Batches(Retryable) : locked' = [locked EXCEPT ![w] = S]
  BY DEF LockRows
<1>1. TypeOK'
  BY BatchesAreFree DEF IInv, TypeOK, LockRows
<1>2. Locks'
  BY BatchesAreFree DEF IInv, TypeOK, Locks, LockRows
<1>3. OneHolder' /\ Hands' /\ Counts'
  BY DEF IInv, OneHolder, Hands, Handled, Held, Unsent, Tried, Counts, Counted, LockRows
<1>4. QED
  BY <1>1, <1>2, <1>3 DEF IInv

(* What the UPDATE of a claim does: rows that w has locked, and of which    *)
(* some (S) come back to it, all become 'processing'.                      *)
LEMMA ClaimedIInv ==
  ASSUME IInv, NEW w \in Workers, NEW S \in SUBSET locked[w], NEW l \in {"polling", "working"},
         queue' = Claimed(locked[w]), task' = Tasks(w, S),
         locked' = [locked EXCEPT ![w] = {}], loop' = [loop EXCEPT ![w] = l], UNCHANGED halts,
         log' = [e \in Emails |-> IF e \in locked[w] \ S THEN [log[e] EXCEPT !.lost = TRUE] ELSE log[e]]
  PROVE  IInv'
<1> DEFINE fresh(e) == [NoTask EXCEPT !.at = "queued", !.retries = queue[e].retries]
<1>1. /\ queue' \in [Emails -> Row]
      /\ \A e \in Emails : /\ queue'[e].retries = queue[e].retries
                           /\ queue'[e].status = IF e \in locked[w] THEN "processing" ELSE queue[e].status
  <2>1. \A e \in Emails : [queue[e] EXCEPT !.status = "processing"] \in Row
    BY DEF IInv, TypeOK, Row
  <2>2. queue' \in [Emails -> Row]
    BY <2>1 DEF IInv, TypeOK, Claimed
  <2>3. QED
    BY <2>2 DEF IInv, TypeOK, Claimed, Row
<1>2. /\ log' \in [Emails -> Log]
      /\ \A e \in Emails : /\ log'[e].tries = log[e].tries /\ log'[e].accepted = log[e].accepted
                           /\ log'[e].refused = log[e].refused
                           /\ log'[e].sentEvents = log[e].sentEvents
                           /\ log'[e].failedEvents = log[e].failedEvents
  BY DEF IInv, TypeOK, Log
<1>3. /\ task' \in [Workers -> [Emails -> Task]]
      /\ \A v \in Workers, e \in Emails : task'[v][e] = IF v = w /\ e \in S THEN fresh(e) ELSE task[v][e]
  <2>1. \A e \in Emails : fresh(e) \in Task
    BY DEF IInv, TypeOK, NoTask, Task, Row, Outcomes
  <2>2. task' \in [Workers -> [Emails -> Task]]
    BY <2>1 DEF IInv, TypeOK, Tasks
  <2>3. QED
    BY <2>2 DEF IInv, TypeOK, Tasks
<1>4. \A e \in Emails : fresh(e).at = "queued" /\ fresh(e).retries = queue[e].retries
  BY DEF NoTask
<1>5. \A e \in locked[w] : /\ e \in Emails /\ queue[e].status = "pending"
                           /\ \A v \in Workers : task[v][e].at = "none"
                           /\ \A v \in Workers \ {w} : e \notin locked[v]
  BY DEF IInv, TypeOK, Locks, Hands, Handled
<1> HIDE DEF fresh
<1>6. TypeOK'
  BY <1>1, <1>2, <1>3 DEF IInv, TypeOK
<1>7. Locks'
  BY <1>1, <1>5 DEF IInv, TypeOK, Locks
<1>8. OneHolder'
  BY <1>3, <1>5 DEF IInv, OneHolder, Held
<1>9. Hands'
  BY <1>1, <1>2, <1>3, <1>4, <1>5 DEF IInv, Hands, Handled, Counts, Counted, Unsent, Tried
<1>10. Counts'
  BY <1>1, <1>2, <1>5 DEF IInv, Counts, Counted
<1>11. QED
  BY <1>6, <1>7, <1>8, <1>9, <1>10 DEF IInv

LEMMA ClaimIInv ==
  ASSUME IInv, NEW w \in Workers, Claim(w)
  PROVE  IInv'
<1>1. log' = [e \in Emails |-> IF e \in locked[w] \ locked[w] THEN [log[e] EXCEPT !.lost = TRUE] ELSE log[e]]
  BY DEF Claim, IInv, TypeOK
<1>2. QED
  BY <1>1, ClaimedIInv DEF Claim

LEMMA ClaimFailsIInv ==
  ASSUME IInv, NEW w \in Workers, ClaimFails(w)
  PROVE  IInv'
<1>1. CASE loop' = [loop EXCEPT ![w] = "polling"] /\ UNCHANGED <<queue, task, log>>
  <2>1. TypeOK'
    BY <1>1 DEF IInv, TypeOK, ClaimFails
  <2>2. Locks' /\ OneHolder' /\ Hands' /\ Counts'
    BY <1>1 DEF IInv, TypeOK, ClaimFails, Locks, OneHolder, Hands, Handled, Held, Unsent, Tried, Counts, Counted
  <2>3. QED
    BY <2>1, <2>2 DEF IInv
<1>2. ASSUME NEW S \in SUBSET locked[w],
             queue' = Claimed(locked[w]), task' = Tasks(w, S),
             loop' = [loop EXCEPT ![w] = IF S = {} THEN "polling" ELSE "working"],
             log' = [e \in Emails |-> IF e \in locked[w] \ S THEN [log[e] EXCEPT !.lost = TRUE] ELSE log[e]]
      PROVE  IInv'
  <2> PICK l \in {"polling", "working"} : loop' = [loop EXCEPT ![w] = l]
    BY <1>2
  <2>1. locked' = [locked EXCEPT ![w] = {}] /\ UNCHANGED halts
    BY DEF ClaimFails
  <2>2. QED
    BY <1>2, <2>1, ClaimedIInv, Zenon
<1>3. QED
  BY <1>1, <1>2 DEF ClaimFails

(* What a step of a goroutine does to it, without the updates of a record  *)
(* inside a function inside a function, which the provers do not take.     *)
LEMMA OneTask ==
  ASSUME IInv, NEW w \in Workers, NEW e \in Emails, NEW t \in Task, task' = [task EXCEPT ![w][e] = t]
  PROVE  /\ task' \in [Workers -> [Emails -> Task]]
         /\ \A v \in Workers, d \in Emails : task'[v][d] = IF v = w /\ d = e THEN t ELSE task[v][d]
  BY DEF IInv, TypeOK

LEMMA BeginTask ==
  ASSUME IInv, NEW w \in Workers, NEW e \in Emails, Begin(w, e)
  PROVE  \E t \in Task :
           /\ task' = [task EXCEPT ![w][e] = t]
           /\ \/ t.at = "open" /\ t.retries = task[w][e].retries /\ UNCHANGED log
              \/ t.at = "none" /\ log' = [log EXCEPT ![e].lost = TRUE]
<1> DEFINE new(t) == [t EXCEPT !.at = "open"]
<1>1. \A t \in Task : new(t) \in Task /\ new(t).at = "open" /\ new(t).retries = t.retries
  BY DEF Task
<1>2. task[w][e] \in Task
  BY DEF IInv, TypeOK
<1>3. NoTask \in Task /\ NoTask.at = "none"
  BY QueueConstants DEF NoTask, Task, Outcomes
<1>4. CASE task' = [task EXCEPT ![w][e].at = "open"] /\ UNCHANGED log
  <2>1. task' = [task EXCEPT ![w][e] = new(task[w][e])]
    BY <1>4
  <2> HIDE DEF new
  <2>2. QED
    BY <1>1, <1>2, <1>4, <2>1, Zenon
<1>5. CASE task' = [task EXCEPT ![w][e] = NoTask] /\ log' = [log EXCEPT ![e].lost = TRUE]
  BY <1>3, <1>5, Zenon
<1>6. QED
  BY <1>4, <1>5 DEF Begin

(* The history of a mail after a Send. *)
Attempted(l, error) ==
  [l EXCEPT !.tries = l.tries + 1,
            !.accepted = IF error = "none" THEN l.accepted + 1 ELSE l.accepted,
            !.refused = l.refused \/ error = "permanent"]

LEMMA AttemptedLog ==
  ASSUME NEW l \in Log, NEW error \in Outcomes
  PROVE  /\ Attempted(l, error) \in Log
         /\ Attempted(l, error).tries = l.tries + 1
         /\ Attempted(l, error).accepted = IF error = "none" THEN l.accepted + 1 ELSE l.accepted
         /\ Attempted(l, error).refused <=> (l.refused \/ error = "permanent")
         /\ Attempted(l, error).sentEvents = l.sentEvents
         /\ Attempted(l, error).failedEvents = l.failedEvents
<1>1. ASSUME NEW n \in Nat, NEW m \in Nat, NEW b \in BOOLEAN
      PROVE  [l EXCEPT !.tries = n, !.accepted = m, !.refused = b] \in Log
  BY DEF Log
<1>2. /\ l.tries + 1 \in Nat /\ (l.refused \/ error = "permanent") \in BOOLEAN
      /\ (IF error = "none" THEN l.accepted + 1 ELSE l.accepted) \in Nat
  BY DEF Log
<1>3. Attempted(l, error) \in Log
  BY <1>1, <1>2 DEF Attempted
<1>4. Attempted(l, error).refused <=> (l.refused \/ error = "permanent")
  BY DEF Log, Attempted
<1>5. QED
  BY <1>3, <1>4 DEF Log, Attempted

LEMMA SendTask ==
  ASSUME IInv, NEW w \in Workers, NEW e \in Emails, Send(w, e)
  PROVE  \E error \in Outcomes, t \in Task :
           /\ task' = [task EXCEPT ![w][e] = t]
           /\ t.at = "mark" /\ t.retries = task[w][e].retries /\ t.error = error
           /\ log' = [log EXCEPT ![e] = Attempted(log[e], error)]
<1> PICK error \in Outcomes :
       /\ task' = [task EXCEPT ![w][e].at = "mark", ![w][e].error = error]
       /\ log' = [log EXCEPT ![e].tries = @ + 1,
                             ![e].accepted = IF error = "none" THEN @ + 1 ELSE @,
                             ![e].refused = @ \/ error = "permanent"]
  BY DEF Send
<1> DEFINE new(t) == [t EXCEPT !.at = "mark", !.error = error]
<1>1. \A t \in Task : new(t) \in Task /\ new(t).at = "mark" /\ new(t).retries = t.retries /\ new(t).error = error
  BY DEF Task
<1>2. task[w][e] \in Task
  BY DEF IInv, TypeOK
<1>3. task' = [task EXCEPT ![w][e] = new(task[w][e])]
  BY DEF IInv, TypeOK
<1>4. log' = [log EXCEPT ![e] = Attempted(log[e], error)]
  BY DEF IInv, TypeOK, Attempted
<1> HIDE DEF new
<1>5. QED
  BY <1>1, <1>2, <1>3, <1>4, Zenon

LEMMA MoveOnTask ==
  ASSUME IInv, NEW w \in Workers, NEW e \in Emails, Mark(w, e) \/ Publish(w, e)
  PROVE  \E t \in Task : /\ task' = [task EXCEPT ![w][e] = t]
                         /\ t.at \in {"publish", "commit"}
                         /\ t.retries = task[w][e].retries /\ t.error = task[w][e].error
<1> PICK l \in {"publish", "commit"} :
       task' \in {[task EXCEPT ![w][e].at = l], [task EXCEPT ![w][e].at = l, ![w][e].doomed = TRUE]}
  BY DEF Mark, Publish
<1> DEFINE kept(t)  == [t EXCEPT !.at = l]
           spoilt(t) == [t EXCEPT !.at = l, !.doomed = TRUE]
<1>1. \A t \in Task : /\ kept(t) \in Task /\ kept(t).at = l
                      /\ kept(t).retries = t.retries /\ kept(t).error = t.error
                      /\ spoilt(t) \in Task /\ spoilt(t).at = l
                      /\ spoilt(t).retries = t.retries /\ spoilt(t).error = t.error
  BY DEF Task
<1>2. task[w][e] \in Task
  BY DEF IInv, TypeOK
<1>3. \/ task' = [task EXCEPT ![w][e] = kept(task[w][e])]
      \/ task' = [task EXCEPT ![w][e] = spoilt(task[w][e])]
  OBVIOUS
<1> HIDE DEF kept, spoilt
<1>4. QED
  BY <1>1, <1>2, <1>3, Zenon

(* A mark in the history changes nothing that is counted. *)
LEMMA LostCountsSame ==
  ASSUME IInv, NEW S \in SUBSET Emails,
         log' = [e \in Emails |-> IF e \in S THEN [log[e] EXCEPT !.lost = TRUE] ELSE log[e]]
  PROVE  /\ log' \in [Emails -> Log]
         /\ \A d \in Emails : /\ log'[d].tries = log[d].tries /\ log'[d].accepted = log[d].accepted
                              /\ log'[d].refused = log[d].refused
                              /\ log'[d].sentEvents = log[d].sentEvents
                              /\ log'[d].failedEvents = log[d].failedEvents
  BY DEF IInv, TypeOK, Log

LEMMA LostOneSame ==
  ASSUME IInv, NEW e \in Emails, log' = [log EXCEPT ![e].lost = TRUE]
  PROVE  /\ log' \in [Emails -> Log]
         /\ \A d \in Emails : /\ log'[d].tries = log[d].tries /\ log'[d].accepted = log[d].accepted
                              /\ log'[d].refused = log[d].refused
                              /\ log'[d].sentEvents = log[d].sentEvents
                              /\ log'[d].failedEvents = log[d].failedEvents
  BY DEF IInv, TypeOK, Log

-----------------------------------------------------------------------------
LEMMA BeginIInv ==
  ASSUME IInv, NEW w \in Workers, NEW e \in Emails, Begin(w, e)
  PROVE  IInv'
<1> PICK t \in Task :
       /\ task' = [task EXCEPT ![w][e] = t]
       /\ \/ t.at = "open" /\ t.retries = task[w][e].retries /\ UNCHANGED log
          \/ t.at = "none" /\ log' = [log EXCEPT ![e].lost = TRUE]
  BY BeginTask
<1>1. /\ task' \in [Workers -> [Emails -> Task]]
      /\ \A v \in Workers, d \in Emails : task'[v][d] = IF v = w /\ d = e THEN t ELSE task[v][d]
  BY OneTask, Zenon
<1>2. /\ log' \in [Emails -> Log]
      /\ \A d \in Emails : /\ log'[d].tries = log[d].tries /\ log'[d].accepted = log[d].accepted
                           /\ log'[d].refused = log[d].refused
                           /\ log'[d].sentEvents = log[d].sentEvents
                           /\ log'[d].failedEvents = log[d].failedEvents
  BY LostOneSame DEF IInv, TypeOK
<1>3. TypeOK'
  BY <1>1, <1>2 DEF IInv, TypeOK, Begin
<1>4. Locks' /\ Counts'
  BY <1>2 DEF IInv, Begin, Locks, Counts, Counted
<1>5. OneHolder'
  BY <1>1 DEF IInv, Begin, OneHolder, Held
<1>6. Hands'
  BY <1>1, <1>2 DEF IInv, Begin, Hands, Handled, Unsent, Tried
<1>7. QED
  BY <1>3, <1>4, <1>5, <1>6 DEF IInv

LEMMA SendIInv ==
  ASSUME IInv, NEW w \in Workers, NEW e \in Emails, Send(w, e)
  PROVE  IInv'
<1> PICK error \in Outcomes, t \in Task :
       /\ task' = [task EXCEPT ![w][e] = t]
       /\ t.at = "mark" /\ t.retries = task[w][e].retries /\ t.error = error
       /\ log' = [log EXCEPT ![e] = Attempted(log[e], error)]
  BY SendTask, Zenon
<1>1. /\ task' \in [Workers -> [Emails -> Task]]
      /\ \A v \in Workers, d \in Emails : task'[v][d] = IF v = w /\ d = e THEN t ELSE task[v][d]
  BY OneTask, Zenon
<1>2. /\ log[e].tries = queue[e].retries /\ log[e].accepted = 0 /\ ~log[e].refused
      /\ queue[e].status = "processing" /\ queue[e].retries \in 0..MaxRetries
  BY DEF IInv, TypeOK, Send, Hands, Handled, Unsent, Row
<1>3. /\ log' \in [Emails -> Log]
      /\ log'[e].tries = log[e].tries + 1
      /\ log'[e].accepted = IF error = "none" THEN 1 ELSE 0
      /\ log'[e].refused <=> error = "permanent"
      /\ log'[e].sentEvents = log[e].sentEvents
      /\ log'[e].failedEvents = log[e].failedEvents
      /\ \A d \in Emails \ {e} : log'[d] = log[d]
  <2>1. log[e] \in Log /\ log'[e] = Attempted(log[e], error)
    BY DEF IInv, TypeOK
  <2>2. log' \in [Emails -> Log]
    BY <2>1, AttemptedLog DEF IInv, TypeOK
  <2>3. QED
    BY <1>2, <2>1, <2>2, AttemptedLog DEF IInv, TypeOK
<1>4. TypeOK'
  BY <1>1, <1>3 DEF IInv, TypeOK, Send
<1>5. Locks'
  BY DEF IInv, Send, Locks
<1>6. OneHolder'
  BY <1>1 DEF IInv, Send, OneHolder, Held
<1>7. \A v \in Workers : v # w => task[v][e].at = "none"
  BY DEF IInv, OneHolder, Held, Send
<1>8. Hands'
  <2>1. UNCHANGED queue
    BY DEF Send
  <2>2. Handled(t, queue[e], log'[e])
    BY <1>2, <1>3 DEF IInv, Send, Hands, Handled, Unsent, Tried
  <2>3. \A v \in Workers : v # w => Handled(task[v][e], queue[e], log'[e])
    BY <1>7 DEF Handled, Unsent, Tried
  <2>4. QED
    BY <1>1, <1>3, <2>1, <2>2, <2>3 DEF IInv, Hands
<1>9. Counts'
  <2>1. UNCHANGED queue
    BY DEF Send
  <2>2. Counted(queue[e], log[e])
    BY DEF IInv, Counts
  <2>3. Counted(queue[e], log'[e])
    BY <1>2, <1>3, <2>2, QueueConstants DEF Counted
  <2>4. QED
    BY <1>3, <2>1, <2>3 DEF IInv, Counts
<1>10. QED
  BY <1>4, <1>5, <1>6, <1>8, <1>9 DEF IInv

(* The steps between the mail and the commit only move the goroutine on. *)
LEMMA MoveOnIInv ==
  ASSUME IInv, NEW w \in Workers, NEW e \in Emails, Mark(w, e) \/ Publish(w, e)
  PROVE  IInv'
<1> PICK t \in Task : /\ task' = [task EXCEPT ![w][e] = t]
                      /\ t.at \in {"publish", "commit"}
                      /\ t.retries = task[w][e].retries /\ t.error = task[w][e].error
  BY MoveOnTask, Zenon
<1>1. /\ task' \in [Workers -> [Emails -> Task]]
      /\ \A v \in Workers, d \in Emails : task'[v][d] = IF v = w /\ d = e THEN t ELSE task[v][d]
  BY OneTask, Zenon
<1>2. Tried(task[w][e]) /\ UNCHANGED <<queue, loop, locked, halts, log>>
  BY DEF Mark, Publish, Tried
<1>3. TypeOK'
  BY <1>1, <1>2 DEF IInv, TypeOK
<1>4. Locks' /\ Counts'
  BY <1>2 DEF IInv, Locks, Counts, Counted
<1>5. OneHolder'
  BY <1>1, <1>2 DEF IInv, OneHolder, Held, Tried
<1>6. Hands'
  BY <1>1, <1>2 DEF IInv, Hands, Handled, Unsent, Tried
<1>7. QED
  BY <1>3, <1>4, <1>5, <1>6 DEF IInv

(* What Settled makes of a row that is being processed. *)
LEMMA SettledRow ==
  ASSUME NEW t \in Task, NEW r \in Row, r.status = "processing", t.retries = r.retries
  PROVE  /\ Settled(t, r) \in Row
         /\ t.error = "none" => Settled(t, r).status = "sent" /\ Settled(t, r).retries = r.retries
         /\ t.error # "none" =>
              \/ /\ Settled(t, r).status = "pending" /\ Settled(t, r).retries = r.retries + 1
                 /\ t.error # "permanent" /\ r.retries < MaxRetries
              \/ /\ Settled(t, r).status = "failed" /\ Settled(t, r).retries = r.retries
                 /\ t.error = "permanent" \/ r.retries = MaxRetries
<1>1. CASE t.error = "none"
  BY <1>1 DEF Settled, Row
<1>2. CASE t.error # "none" /\ ShouldRetry(t, r)
  BY <1>2, QueueConstants DEF Settled, Row, ShouldRetry
<1>3. CASE t.error # "none" /\ ~ShouldRetry(t, r)
  BY <1>3, QueueConstants DEF Settled, Row, ShouldRetry
<1>4. QED
  BY <1>1, <1>2, <1>3

LEMMA SettledCounts ==
  ASSUME NEW t \in Task, NEW r \in Row, r.status = "processing", t.retries = r.retries, Tried(t),
         NEW l \in Log, Handled(t, r, l), Counted(r, l),
         NEW m \in Log, m.tries = l.tries, m.accepted = l.accepted, m.refused = l.refused,
         m.sentEvents = IF t.error = "none" THEN 1 ELSE 0,
         m.failedEvents = r.retries + IF t.error = "none" THEN 0 ELSE 1
  PROVE  Counted(Settled(t, r), m)
<1>1. r.retries \in 0..MaxRetries /\ l.tries = r.retries + 1
  BY DEF Row, Handled
<1>2. CASE t.error = "none"
  BY <1>1, <1>2, SettledRow DEF Counted, Handled
<1>3. CASE t.error # "none" /\ Settled(t, r).status = "pending"
  BY <1>1, <1>3, SettledRow, QueueConstants DEF Counted, Handled
<1>4. CASE t.error # "none" /\ Settled(t, r).status = "failed"
  BY <1>1, <1>4, SettledRow, QueueConstants DEF Counted, Handled
<1>5. QED
  BY <1>2, <1>3, <1>4, SettledRow

LEMMA CommitIInv ==
  ASSUME IInv, NEW w \in Workers, NEW e \in Emails, Commit(w, e)
  PROVE  IInv'
<1> DEFINE t == task[w][e]
           r == queue[e]
<1>1. /\ task' \in [Workers -> [Emails -> Task]]
      /\ \A v \in Workers, d \in Emails : task'[v][d] = IF v = w /\ d = e THEN NoTask ELSE task[v][d]
  <2>1. task' = [task EXCEPT ![w][e] = NoTask]
    BY DEF Commit
  <2>2. NoTask \in Task
    BY QueueConstants DEF NoTask, Task, Outcomes
  <2>3. QED
    BY <2>1, <2>2, OneTask, Zenon
<1>2. /\ t \in Task /\ r \in Row /\ r.status = "processing" /\ t.retries = r.retries /\ Tried(t)
      /\ log[e].tries = r.retries + 1 /\ log[e].accepted = (IF t.error = "none" THEN 1 ELSE 0)
      /\ log[e].refused <=> t.error = "permanent"
      /\ log[e].sentEvents = 0 /\ log[e].failedEvents = r.retries /\ r.retries \in 0..MaxRetries
  <2>1. t \in Task /\ r \in Row
    BY DEF IInv, TypeOK
  <2>2. Counted(r, log[e]) /\ t.at = "commit"
    BY DEF IInv, Counts, Commit
  <2>3. QED
    BY <2>1, <2>2 DEF IInv, Hands, Handled, Tried, Counted, Row
<1>3. \A v \in Workers : v # w => task[v][e].at = "none"
  BY <1>2 DEF IInv, OneHolder, Held, Tried
<1>4. NoTask.at = "none"
  BY DEF NoTask
<1>5. UNCHANGED <<loop, locked, halts>>
  BY DEF Commit
<1>6. OneHolder'
  BY <1>1, <1>4 DEF IInv, OneHolder, Held
<1>7. CASE UNCHANGED queue /\ log' = [log EXCEPT ![e].lost = TRUE]
  <2>1. /\ log' \in [Emails -> Log]
        /\ \A d \in Emails : /\ log'[d].tries = log[d].tries /\ log'[d].accepted = log[d].accepted
                             /\ log'[d].refused = log[d].refused
                             /\ log'[d].sentEvents = log[d].sentEvents
                             /\ log'[d].failedEvents = log[d].failedEvents
    BY <1>7, LostOneSame, Zenon
  <2>2. TypeOK'
    BY <1>1, <1>5, <1>7, <2>1 DEF IInv, TypeOK
  <2>3. Locks' /\ Counts'
    BY <1>5, <1>7, <2>1 DEF IInv, Locks, Counts, Counted
  <2>4. Hands'
    BY <1>1, <1>4, <1>7, <2>1 DEF IInv, Hands, Handled, Unsent, Tried
  <2>5. QED
    BY <1>6, <2>2, <2>3, <2>4 DEF IInv
<1>8. CASE /\ queue' = [queue EXCEPT ![e] = Settled(t, r)]
           /\ log' = IF t.error = "none" THEN [log EXCEPT ![e].sentEvents = @ + 1]
                     ELSE [log EXCEPT ![e].failedEvents = @ + 1]
  <2>1. /\ queue' \in [Emails -> Row] /\ queue'[e] = Settled(t, r)
        /\ \A d \in Emails \ {e} : queue'[d] = queue[d]
    BY <1>2, <1>8, SettledRow DEF IInv, TypeOK
  <2>2. /\ log' \in [Emails -> Log]
        /\ log'[e].tries = log[e].tries /\ log'[e].accepted = log[e].accepted
        /\ log'[e].refused = log[e].refused
        /\ log'[e].sentEvents = (IF t.error = "none" THEN 1 ELSE 0)
        /\ log'[e].failedEvents = r.retries + (IF t.error = "none" THEN 0 ELSE 1)
        /\ \A d \in Emails \ {e} : log'[d] = log[d]
    <3>1. CASE t.error = "none" /\ log' = [log EXCEPT ![e].sentEvents = @ + 1]
      BY <1>2, <3>1 DEF IInv, TypeOK, Log
    <3>2. CASE t.error # "none" /\ log' = [log EXCEPT ![e].failedEvents = @ + 1]
      BY <1>2, <3>2 DEF IInv, TypeOK, Log
    <3>3. QED
      BY <1>8, <3>1, <3>2
  <2>3. TypeOK'
    BY <1>1, <1>5, <2>1, <2>2 DEF IInv, TypeOK
  <2>4. Locks'
    <3>1. \A v \in Workers : e \notin locked[v]
      BY <1>2 DEF IInv, Locks
    <3>2. QED
      BY <1>5, <2>1, <3>1 DEF IInv, TypeOK, Locks
  <2>5. Hands'
    BY <1>1, <1>3, <1>4, <2>1, <2>2 DEF IInv, Hands, Handled, Unsent, Tried
  <2>6. Counted(queue'[e], log'[e])
    <3>1. Handled(t, r, log[e]) /\ Counted(r, log[e]) /\ log[e] \in Log /\ log'[e] \in Log
      BY <2>2 DEF IInv, TypeOK, Hands, Counts
    <3> HIDE DEF t, r
    <3>2. QED
      BY <1>2, <2>1, <2>2, <3>1, SettledCounts
  <2>7. Counts'
    BY <2>1, <2>2, <2>6 DEF IInv, Counts
  <2>8. QED
    BY <1>6, <2>3, <2>4, <2>5, <2>7 DEF IInv
<1>9. QED
  BY <1>7, <1>8 DEF Commit

LEMMA HaltIInv ==
  ASSUME IInv, NEW w \in Workers, Halt(w)
  PROVE  IInv'
<1>1. log' = [e \in Emails |-> IF e \in Held(w) THEN [log[e] EXCEPT !.lost = TRUE] ELSE log[e]]
  BY DEF Halt
<1>2. /\ log' \in [Emails -> Log]
      /\ \A d \in Emails : /\ log'[d].tries = log[d].tries /\ log'[d].accepted = log[d].accepted
                           /\ log'[d].refused = log[d].refused
                           /\ log'[d].sentEvents = log[d].sentEvents
                           /\ log'[d].failedEvents = log[d].failedEvents
  <2>1. Held(w) \in SUBSET Emails
    BY DEF Held
  <2>2. QED
    BY <1>1, <2>1, LostCountsSame, Zenon
<1>3. /\ task' \in [Workers -> [Emails -> Task]]
      /\ \A v \in Workers, d \in Emails : task'[v][d] = IF v = w THEN NoTask ELSE task[v][d]
  <2>1. NoTask \in Task
    BY QueueConstants DEF NoTask, Task, Outcomes
  <2>2. QED
    BY <2>1 DEF IInv, TypeOK, Halt
<1>4. NoTask.at = "none"
  BY DEF NoTask
<1>5. TypeOK'
  BY <1>2, <1>3, QueueConstants DEF IInv, TypeOK, Halt
<1>6. Locks'
  BY DEF IInv, TypeOK, Locks, Halt
<1>7. OneHolder'
  BY <1>3, <1>4 DEF IInv, OneHolder, Held
<1>8. Hands'
  BY <1>2, <1>3, <1>4 DEF IInv, Hands, Handled, Unsent, Tried, Halt
<1>9. Counts'
  BY <1>2 DEF IInv, Counts, Counted, Halt
<1>10. QED
  BY <1>5, <1>6, <1>7, <1>8, <1>9 DEF IInv

(* Steps of the loop of a worker that touch neither rows nor mails. *)
LEMMA LoopIInv ==
  ASSUME IInv, NEW w \in Workers, EndBatch(w) \/ Restart(w)
  PROVE  IInv'
<1>1. TypeOK'
  BY DEF IInv, TypeOK, EndBatch, Restart
<1>2. Locks' /\ OneHolder' /\ Hands' /\ Counts'
  BY DEF IInv, EndBatch, Restart, Locks, OneHolder, Hands, Handled, Held, Unsent, Tried, Counts, Counted
<1>3. QED
  BY <1>1, <1>2 DEF IInv

LEMMA StutterIInv ==
  ASSUME IInv, UNCHANGED vars
  PROVE  IInv'
  BY DEF IInv, vars, TypeOK, Locks, OneHolder, Hands, Handled, Held, Unsent, Tried, Counts, Counted

-----------------------------------------------------------------------------
(* The invariant holds whatever workers, their halts and time do. *)
THEOREM Invariance == Spec => []IInv
<1>1. Init => IInv
  BY InitIInv
<1>2. IInv /\ [Next]_vars => IInv'
  <2> SUFFICES ASSUME IInv, [Next]_vars PROVE IInv'
    OBVIOUS
  <2>1. ASSUME NEW e \in Emails, Enqueue(e) \/ Elapse(e) \/ Cleanup(e) PROVE IInv'
    BY <2>1, EnqueueIInv, ElapseIInv, CleanupIInv
  <2>2. ASSUME NEW w \in Workers, Poll(w) \/ ClaimFails(w) \/ Halt(w) \/ Restart(w) PROVE IInv'
    BY <2>2, LockRowsIInv, ClaimIInv, ClaimFailsIInv, LoopIInv, HaltIInv DEF Poll
  <2>3. ASSUME NEW w \in Workers, NEW e \in Emails, Process(w, e) PROVE IInv'
    BY <2>3, BeginIInv, SendIInv, MoveOnIInv, CommitIInv DEF Process
  <2>4. QED
    BY <2>1, <2>2, <2>3, StutterIInv DEF Next
<1>3. QED
  BY <1>1, <1>2, PTL DEF Spec

(* Every variable keeps its type: no row is retried beyond max_retries. *)
THEOREM TypeCorrect == Spec => []TypeOK
<1>1. IInv => TypeOK
  BY DEF IInv
<1>2. QED
  BY <1>1, Invariance, PTL

(* However many workers poll, stop and start again, a mail is in the hands *)
(* of one of them at most.                                                 *)
THEOREM MailsHaveOneHolder == Spec => []OneHolder
<1>1. IInv => OneHolder
  BY DEF IInv
<1>2. QED
  BY <1>1, Invariance, PTL

(* "the email won't be resent" *)
THEOREM AcceptedMailsRest == Spec => []NeverResent
<1>1. IInv => NeverResent
  BY DEF IInv, NeverResent, Counts, Counted, Hands, Handled, Unsent
<1>2. QED
  BY <1>1, Invariance, PTL

(* A row says 'sent' only of a mail that was taken, 'failed' only of one   *)
(* that was not.                                                           *)
THEOREM RowsTellTheTruth == Spec => []StatusTruthful
<1>1. IInv => StatusTruthful
  BY DEF IInv, StatusTruthful, Counts, Counted
<1>2. QED
  BY <1>1, Invariance, PTL

(* The limits in Go and in SQL agree: 1 + max_retries tries, and no fewer  *)
(* unless the server refused the mail for good.                            *)
THEOREM RetriesAreUsedUp == Spec => []TriesBeforeFailing
<1>1. IInv => TriesBeforeFailing
  BY DEF IInv, TriesBeforeFailing, Counts, Counted
<1>2. QED
  BY <1>1, Invariance, PTL

(* Each row has had the events that its status and its retries tell of. *)
THEOREM EventsAreExact == Spec => []EventsMatchRows
<1>1. IInv => EventsMatchRows
  BY DEF IInv, EventsMatchRows, Counts, Counted
<1>2. QED
  BY <1>1, Invariance, PTL

-----------------------------------------------------------------------------
(* What a step can do to the rows, as far as the abstract queue sees them. *)
Status(e)  == AbstractState(queue[e].status)
Retries(e) == queue[e].retries

(* The rows in S change their status from a to b. *)
Moved(S, a, b) ==
  /\ \A e \in S : e \in Emails /\ Status(e) = a /\ Status(e)' = b
  /\ \A e \in Emails \ S : Status(e)' = Status(e)

RowsSame(S) == \A e \in Emails \ S : Retries(e)' = Retries(e)

LEMMA RowSteps ==
  ASSUME IInv, [Next]_vars
  PROVE  \/ Moved({}, "absent", "absent") /\ RowsSame({})
         \/ \E e \in Emails : Moved({e}, "absent", "pending") /\ RowsSame({})
         \/ \E S \in SUBSET Emails : Moved(S, "pending", "processing") /\ RowsSame({})
         \/ \E e \in Emails : /\ Moved({e}, "processing", "pending") /\ RowsSame({e})
                              /\ Retries(e) < MaxRetries /\ Retries(e)' = Retries(e) + 1
         \/ \E e \in Emails, s \in {"done", "failed"} : Moved({e}, "processing", s) /\ RowsSame({})
         \/ \E e \in Emails, s \in {"done", "failed"} :
              Moved({e}, s, "absent") /\ RowsSame({e}) /\ Retries(e)' = 0
<1> USE DEF Moved, RowsSame, Status, Retries, AbstractState
<1>1. ASSUME UNCHANGED queue
      PROVE  Moved({}, "absent", "absent") /\ RowsSame({})
  BY <1>1
<1>2. ASSUME NEW e \in Emails, Enqueue(e)
      PROVE  Moved({e}, "absent", "pending") /\ RowsSame({})
  BY <1>2 DEF Enqueue, IInv, TypeOK, Counts, Counted
<1>3. ASSUME NEW e \in Emails, Elapse(e)
      PROVE  Moved({}, "absent", "absent") /\ RowsSame({})
  BY <1>3 DEF Elapse, IInv, TypeOK, Row
<1>4. ASSUME NEW e \in Emails, Cleanup(e)
      PROVE  \E s \in {"done", "failed"} : Moved({e}, s, "absent") /\ RowsSame({e}) /\ Retries(e)' = 0
  BY <1>4 DEF Cleanup, IInv, TypeOK
<1>5. ASSUME NEW w \in Workers, queue' = Claimed(locked[w])
      PROVE  \E S \in SUBSET Emails : Moved(S, "pending", "processing") /\ RowsSame({})
  <2>1. locked[w] \in SUBSET Emails
    BY DEF IInv, TypeOK
  <2>2. \A e \in Emails : queue'[e] = IF e \in locked[w] THEN [queue[e] EXCEPT !.status = "processing"] ELSE queue[e]
    BY <1>5 DEF Claimed
  <2>3. Moved(locked[w], "pending", "processing") /\ RowsSame({})
    BY <2>1, <2>2 DEF IInv, TypeOK, Row, Locks
  <2>4. QED
    BY <2>1, <2>3
<1>6. ASSUME NEW w \in Workers, NEW e \in Emails, Commit(w, e), queue' # queue
      PROVE  \/ /\ Moved({e}, "processing", "pending") /\ RowsSame({e})
                /\ Retries(e) < MaxRetries /\ Retries(e)' = Retries(e) + 1
             \/ \E s \in {"done", "failed"} : Moved({e}, "processing", s) /\ RowsSame({})
  <2> DEFINE t == task[w][e]
             r == queue[e]
  <2>1. t \in Task /\ r \in Row /\ r.status = "processing" /\ t.retries = r.retries
    BY <1>6 DEF IInv, TypeOK, Hands, Handled, Commit
  <2>2. queue'[e] = Settled(t, r) /\ \A d \in Emails \ {e} : queue'[d] = queue[d]
    BY <1>6 DEF IInv, TypeOK, Commit
  <2> HIDE DEF t
  <2>3. QED
    BY <2>1, <2>2, SettledRow
<1>7. ASSUME NEW w \in Workers, Poll(w) \/ ClaimFails(w) \/ Halt(w) \/ Restart(w)
      PROVE  UNCHANGED queue \/ queue' = Claimed(locked[w])
  BY <1>7 DEF Poll, LockRows, Claim, EndBatch, ClaimFails, Halt, Restart
<1>8. ASSUME NEW w \in Workers, NEW e \in Emails, Process(w, e)
      PROVE  UNCHANGED queue \/ Commit(w, e)
  BY <1>8 DEF Process, Begin, Send, Mark, Publish
<1>9. CASE UNCHANGED vars
  BY <1>1, <1>9 DEF vars
<1> USE DEF Next
<1> HIDE DEF Moved, RowsSame, Status, Retries, AbstractState
<1>10. QED
  BY <1>1, <1>2, <1>3, <1>4, <1>5, <1>6, <1>7, <1>8, <1>9, Zenon

(* The table is a queue with bounded retries: every step of a worker, a    *)
(* request or the clean-up takes one step of the abstract queue or none.   *)
THEOREM RefinesWorkQueue == Spec => ImplementsWorkQueue
<1> DEFINE state   == [e \in Emails |-> AbstractState(queue[e].status)]
           retries == [e \in Emails |-> queue[e].retries]
<1>1. Init => Abstract!Init
  BY DEF Init, Abstract!Init, AbstractState
<1>2. IInv /\ [Next]_vars => [Abstract!Next]_<<state, retries>>
  <2> SUFFICES ASSUME IInv, [Next]_vars
               PROVE  Abstract!Next \/ (state' = state /\ retries' = retries)
    OBVIOUS
  <2> USE DEF Moved, RowsSame, Status, Retries
  <2>1. CASE Moved({}, "absent", "absent") /\ RowsSame({})
    BY <2>1
  <2>2. ASSUME NEW e \in Emails, Moved({e}, "absent", "pending"), RowsSame({})
        PROVE  Abstract!Submit
    <3>1. \A d \in {e} : state[d] = "absent"
      BY <2>2
    <3>2. state' = [d \in Emails |-> IF d \in {e} THEN "pending" ELSE state[d]] /\ retries' = retries
      BY <2>2
    <3>3. {e} \in SUBSET Emails
      OBVIOUS
    <3> QED
      BY <3>1, <3>2, <3>3 DEF Abstract!Submit
  <2>3. ASSUME NEW S \in SUBSET Emails, Moved(S, "pending", "processing"), RowsSame({})
        PROVE  Abstract!Take
    <3>1. \A d \in S : state[d] = "pending"
      BY <2>3
    <3>2. state' = [d \in Emails |-> IF d \in S THEN "processing" ELSE state[d]] /\ retries' = retries
      BY <2>3
    <3> QED
      BY <3>1, <3>2 DEF Abstract!Take
  <2>4. ASSUME NEW e \in Emails, Moved({e}, "processing", "pending"), RowsSame({e}),
               Retries(e) < MaxRetries, Retries(e)' = Retries(e) + 1
        PROVE  Abstract!Retry(e)
    <3>1. state[e] = "processing" /\ retries[e] < MaxRetries
      BY <2>4
    <3>2. state' = [state EXCEPT ![e] = "pending"] /\ retries' = [retries EXCEPT ![e] = retries[e] + 1]
      BY <2>4
    <3> QED
      BY <3>1, <3>2 DEF Abstract!Retry
  <2>5. ASSUME NEW e \in Emails, NEW s \in {"done", "failed"}, Moved({e}, "processing", s), RowsSame({})
        PROVE  Abstract!End(e)
    <3>1. state[e] = "processing"
      BY <2>5
    <3>2. state' = [state EXCEPT ![e] = s] /\ retries' = retries
      BY <2>5
    <3> QED
      BY <3>1, <3>2 DEF Abstract!End
  <2>6. ASSUME NEW e \in Emails, NEW s \in {"done", "failed"}, Moved({e}, s, "absent"), RowsSame({e}),
               Retries(e)' = 0
        PROVE  Abstract!Remove
    <3>1. /\ state' = [d \in Emails |-> IF d \in {e} THEN "absent" ELSE state[d]]
          /\ retries' = [d \in Emails |-> IF d \in {e} THEN 0 ELSE retries[d]]
      BY <2>6
    <3>2. {e} \in SUBSET Emails
      OBVIOUS
    <3> QED
      BY <3>1, <3>2 DEF Abstract!Remove
  <2> HIDE DEF Moved, RowsSame, Status, Retries, state, retries
  <2>7. QED
    BY <2>1, <2>2, <2>3, <2>4, <2>5, <2>6, RowSteps DEF Abstract!Next
<1>3. QED
  BY <1>1, <1>2, Invariance, PTL DEF Spec, Abstract!Spec, ImplementsWorkQueue
=============================================================================
