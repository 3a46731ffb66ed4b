------------------------- MODULE WebhookQueueProofs -------------------------
(***************************************************************************)
(* Proofs about WebhookQueue, for any events, webhooks, batches and number *)
(* of retries.  The safety properties follow from one inductive invariant, *)
(* IInv, which adds to them                                                *)
(*   - that a transaction which no failed statement has doomed has queued  *)
(*     all webhooks of its list but those still to come, and keeps those   *)
(*     it has queued from being deleted,                                   *)
(*   - that there are rows, goroutines and posts of committed events only, *)
(*   - that the row a goroutine works on is 'processing' with the count of *)
(*     retries it was claimed with, or was deleted with its webhook,       *)
(*   - how often a delivery has been posted, from its row and goroutine.   *)
(***************************************************************************)
EXTENDS WebhookQueue, TLAPS

Committed(d) == pub[d[1]].at = "committed"

Publishing ==
  \A v \in Events :
    /\ pub[v].at = "idle" => pub[v].listed = {} /\ pub[v].queued = {} /\ pub[v].left = {} /\ ~pub[v].doomed
    /\ pub[v].at = "queueing" /\ ~pub[v].doomed =>
         /\ pub[v].listed \subseteq pub[v].queued \union pub[v].left
         /\ \A h \in pub[v].queued : hook[h] # "deleted"
    /\ pub[v].at = "committed" => pub[v].listed \subseteq pub[v].queued

(* What a goroutine (t) says of its row (q) and of the history (l). *)
Handled(t, q, l) ==
  /\ t.at # "none" => q.status = "absent" \/ (q.status = "processing" /\ t.retries = q.retries)
  /\ t.at = "open" => l.posts = t.retries /\ l.accepted = 0
  /\ t.at = "mark" => l.posts = t.retries + 1 /\ l.accepted = IF t.ok THEN 1 ELSE 0

(* What the row of a delivery (q) says of its history (l). *)
Counted(q, l) ==
  /\ l.accepted <= 1 /\ l.accepted <= l.posts /\ l.posts <= MaxRetries + 1
  /\ q.status = "absent" => q.retries = 0
  /\ q.status = "pending" => l.posts = q.retries /\ l.accepted = 0
  /\ q.status = "delivered" => l.accepted = 1 /\ l.posts > 0
  /\ q.status = "failed" => l.accepted = 0 /\ l.posts > 0

Delivering ==
  \A d \in Deliveries :
    /\ Handled(task[d], rows[d], log[d])
    /\ Counted(rows[d], log[d])
    /\ rows[d].status # "absent" => Committed(d) /\ hook[d[2]] # "deleted"
    /\ task[d].at # "none" => Committed(d)
    /\ log[d].posts > 0 => Committed(d)
    /\ Committed(d) /\ d[2] \in pub[d[1]].queued =>
         hook[d[2]] = "deleted" \/ rows[d].status # "absent" \/ log[d].posts > 0

IInv == TypeOK /\ Publishing /\ Delivering

-----------------------------------------------------------------------------
LEMMA PairParts ==
  /\ \A d \in Deliveries : d[1] \in Events /\ d[2] \in Hooks
  /\ \A v \in Events, h \in Hooks : <<v, h>> \in Deliveries /\ <<v, h>>[1] = v /\ <<v, h>>[2] = h
  BY DEF Deliveries

LEMMA FreshRecords ==
  /\ NoRow \in Row /\ NoRow.status = "absent" /\ NoRow.retries = 0
  /\ NewRow \in Row /\ NewRow.status = "pending" /\ NewRow.retries = 0
  /\ NoTask \in Task /\ NoTask.at = "none"
  BY WebhookConstants DEF NoRow, NewRow, NoTask, Row, Task

(* No webhook, no event and no delivery at the start. *)
LEMMA InitIInv == Init => IInv
<1> SUFFICES ASSUME Init PROVE IInv
  OBVIOUS
<1>1. TypeOK
  BY WebhookConstants, FreshRecords DEF Init, TypeOK, Pub, Log
<1>2. Publishing
  BY DEF Init, Publishing
<1>3. Delivering
  BY FreshRecords, PairParts, WebhookConstants DEF Init, Delivering, Handled, Counted, Committed
<1>4. QED
  BY <1>1, <1>2, <1>3 DEF IInv

-----------------------------------------------------------------------------
(* A webhook appears, or is switched on or off: none becomes deleted. *)
LEMMA HookIInv ==
  ASSUME IInv, NEW h \in Hooks, CreateHook(h) \/ SetActive(h)
  PROVE  IInv'
<1>1. UNCHANGED <<pub, rows, task, faults, log>>
  BY DEF CreateHook, SetActive
<1>2. /\ hook' \in [Hooks -> {"none", "active", "inactive", "deleted"}]
      /\ \A g \in Hooks : hook'[g] = "deleted" <=> hook[g] = "deleted"
  BY DEF IInv, TypeOK, CreateHook, SetActive
<1>3. TypeOK'
  BY <1>1, <1>2 DEF IInv, TypeOK
<1>4. Publishing'
  BY <1>1, <1>2 DEF IInv, TypeOK, Pub, Publishing
<1>5. Delivering'
  BY <1>1, <1>2, PairParts DEF IInv, Delivering, Handled, Counted, Committed
<1>6. QED
  BY <1>3, <1>4, <1>5 DEF IInv

(* Deleting a webhook takes its rows along; the transactions that have     *)
(* queued for it hold it.                                                  *)
LEMMA DeleteHookIInv ==
  ASSUME IInv, NEW h \in Hooks, DeleteHook(h)
  PROVE  IInv'
<1>1. UNCHANGED <<pub, task, faults, log>>
  BY DEF DeleteHook
<1>2. /\ hook' \in [Hooks -> {"none", "active", "inactive", "deleted"}]
      /\ hook'[h] = "deleted" /\ \A g \in Hooks \ {h} : hook'[g] = hook[g]
  BY DEF IInv, TypeOK, DeleteHook
<1>3. /\ rows' \in [Deliveries -> Row]
      /\ \A d \in Deliveries : rows'[d] = IF d[2] = h THEN NoRow ELSE rows[d]
  BY FreshRecords DEF IInv, TypeOK, DeleteHook
<1>4. TypeOK'
  BY <1>1, <1>2, <1>3 DEF IInv, TypeOK
<1>5. Publishing'
  <2>1. \A v \in Events : pub[v].at = "queueing" /\ ~pub[v].doomed => h \notin pub[v].queued
    BY DEF DeleteHook, Referring
  <2>2. QED
    BY <1>1, <1>2, <2>1 DEF IInv, TypeOK, Pub, Publishing
<1>6. Delivering'
  BY <1>1, <1>2, <1>3, FreshRecords, PairParts DEF IInv, Delivering, Handled, Counted, Committed
<1>7. QED
  BY <1>4, <1>5, <1>6 DEF IInv

(* What a step of Publish may do before the end of its transaction. *)
LEMMA PubIInv ==
  ASSUME IInv, NEW v \in Events, NEW p \in Pub, pub' = [pub EXCEPT ![v] = p],
         UNCHANGED <<hook, rows, task, faults, log>>,
         pub[v].at \in {"idle", "queueing"}, p.at \in {"queueing", "rolled back"},
         p.at = "queueing" /\ ~p.doomed =>
           p.listed \subseteq p.queued \union p.left /\ \A h \in p.queued : hook[h] # "deleted"
  PROVE  IInv'
<1>1. /\ pub' \in [Events -> Pub] /\ pub'[v] = p
      /\ \A w \in Events \ {v} : pub'[w] = pub[w]
  BY DEF IInv, TypeOK
<1>2. TypeOK'
  BY <1>1 DEF IInv, TypeOK
<1>3. Publishing'
  BY <1>1 DEF IInv, Publishing
<1>4. Delivering'
  <2>1. \A d \in Deliveries : ~Committed(d) /\ d[1] = v => ~Committed(d)'
    BY <1>1 DEF Committed
  <2>2. \A d \in Deliveries : d[1] = v => ~Committed(d)
    BY DEF Committed
  <2>3. \A d \in Deliveries : d[1] # v => pub'[d[1]] = pub[d[1]]
    BY <1>1, PairParts
  <2>4. \A d \in Deliveries : d[1] # v => (Committed(d)' <=> Committed(d))
    BY <2>3 DEF Committed
  <2> HIDE DEF Committed
  <2>5. QED
    BY <2>1, <2>2, <2>3, <2>4 DEF IInv, Delivering, Handled, Counted
<1>5. QED
  BY <1>2, <1>3, <1>4 DEF IInv

LEMMA ListIInv ==
  ASSUME IInv, NEW v \in Events, List(v)
  PROVE  IInv'
<1> DEFINE active == {h \in Hooks : hook[h] = "active"}
           listed(p) == [p EXCEPT !.at = "queueing", !.listed = active, !.left = active]
           failed(p) == [p EXCEPT !.at = "queueing", !.doomed = TRUE]
<1>1. pub[v].at = "idle" /\ UNCHANGED <<hook, rows, task, faults, log>> /\ pub[v] \in Pub
  BY DEF List, IInv, TypeOK
<1>2. \A p \in Pub : /\ listed(p) \in Pub /\ listed(p).at = "queueing" /\ listed(p).listed = active
                     /\ listed(p).left = active /\ listed(p).queued = p.queued
                     /\ failed(p) \in Pub /\ failed(p).at = "queueing" /\ failed(p).doomed
  BY DEF Pub
<1>3. pub[v].queued = {}
  BY <1>1 DEF IInv, Publishing
<1>4. pub' = [pub EXCEPT ![v] = listed(pub[v])] \/ pub' = [pub EXCEPT ![v] = failed(pub[v])]
  BY DEF List
<1> HIDE DEF active, listed, failed
<1>5. CASE pub' = [pub EXCEPT ![v] = listed(pub[v])]
  BY <1>1, <1>2, <1>3, <1>5, PubIInv
<1>6. CASE pub' = [pub EXCEPT ![v] = failed(pub[v])]
  BY <1>1, <1>2, <1>6, PubIInv
<1>7. QED
  BY <1>4, <1>5, <1>6

LEMMA QueueIInv ==
  ASSUME IInv, NEW v \in Events, NEW h \in Hooks, Queue(v, h)
  PROVE  IInv'
<1> DEFINE failed(p) == [p EXCEPT !.left = p.left \ {h}, !.doomed = TRUE]
           queued(p) == [p EXCEPT !.left = p.left \ {h}, !.queued = p.queued \union {h}]
<1>1. pub[v].at = "queueing" /\ UNCHANGED <<hook, rows, task, faults, log>> /\ pub[v] \in Pub
  BY DEF Queue, IInv, TypeOK
<1>2. \A p \in Pub : /\ failed(p) \in Pub /\ failed(p).at = p.at /\ failed(p).doomed
                     /\ queued(p) \in Pub /\ queued(p).at = p.at /\ queued(p).listed = p.listed
                     /\ queued(p).left = p.left \ {h} /\ queued(p).queued = p.queued \union {h}
                     /\ queued(p).doomed <=> p.doomed
  BY DEF Pub
<1>3. \/ pub' = [pub EXCEPT ![v] = failed(pub[v])]
      \/ hook[h] # "deleted" /\ ~pub[v].doomed /\ pub' = [pub EXCEPT ![v] = queued(pub[v])]
  BY DEF Queue
<1> HIDE DEF failed, queued
<1>4. CASE pub' = [pub EXCEPT ![v] = failed(pub[v])]
  BY <1>1, <1>2, <1>4, PubIInv
<1>5. CASE hook[h] # "deleted" /\ ~pub[v].doomed /\ pub' = [pub EXCEPT ![v] = queued(pub[v])]
  <2>1. /\ pub[v].listed \subseteq pub[v].queued \union pub[v].left
        /\ \A g \in pub[v].queued : hook[g] # "deleted"
    BY <1>1, <1>5 DEF IInv, Publishing
  <2>2. /\ queued(pub[v]) \in Pub /\ queued(pub[v]).at = "queueing"
        /\ queued(pub[v]).listed \subseteq queued(pub[v]).queued \union queued(pub[v]).left
        /\ \A g \in queued(pub[v]).queued : hook[g] # "deleted"
    BY <1>1, <1>2, <1>5, <2>1
  <2>3. QED
    BY <1>1, <1>5, <2>2, PubIInv
<1>6. QED
  BY <1>3, <1>4, <1>5

LEMMA EndPublishIInv ==
  ASSUME IInv, NEW v \in Events, EndPublish(v)
  PROVE  IInv'
<1> DEFINE ended(p, l) == [p EXCEPT !.at = l]
<1>1. /\ pub[v].at = "queueing" /\ pub[v].left = {} /\ pub[v] \in Pub
      /\ UNCHANGED <<hook, task, faults, log>>
  BY DEF EndPublish, IInv, TypeOK
<1>2. \A p \in Pub : \A l \in {"committed", "rolled back"} :
         /\ ended(p, l) \in Pub /\ ended(p, l).at = l
         /\ ended(p, l).listed = p.listed /\ ended(p, l).queued = p.queued
  BY DEF Pub
<1>3. CASE UNCHANGED rows /\ pub' = [pub EXCEPT ![v].at = "rolled back"]
  <2>1. pub' = [pub EXCEPT ![v] = ended(pub[v], "rolled back")]
    BY <1>3
  <2> HIDE DEF ended
  <2>2. QED
    BY <1>1, <1>2, <1>3, <2>1, PubIInv
<1>4. CASE /\ ~pub[v].doomed
           /\ pub' = [pub EXCEPT ![v].at = "committed"]
           /\ rows' = [d \in Deliveries |-> IF d[1] = v /\ d[2] \in pub[v].queued THEN NewRow ELSE rows[d]]
  <2>1. pub' = [pub EXCEPT ![v] = ended(pub[v], "committed")]
    BY <1>4
  <2> HIDE DEF ended
  <2>2. /\ pub' \in [Events -> Pub] /\ pub'[v].at = "committed"
        /\ pub'[v].listed = pub[v].listed /\ pub'[v].queued = pub[v].queued
        /\ \A w \in Events \ {v} : pub'[w] = pub[w]
    BY <1>1, <1>2, <2>1 DEF IInv, TypeOK
  <2>3. /\ rows' \in [Deliveries -> Row]
        /\ \A d \in Deliveries : rows'[d] = IF d[1] = v /\ d[2] \in pub[v].queued THEN NewRow ELSE rows[d]
    BY <1>4, FreshRecords DEF IInv, TypeOK
  <2>4. pub[v].listed \subseteq pub[v].queued /\ \A h \in pub[v].queued : hook[h] # "deleted"
    BY <1>1, <1>4 DEF IInv, Publishing
  <2>5. TypeOK'
    BY <1>1, <2>2, <2>3 DEF IInv, TypeOK
  <2>6. Publishing'
    BY <1>1, <2>2, <2>4 DEF IInv, Publishing
  <2>7. ASSUME NEW d \in Deliveries, d[1] = v
        PROVE  task[d].at = "none" /\ rows[d].status = "absent" /\ log[d].posts = 0 /\ log[d].accepted = 0
    <3>1. ~Committed(d)
      BY <1>1, <2>7 DEF Committed
    <3>2. rows[d].status = "absent" /\ task[d].at = "none" /\ ~(log[d].posts > 0)
      BY <3>1 DEF IInv, Delivering
    <3>3. log[d].posts \in Nat /\ log[d].accepted \in Nat /\ log[d].accepted <= log[d].posts
      BY DEF IInv, TypeOK, Delivering, Counted, Log
    <3>4. QED
      BY <3>2, <3>3
  <2>8. Delivering'
    BY <1>1, <2>2, <2>3, <2>4, <2>7, FreshRecords, PairParts, WebhookConstants
       DEF IInv, Delivering, Handled, Counted, Committed
  <2>9. QED
    BY <2>5, <2>6, <2>8 DEF IInv
<1>5. QED
  BY <1>3, <1>4 DEF EndPublish

-----------------------------------------------------------------------------
(* What a step beside the publishers has to leave true: it makes no row,   *)
(* posts what is claimed, and removes only rows that have been posted.     *)
LEMMA WorkIInv ==
  ASSUME IInv, UNCHANGED <<hook, pub>>, TypeOK',
         \A d \in Deliveries :
           /\ Handled(task'[d], rows'[d], log'[d])
           /\ Counted(rows'[d], log'[d])
           /\ rows'[d].status # "absent" => rows[d].status # "absent"
           /\ task'[d].at # "none" => task[d].at # "none" \/ rows[d].status # "absent"
           /\ log'[d].posts > 0 => log[d].posts > 0 \/ task[d].at # "none"
           /\ rows[d].status # "absent" \/ log[d].posts > 0 => rows'[d].status # "absent" \/ log'[d].posts > 0
  PROVE  IInv'
<1>1. Publishing'
  BY DEF IInv, Publishing
<1>2. \A d \in Deliveries : Committed(d)' <=> Committed(d)
  BY DEF Committed
<1> HIDE DEF Committed, Handled, Counted
<1>3. Delivering'
  BY <1>2 DEF IInv, Delivering
<1>4. QED
  BY <1>1, <1>3 DEF IInv

LEMMA ElapseIInv ==
  ASSUME IInv, NEW d \in Deliveries, Elapse(d)
  PROVE  IInv'
<1> DEFINE new(q) == [q EXCEPT !.due = TRUE]
<1>1. \A q \in Row : new(q) \in Row /\ new(q).status = q.status /\ new(q).retries = q.retries
  BY DEF Row
<1>2. rows' = [rows EXCEPT ![d] = new(rows[d])] /\ UNCHANGED <<hook, pub, task, faults, log>>
  BY DEF Elapse
<1> HIDE DEF new
<1>3. /\ rows' \in [Deliveries -> Row]
      /\ \A c \in Deliveries : rows'[c].status = rows[c].status /\ rows'[c].retries = rows[c].retries
  BY <1>1, <1>2 DEF IInv, TypeOK
<1>4. TypeOK'
  BY <1>2, <1>3 DEF IInv, TypeOK
<1>5. \A c \in Deliveries : Handled(task[c], rows'[c], log[c]) /\ Counted(rows'[c], log[c])
  BY <1>3 DEF IInv, Delivering, Handled, Counted
<1>6. QED
  BY <1>2, <1>3, <1>4, <1>5, WorkIInv

(* The UPDATE of a claim: rows that are due become 'processing', and those *)
(* in B come back to a worker.                                             *)
LEMMA ClaimedIInv ==
  ASSUME IInv, NEW S \in SUBSET Due, NEW B \in SUBSET S,
         rows' = Claimed(S), task' = Tasks(B), faults' \in 0..MaxFaults, UNCHANGED <<hook, pub>>,
         log' \in [Deliveries -> Log],
         \A d \in Deliveries : log'[d].posts = log[d].posts /\ log'[d].accepted = log[d].accepted
  PROVE  IInv'
<1> DEFINE claimed(q) == [q EXCEPT !.status = "processing"]
           opened(q)  == [at |-> "open", retries |-> q.retries, ok |-> FALSE]
<1>1. \A q \in Row : /\ claimed(q) \in Row /\ claimed(q).status = "processing" /\ claimed(q).retries = q.retries
                     /\ opened(q) \in Task /\ opened(q).at = "open" /\ opened(q).retries = q.retries
  BY DEF Row, Task
<1>2. /\ \A d \in Deliveries : rows'[d] = IF d \in S THEN claimed(rows[d]) ELSE rows[d]
      /\ \A d \in Deliveries : task'[d] = IF d \in B THEN opened(rows[d]) ELSE task[d]
      /\ rows' = [d \in Deliveries |-> rows'[d]] /\ task' = [d \in Deliveries |-> task'[d]]
  BY DEF Claimed, Tasks
<1>3. \A d \in S : d \in Deliveries /\ rows[d].status = "pending"
  BY DEF Due
<1> HIDE DEF claimed, opened
<1>4. TypeOK'
  <2>1. rows \in [Deliveries -> Row] /\ task \in [Deliveries -> Task]
    BY DEF IInv, TypeOK
  <2>2. rows' \in [Deliveries -> Row]
    BY <1>1, <1>2, <2>1
  <2>3. task' \in [Deliveries -> Task]
    BY <1>1, <1>2, <1>3, <2>1
  <2>4. QED
    BY <2>2, <2>3 DEF IInv, TypeOK
<1>5. ASSUME NEW d \in Deliveries
      PROVE  /\ Handled(task'[d], rows'[d], log'[d])
             /\ Counted(rows'[d], log'[d])
             /\ rows'[d].status # "absent" => rows[d].status # "absent"
             /\ task'[d].at # "none" => task[d].at # "none" \/ rows[d].status # "absent"
             /\ log'[d].posts > 0 => log[d].posts > 0 \/ task[d].at # "none"
             /\ rows[d].status # "absent" \/ log[d].posts > 0 => rows'[d].status # "absent" \/ log'[d].posts > 0
  <2>1. /\ rows[d] \in Row /\ Handled(task[d], rows[d], log[d]) /\ Counted(rows[d], log[d])
        /\ log'[d].posts = log[d].posts /\ log'[d].accepted = log[d].accepted
    BY DEF IInv, TypeOK, Delivering
  <2>2. CASE d \in S
    BY <1>1, <1>2, <1>3, <2>1, <2>2 DEF Handled, Counted
  <2>3. CASE d \notin S
    BY <1>2, <2>1, <2>3 DEF Handled, Counted
  <2>4. QED
    BY <2>2, <2>3
<1>6. QED
  BY <1>4, <1>5, WorkIInv

LEMMA BatchesAreDue == \A S \in Batches : S \in SUBSET Due
  BY DEF Batches, Taken, Retryable

LEMMA ClaimIInv ==
  ASSUME IInv, Claim
  PROVE  IInv'
<1> PICK S \in Batches : rows' = Claimed(S) /\ task' = Tasks(Returned(S))
  BY DEF Claim
<1>1. S \in SUBSET Due /\ Returned(S) \in SUBSET S
  BY BatchesAreDue DEF Returned
<1>2. UNCHANGED <<hook, pub, faults, log>>
  BY DEF Claim
<1>3. QED
  BY <1>1, <1>2, ClaimedIInv DEF IInv, TypeOK

LEMMA ClaimFailsIInv ==
  ASSUME IInv, ClaimFails
  PROVE  IInv'
<1> PICK S \in Batches : \E back \in SUBSET S \ {S} :
       /\ rows' = Claimed(S) /\ task' = Tasks(back \intersect Returned(S))
       /\ log' = [d \in Deliveries |-> IF d \in S \ back THEN [log[d] EXCEPT !.lost = TRUE] ELSE log[d]]
  BY DEF ClaimFails
<1> PICK back \in SUBSET S :
       /\ rows' = Claimed(S) /\ task' = Tasks(back \intersect Returned(S))
       /\ log' = [d \in Deliveries |-> IF d \in S \ back THEN [log[d] EXCEPT !.lost = TRUE] ELSE log[d]]
  OBVIOUS
<1>1. S \in SUBSET Due /\ back \intersect Returned(S) \in SUBSET S
  BY BatchesAreDue
<1>2. UNCHANGED <<hook, pub>> /\ faults' \in 0..MaxFaults
  BY WebhookConstants DEF ClaimFails, IInv, TypeOK
<1>3. /\ log' \in [Deliveries -> Log]
      /\ \A d \in Deliveries : log'[d].posts = log[d].posts /\ log'[d].accepted = log[d].accepted
  <2>1. \A l \in Log : /\ [l EXCEPT !.lost = TRUE] \in Log
                       /\ [l EXCEPT !.lost = TRUE].posts = l.posts
                       /\ [l EXCEPT !.lost = TRUE].accepted = l.accepted
    BY DEF Log
  <2>2. QED
    BY <2>1 DEF IInv, TypeOK
<1>4. QED
  BY <1>1, <1>2, <1>3, ClaimedIInv

(* A step of the goroutine of a delivery changes nothing of the others. *)
LEMMA OneDeliveryIInv ==
  ASSUME IInv, NEW d \in Deliveries, NEW t \in Task, NEW q \in Row,
         NEW l \in Log,
         task' = [task EXCEPT ![d] = t], rows' = [rows EXCEPT ![d] = q], log' = [log EXCEPT ![d] = l],
         faults' \in 0..MaxFaults, UNCHANGED <<hook, pub>>,
         Handled(t, q, l), Counted(q, l),
         q.status # "absent" => rows[d].status # "absent",
         t.at # "none" => task[d].at # "none",
         l.posts > 0 => log[d].posts > 0 \/ task[d].at # "none",
         rows[d].status # "absent" \/ log[d].posts > 0 => q.status # "absent" \/ l.posts > 0
  PROVE  IInv'
<1>1. TypeOK'
  BY DEF IInv, TypeOK
<1>2. ASSUME NEW c \in Deliveries
      PROVE  IF c = d THEN task'[c] = t /\ rows'[c] = q /\ log'[c] = l
                      ELSE task'[c] = task[c] /\ rows'[c] = rows[c] /\ log'[c] = log[c]
  BY DEF IInv, TypeOK
<1>3. \A c \in Deliveries : Handled(task[c], rows[c], log[c]) /\ Counted(rows[c], log[c])
  BY DEF IInv, Delivering
<1> HIDE DEF Handled, Counted
<1>4. QED
  BY <1>1, <1>2, <1>3, WorkIInv

LEMMA PostIInv ==
  ASSUME IInv, NEW d \in Deliveries, Post(d)
  PROVE  IInv'
<1> PICK ok \in BOOLEAN :
       /\ task' = [task EXCEPT ![d].at = "mark", ![d].ok = ok]
       /\ log' = [log EXCEPT ![d].posts = @ + 1, ![d].accepted = IF ok THEN @ + 1 ELSE @]
  BY DEF Post
<1> DEFINE marked(t) == [t EXCEPT !.at = "mark", !.ok = ok]
           posted(l) == [l EXCEPT !.posts = l.posts + 1, !.accepted = IF ok THEN l.accepted + 1 ELSE l.accepted]
<1>1. \A t \in Task : /\ marked(t) \in Task /\ marked(t).at = "mark"
                      /\ marked(t).ok = ok /\ marked(t).retries = t.retries
  BY DEF Task
<1>2. \A l \in Log : /\ posted(l) \in Log /\ posted(l).posts = l.posts + 1
                     /\ posted(l).accepted = IF ok THEN l.accepted + 1 ELSE l.accepted
  <2>1. ASSUME NEW l \in Log, NEW m \in Nat, NEW n \in Nat
        PROVE  [l EXCEPT !.posts = m, !.accepted = n] \in Log
    BY DEF Log
  <2>2. ASSUME NEW l \in Log
        PROVE  l.posts + 1 \in Nat /\ (IF ok THEN l.accepted + 1 ELSE l.accepted) \in Nat
    BY DEF Log
  <2>3. QED
    BY <2>1, <2>2 DEF Log
<1>3. /\ task[d] \in Task /\ rows[d] \in Row /\ log[d] \in Log /\ task[d].at = "open"
      /\ faults' \in 0..MaxFaults /\ UNCHANGED <<hook, pub>>
  BY DEF IInv, TypeOK, Post
<1>4. /\ task' = [task EXCEPT ![d] = marked(task[d])] /\ log' = [log EXCEPT ![d] = posted(log[d])]
      /\ rows' = [rows EXCEPT ![d] = rows[d]]
  BY DEF IInv, TypeOK, Post
<1>5. Handled(task[d], rows[d], log[d]) /\ Counted(rows[d], log[d])
  BY DEF IInv, Delivering
<1> HIDE DEF marked, posted
<1>6. Handled(marked(task[d]), rows[d], posted(log[d]))
  BY <1>1, <1>2, <1>3, <1>5 DEF Handled
<1>7. Counted(rows[d], posted(log[d]))
  BY <1>2, <1>3, <1>5, WebhookConstants DEF Handled, Counted, Row, Task, Log
<1>8. posted(log[d]).posts > 0
  BY <1>2, <1>3 DEF Log
<1>9. QED
  BY <1>1, <1>2, <1>3, <1>4, <1>6, <1>7, <1>8, OneDeliveryIInv

(* The row that MarkDelivered or MarkFailed writes: ended, or waiting again *)
(* with its count of retries one higher.                                   *)
Settled(t, q) ==
  IF q.status = "absent" THEN q
  ELSE IF t.ok THEN [q EXCEPT !.status = "delivered"]
  ELSE IF t.retries < MaxRetries /\ q.retries < MaxRetries
  THEN [status |-> "pending", retries |-> q.retries + 1, due |-> FALSE]
  ELSE [q EXCEPT !.status = "failed"]

LEMMA SettledRow ==
  ASSUME NEW t \in Task, NEW q \in Row, t.retries = q.retries
  PROVE  /\ Settled(t, q) \in Row
         /\ \/ q.status = "absent" /\ Settled(t, q) = q
            \/ /\ q.status # "absent" /\ Settled(t, q).status = IF t.ok THEN "delivered" ELSE "failed"
               /\ Settled(t, q).retries = q.retries
            \/ /\ q.status # "absent" /\ Settled(t, q).status = "pending" /\ ~t.ok
               /\ q.retries < MaxRetries /\ Settled(t, q).retries = q.retries + 1
  BY WebhookConstants DEF Settled, Row, Task

LEMMA SettleRow ==
  ASSUME IInv, NEW d \in Deliveries, Settle(d), rows[d].status # "absent"
  PROVE  /\ task[d] \in Task /\ rows[d] \in Row
         /\ rows[d].status = "processing" /\ task[d].retries = rows[d].retries
         /\ rows' = [rows EXCEPT ![d] = Settled(task[d], rows[d])]
<1>1. task[d] \in Task /\ rows[d] \in Row
  BY DEF IInv, TypeOK
<1>2. rows[d].status = "processing" /\ task[d].retries = rows[d].retries
  BY DEF IInv, Delivering, Handled, Settle
<1>3. rows' = [rows EXCEPT ![d] = Settled(task[d], rows[d])]
  BY DEF Settle, Settled
<1>4. QED
  BY <1>1, <1>2, <1>3

LEMMA SettleIInv ==
  ASSUME IInv, NEW d \in Deliveries, Settle(d)
  PROVE  IInv'
<1>1. /\ task[d].at = "mark" /\ task' = [task EXCEPT ![d] = NoTask]
      /\ UNCHANGED <<hook, pub, faults, log>>
      /\ task[d] \in Task /\ rows[d] \in Row /\ faults' \in 0..MaxFaults
      /\ log[d] \in Log /\ log' = [log EXCEPT ![d] = log[d]]
      /\ Handled(task[d], rows[d], log[d]) /\ Counted(rows[d], log[d])
  BY DEF IInv, TypeOK, Settle, Delivering
<1>2. \A q : Handled(NoTask, q, log[d])
  BY FreshRecords DEF Handled
<1>3. CASE rows[d].status = "absent"
  <2>1. rows' = [rows EXCEPT ![d] = rows[d]]
    BY <1>3 DEF Settle, IInv, TypeOK
  <2>2. QED
    BY <1>1, <1>2, <1>3, <2>1, FreshRecords, OneDeliveryIInv
<1>4. CASE rows[d].status # "absent"
  <2> DEFINE q == Settled(task[d], rows[d])
  <2>1. /\ rows[d].status = "processing" /\ task[d].retries = rows[d].retries
        /\ rows' = [rows EXCEPT ![d] = q]
    BY <1>4, SettleRow
  <2>2. /\ q \in Row
        /\ \/ q.status = (IF task[d].ok THEN "delivered" ELSE "failed") /\ q.retries = rows[d].retries
           \/ q.status = "pending" /\ ~task[d].ok /\ q.retries = rows[d].retries + 1
    BY <1>1, <1>4, <2>1, SettledRow
  <2> HIDE DEF q
  <2>3. Counted(q, log[d])
    BY <1>1, <1>4, <2>1, <2>2 DEF Handled, Counted, Row
  <2>4. q.status # "absent"
    BY <2>2
  <2>5. QED
    BY <1>1, <1>2, <1>4, <2>1, <2>2, <2>3, <2>4, FreshRecords, OneDeliveryIInv
<1>5. QED
  BY <1>3, <1>4

LEMMA GiveUpIInv ==
  ASSUME IInv, NEW d \in Deliveries, GiveUp(d)
  PROVE  IInv'
<1> DEFINE given(l) == [l EXCEPT !.lost = TRUE]
<1>1. \A l \in Log : given(l) \in Log /\ given(l).posts = l.posts /\ given(l).accepted = l.accepted
  BY DEF Log
<1>2. /\ task' = [task EXCEPT ![d] = NoTask] /\ log' = [log EXCEPT ![d] = given(log[d])]
      /\ rows' = [rows EXCEPT ![d] = rows[d]] /\ UNCHANGED <<hook, pub>> /\ faults' \in 0..MaxFaults
      /\ rows[d] \in Row /\ log[d] \in Log
  BY WebhookConstants DEF GiveUp, IInv, TypeOK
<1> HIDE DEF given
<1>3. Handled(NoTask, rows[d], given(log[d]))
  BY FreshRecords DEF Handled
<1>4. Counted(rows[d], given(log[d]))
  BY <1>1, <1>2 DEF IInv, Delivering, Counted
<1>5. QED
  BY <1>1, <1>2, <1>3, <1>4, FreshRecords, OneDeliveryIInv

LEMMA CleanupIInv ==
  ASSUME IInv, NEW d \in Deliveries, Cleanup(d)
  PROVE  IInv'
<1>1. /\ task' = [task EXCEPT ![d] = task[d]] /\ log' = [log EXCEPT ![d] = log[d]]
      /\ rows' = [rows EXCEPT ![d] = NoRow] /\ UNCHANGED <<hook, pub>> /\ faults' \in 0..MaxFaults
      /\ task[d] \in Task /\ log[d] \in Log
  BY DEF Cleanup, IInv, TypeOK
<1>2. /\ rows[d].status \in {"delivered", "failed"} /\ rows[d] \in Row
      /\ Handled(task[d], rows[d], log[d]) /\ Counted(rows[d], log[d])
  BY DEF Cleanup, IInv, Delivering, TypeOK
<1>3. Handled(task[d], NoRow, log[d]) /\ Counted(NoRow, log[d]) /\ log[d].posts > 0
  BY <1>2, FreshRecords DEF Handled, Counted
<1>4. QED
  BY <1>1, <1>2, <1>3, FreshRecords, OneDeliveryIInv

LEMMA StutterIInv ==
  ASSUME IInv, UNCHANGED vars
  PROVE  IInv'
  BY DEF IInv, vars, TypeOK, Publishing, Delivering, Handled, Counted, Committed

-----------------------------------------------------------------------------
(* The invariant holds whatever publishers, workers, administrators and    *)
(* time do.                                                                *)
THEOREM Invariance == Spec => []IInv
<1>1. Init => IInv
  BY InitIInv
<1>2. IInv /\ [Next]_vars => IInv'
  <2> SUFFICES ASSUME IInv, [Next]_vars PROVE IInv'
    OBVIOUS
  <2>1. ASSUME NEW h \in Hooks, CreateHook(h) \/ SetActive(h) \/ DeleteHook(h) PROVE IInv'
    BY <2>1, HookIInv, DeleteHookIInv
  <2>2. ASSUME NEW v \in Events, List(v) \/ EndPublish(v) \/ \E h \in Hooks : Queue(v, h) PROVE IInv'
    BY <2>2, ListIInv, EndPublishIInv, QueueIInv
  <2>3. ASSUME NEW d \in Deliveries, Elapse(d) \/ Post(d) \/ Settle(d) \/ GiveUp(d) \/ Cleanup(d) PROVE IInv'
    BY <2>3, ElapseIInv, PostIInv, SettleIInv, GiveUpIInv, CleanupIInv
  <2>4. QED
    BY <2>1, <2>2, <2>3, ClaimIInv, ClaimFailsIInv, StutterIInv DEF Next
<1>3. QED
  BY <1>1, <1>2, PTL DEF Spec

(* Every variable keeps its type: no row is retried beyond max_retries. *)
THEOREM TypeCorrect == Spec => []TypeOK
<1>1. IInv => TypeOK
  BY DEF IInv
<1>2. QED
  BY <1>1, Invariance, PTL

(* A committed event has reached every webhook that Publish listed, though *)
(* webhooks are deleted and statements fail meanwhile.                     *)
THEOREM EventsReachAll == Spec => []EventReachesAll
<1>1. IInv => EventReachesAll
  <2> SUFFICES ASSUME IInv, NEW v \in Events, pub[v].at = "committed", NEW h \in pub[v].listed
               PROVE  hook[h] = "deleted" \/ rows[<<v, h>>].status # "absent" \/ log[<<v, h>>].posts > 0
    BY DEF EventReachesAll
  <2>1. h \in Hooks /\ h \in pub[v].queued
    BY DEF IInv, TypeOK, Pub, Publishing
  <2>2. QED
    BY <2>1, PairParts DEF IInv, Delivering, Committed
<1>2. QED
  BY <1>1, Invariance, PTL

(* Nothing is posted, or waits, for an event that has not committed. *)
THEOREM NothingFromRollback == Spec => []NoEventFromRollback
<1>1. IInv => NoEventFromRollback
  <2> SUFFICES ASSUME IInv, NEW v \in Events, NEW h \in Hooks, pub[v].at # "committed"
               PROVE  rows[<<v, h>>].status = "absent" /\ log[<<v, h>>].posts = 0
    BY DEF NoEventFromRollback
  <2> DEFINE d == <<v, h>>
  <2>1. d \in Deliveries /\ ~Committed(d)
    BY PairParts DEF Committed
  <2> HIDE DEF d
  <2>2. rows[d].status = "absent" /\ ~(log[d].posts > 0) /\ log[d].posts \in Nat
    BY <2>1 DEF IInv, Delivering, TypeOK, Log
  <2>3. QED
    BY <2>2 DEF d
<1>2. QED
  BY <1>1, Invariance, PTL

(* Deleting a webhook misses none of its rows, those of transactions that  *)
(* are still open included.                                                *)
THEOREM DeletedHooksAreEmpty == Spec => []DeletedHookHasNoRows
<1>1. IInv => DeletedHookHasNoRows
  BY PairParts DEF IInv, Delivering, DeletedHookHasNoRows
<1>2. QED
  BY <1>1, Invariance, PTL

(* No receiver gets a delivery again that it has accepted, nor more often  *)
(* than 1 + max_retries times.                                             *)
THEOREM PostsBounded == Spec => []PostsAreBounded
<1>1. IInv => PostsAreBounded
  BY DEF IInv, Delivering, Counted, PostsAreBounded
<1>2. QED
  BY <1>1, Invariance, PTL

-----------------------------------------------------------------------------
(* What a step can do to the rows, as far as the abstract queue sees them. *)
Status(d)  == AbstractState(rows[d].status)
Retries(d) == rows[d].retries

(* The rows in S change their status from a to b. *)
Moved(S, a, b) ==
  /\ \A d \in S : d \in Deliveries /\ Status(d) = a /\ Status(d)' = b
  /\ \A d \in Deliveries \ S : Status(d)' = Status(d)

RowsSame(S) == \A d \in Deliveries \ S : Retries(d)' = Retries(d)

(* The rows in S are removed, whatever they were. *)
Emptied(S) ==
  /\ \A d \in S : d \in Deliveries /\ Status(d)' = "absent" /\ Retries(d)' = 0
  /\ \A d \in Deliveries \ S : Status(d)' = Status(d) /\ Retries(d)' = Retries(d)

LEMMA SubmitSteps ==
  ASSUME IInv, NEW v \in Events, EndPublish(v)
  PROVE  UNCHANGED rows \/ \E S \in SUBSET Deliveries : Moved(S, "absent", "pending") /\ RowsSame({})
<1> DEFINE S == {d \in Deliveries : d[1] = v /\ d[2] \in pub[v].queued}
<1>1. CASE rows' = [d \in Deliveries |-> IF d[1] = v /\ d[2] \in pub[v].queued THEN NewRow ELSE rows[d]]
  <2>1. \A d \in Deliveries : rows'[d] = IF d \in S THEN NewRow ELSE rows[d]
    BY <1>1
  <2>2. \A d \in S : d \in Deliveries /\ ~Committed(d)
    BY DEF EndPublish, Committed
  <2> HIDE DEF S
  <2>3. \A d \in S : rows[d].status = "absent" /\ rows[d].retries = 0
    BY <2>2 DEF IInv, Delivering, Counted
  <2>4. Moved(S, "absent", "pending") /\ RowsSame({})
    BY <2>1, <2>2, <2>3, FreshRecords DEF Moved, RowsSame, Status, Retries, AbstractState
  <2>5. S \in SUBSET Deliveries
    BY <2>2
  <2>6. QED
    BY <2>4, <2>5
<1>2. QED
  BY <1>1 DEF EndPublish

LEMMA TakeSteps ==
  ASSUME IInv, Claim \/ ClaimFails
  PROVE  \E S \in SUBSET Deliveries : Moved(S, "pending", "processing") /\ RowsSame({})
<1> PICK S \in Batches : rows' = Claimed(S)
  BY DEF Claim, ClaimFails
<1>1. S \in SUBSET Deliveries /\ \A d \in S : rows[d].status = "pending"
  BY BatchesAreDue DEF Due
<1>2. \A q \in Row : /\ [q EXCEPT !.status = "processing"].status = "processing"
                     /\ [q EXCEPT !.status = "processing"].retries = q.retries
  BY DEF Row
<1>3. \A d \in Deliveries : rows[d] \in Row /\ rows'[d] = IF d \in S THEN [rows[d] EXCEPT !.status = "processing"] ELSE rows[d]
  BY DEF Claimed, IInv, TypeOK
<1>4. Moved(S, "pending", "processing") /\ RowsSame({})
  BY <1>1, <1>2, <1>3 DEF Moved, RowsSame, Status, Retries, AbstractState
<1>5. QED
  BY <1>1, <1>4

LEMMA SettleSteps ==
  ASSUME IInv, NEW d \in Deliveries, Settle(d), rows' # rows
  PROVE  \/ /\ Moved({d}, "processing", "pending") /\ RowsSame({d})
            /\ Retries(d) < MaxRetries /\ Retries(d)' = Retries(d) + 1
         \/ \E s \in {"done", "failed"} : Moved({d}, "processing", s) /\ RowsSame({})
<1> DEFINE q == Settled(task[d], rows[d])
<1>1. rows[d].status # "absent"
  BY DEF Settle
<1>2. /\ rows[d].status = "processing" /\ task[d].retries = rows[d].retries
      /\ task[d] \in Task /\ rows[d] \in Row /\ rows' = [rows EXCEPT ![d] = q]
  BY <1>1, SettleRow
<1>3. \/ q.status \in {"delivered", "failed"} /\ q.retries = rows[d].retries
      \/ q.status = "pending" /\ rows[d].retries < MaxRetries /\ q.retries = rows[d].retries + 1
  BY <1>1, <1>2, SettledRow
<1> HIDE DEF q
<1>4. rows'[d] = q /\ \A c \in Deliveries \ {d} : rows'[c] = rows[c]
  BY <1>2 DEF IInv, TypeOK
<1>5. QED
  BY <1>2, <1>3, <1>4 DEF Moved, RowsSame, Status, Retries, AbstractState

LEMMA RemoveSteps ==
  ASSUME IInv, (\E h \in Hooks : DeleteHook(h)) \/ \E d \in Deliveries : Cleanup(d)
  PROVE  \E S \in SUBSET Deliveries : Emptied(S)
<1> USE DEF Emptied, Status, Retries, AbstractState
<1>1. ASSUME NEW h \in Hooks, DeleteHook(h) PROVE \E S \in SUBSET Deliveries : Emptied(S)
  <2> DEFINE S == {d \in Deliveries : d[2] = h}
  <2>1. \A d \in Deliveries : rows'[d] = IF d \in S THEN NoRow ELSE rows[d]
    BY <1>1 DEF DeleteHook
  <2>2. S \in SUBSET Deliveries
    OBVIOUS
  <2> HIDE DEF S
  <2>3. QED
    BY <2>1, <2>2, FreshRecords
<1>2. ASSUME NEW d \in Deliveries, Cleanup(d) PROVE \E S \in SUBSET Deliveries : Emptied(S)
  <2>1. \A c \in Deliveries : rows'[c] = IF c \in {d} THEN NoRow ELSE rows[c]
    BY <1>2 DEF Cleanup, IInv, TypeOK
  <2>2. Emptied({d})
    BY <2>1, FreshRecords
  <2>3. QED
    BY <2>2
<1>3. QED
  BY <1>1, <1>2

LEMMA RowSteps ==
  ASSUME IInv, [Next]_vars
  PROVE  \/ Moved({}, "absent", "absent") /\ RowsSame({})
         \/ \E S \in SUBSET Deliveries : Moved(S, "absent", "pending") /\ RowsSame({})
         \/ \E S \in SUBSET Deliveries : Moved(S, "pending", "processing") /\ RowsSame({})
         \/ \E d \in Deliveries : /\ Moved({d}, "processing", "pending") /\ RowsSame({d})
                                  /\ Retries(d) < MaxRetries /\ Retries(d)' = Retries(d) + 1
         \/ \E d \in Deliveries, s \in {"done", "failed"} : Moved({d}, "processing", s) /\ RowsSame({})
         \/ \E S \in SUBSET Deliveries : Emptied(S)
<1>1. ASSUME UNCHANGED rows
      PROVE  Moved({}, "absent", "absent") /\ RowsSame({})
  BY <1>1 DEF Moved, RowsSame, Status, Retries, AbstractState
<1>2. ASSUME NEW d \in Deliveries, Elapse(d)
      PROVE  Moved({}, "absent", "absent") /\ RowsSame({})
  <2>1. \A q \in Row : [q EXCEPT !.due = TRUE].status = q.status /\ [q EXCEPT !.due = TRUE].retries = q.retries
    BY DEF Row
  <2>2. \A c \in Deliveries : rows[c] \in Row /\ rows'[c] = IF c = d THEN [rows[c] EXCEPT !.due = TRUE] ELSE rows[c]
    BY <1>2 DEF Elapse, IInv, TypeOK
  <2>3. QED
    BY <2>1, <2>2 DEF Moved, RowsSame, Status, Retries, AbstractState
<1>3. ASSUME NEW h \in Hooks, CreateHook(h) \/ SetActive(h)
      PROVE  UNCHANGED rows
  BY <1>3 DEF CreateHook, SetActive
<1>4. ASSUME NEW v \in Events, List(v) \/ \E h \in Hooks : Queue(v, h)
      PROVE  UNCHANGED rows
  BY <1>4 DEF List, Queue
<1>5. ASSUME NEW d \in Deliveries, Post(d) \/ GiveUp(d)
      PROVE  UNCHANGED rows
  BY <1>5 DEF Post, GiveUp
<1>6. CASE UNCHANGED vars
  BY <1>1, <1>6 DEF vars
<1>7. QED
  BY <1>1, <1>2, <1>3, <1>4, <1>5, <1>6, SubmitSteps, TakeSteps, SettleSteps, RemoveSteps, Zenon DEF Next

(* The table is a queue with bounded retries: every step of a publisher, a *)
(* worker or an administrator takes one step of the abstract queue or none. *)
THEOREM RefinesWorkQueue == Spec => ImplementsWorkQueue
<1> DEFINE state   == [d \in Deliveries |-> AbstractState(rows[d].status)]
           retries == [d \in Deliveries |-> rows[d].retries]
<1>1. Init => Abstract!Init
  BY FreshRecords DEF Init, Abstract!Init, AbstractState
<1>2. IInv /\ [Next]_vars => [Abstract!Next]_<<state, retries>>
  <2> SUFFICES ASSUME IInv, [Next]_vars
               PROVE  Abstract!Next \/ (state' = state /\ retries' = retries)
    OBVIOUS
  <2> USE DEF Moved, RowsSame, Emptied, Status, Retries
  <2>1. CASE Moved({}, "absent", "absent") /\ RowsSame({})
    BY <2>1
  <2>2. ASSUME NEW S \in SUBSET Deliveries, Moved(S, "absent", "pending"), RowsSame({})
        PROVE  Abstract!Submit
    <3>1. \A d \in S : state[d] = "absent"
      BY <2>2
    <3>2. state' = [d \in Deliveries |-> IF d \in S THEN "pending" ELSE state[d]] /\ retries' = retries
      BY <2>2
    <3> QED
      BY <3>1, <3>2 DEF Abstract!Submit
  <2>3. ASSUME NEW S \in SUBSET Deliveries, Moved(S, "pending", "processing"), RowsSame({})
        PROVE  Abstract!Take
    <3>1. \A d \in S : state[d] = "pending"
      BY <2>3
    <3>2. state' = [d \in Deliveries |-> IF d \in S THEN "processing" ELSE state[d]] /\ retries' = retries
      BY <2>3
    <3> QED
      BY <3>1, <3>2 DEF Abstract!Take
  <2>4. ASSUME NEW d \in Deliveries, Moved({d}, "processing", "pending"), RowsSame({d}),
               Retries(d) < MaxRetries, Retries(d)' = Retries(d) + 1
        PROVE  Abstract!Retry(d)
    <3>1. state[d] = "processing" /\ retries[d] < MaxRetries
      BY <2>4
    <3>2. state' = [state EXCEPT ![d] = "pending"] /\ retries' = [retries EXCEPT ![d] = retries[d] + 1]
      BY <2>4
    <3> QED
      BY <3>1, <3>2 DEF Abstract!Retry
  <2>5. ASSUME NEW d \in Deliveries, NEW s \in {"done", "failed"}, Moved({d}, "processing", s), RowsSame({})
        PROVE  Abstract!End(d)
    <3>1. state[d] = "processing"
      BY <2>5
    <3>2. state' = [state EXCEPT ![d] = s] /\ retries' = retries
      BY <2>5
    <3> QED
      BY <3>1, <3>2 DEF Abstract!End
  <2>6. ASSUME NEW S \in SUBSET Deliveries, Emptied(S)
        PROVE  Abstract!Remove
    <3>1. /\ state' = [d \in Deliveries |-> IF d \in S THEN "absent" ELSE state[d]]
          /\ retries' = [d \in Deliveries |-> IF d \in S THEN 0 ELSE retries[d]]
      BY <2>6
    <3> QED
      BY <3>1 DEF Abstract!Remove
  <2> HIDE DEF Moved, RowsSame, Emptied, Status, Retries, state, retries
  <2>7. QED
    BY <2>1, <2>2, <2>3, <2>4, <2>5, <2>6, RowSteps DEF Abstract!Next
<1>3. QED
  BY <1>1, <1>2, Invariance, PTL DEF Spec, Abstract!Spec, ImplementsWorkQueue
=============================================================================
