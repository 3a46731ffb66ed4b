--------------------------- MODULE SignatureChain ---------------------------
(***************************************************************************)
(* POST /api/v1/signatures: HandleCreateSignature and CreateSignature, one *)
(* step per SQL statement, inside the transaction that RLSMiddleware opens *)
(* for the request and settles after the handler has answered.             *)
(*                                                                         *)
(* The database is PostgreSQL at READ COMMITTED: a statement sees the rows *)
(* committed before it and those of its own transaction.  The sequence     *)
(* behind signatures.id is not transactional, the unique index on          *)
(* (doc_id, user_sub) makes an insert wait for an uncommitted rival, and a *)
(* failed statement dooms its transaction whatever the handler does next.  *)
(*                                                                         *)
(* ComputeRecordHash hashes the columns of a row that never change (and    *)
(* neither prev_hash nor doc_deleted_at), so a row's hash is represented   *)
(* by its id, and prev_hash by the id of the row that was hashed.          *)
(***************************************************************************)
EXTENDS Integers, FiniteSets

CONSTANTS
  Requests,    \* POST /signatures calls; each is served at most once
  Docs,        \* document ids
  Subs,        \* OAuth subjects (user_sub)
  Checksums    \* stored document checksums

NoSum   == "no checksum"
Absent  == "no document"
Genesis == 0

ASSUME ChainConstants == NoSum \notin Checksums /\ Absent \notin Checksums

VARIABLES
  docs,     \* per document id: the checksum stored with the live document, or
            \* Absent when there is none or it is soft-deleted (read alike)
  sigs,     \* committed rows of the signatures table
  nextId,   \* next value of signatures_id_seq
  outbox,   \* ids whose signature.created deliveries are committed
  pc,       \* where each request is
  row,      \* the row each request is building
  doomed,   \* requests whose transaction has seen a failed statement
  answer,   \* the HTTP answer each request has written
  commits   \* (history) how many signatures have been committed

vars == <<docs, sigs, nextId, outbox, pc, row, doomed, answer, commits>>

-----------------------------------------------------------------------------
(* "seen" and "at" are history: the number of commits before the request   *)
(* read the last signature, and the rank of its own commit.                *)
Row == [id : Nat, doc : Docs, sub : Subs, prev : Nat, sum : Checksums \union {NoSum},
        gone : BOOLEAN, seen : Nat, at : Nat]

InFlight == {"check", "read", "last", "insert", "store", "publish", "answer", "commit"}

TypeOK ==
  /\ docs \in [Docs -> Checksums \union {NoSum, Absent}]
  /\ sigs \subseteq Row
  /\ nextId \in Nat \ {0}
  /\ outbox \subseteq Nat
  /\ pc \in [Requests -> {"idle", "done"} \union InFlight]
  /\ row \in [Requests -> Row]
  /\ doomed \in [Requests -> BOOLEAN]
  /\ answer \in [Requests -> {"none", "created", "conflict", "modified", "error"}]
  /\ commits \in Nat

(* Mutant: the lock of a request that was lost is never released. *)
HoldsAfterLoss(r) ==
  \/ pc[r] \in {"publish", "answer", "commit"} /\ ~doomed[r]
  \/ pc[r] = "done" /\ answer[r] = "none" /\ row[r].id # 0

(* The request has a row of its own in the table that nobody else can see,  *)
(* and with it the lock on its entry in the unique index.  PostgreSQL drops *)
(* both as soon as a statement of the transaction fails.                    *)
Holds(r) == pc[r] \in {"publish", "answer", "commit"} /\ ~doomed[r]

SameEntry(s, t) == s.doc = t.doc /\ s.sub = t.sub

OfDoc(d) == {s \in sigs : s.doc = d}

(* Mutants: no WHERE doc_id; signatures of a deleted document are skipped.  *)
LastOfAll(d) == {s.id : s \in {t \in sigs : \A u \in sigs : u.id <= t.id}}
LastLive(d)  ==
  LET live == {s \in OfDoc(d) : ~s.gone}
  IN  IF live = {} THEN {Genesis} ELSE {s.id : s \in {t \in live : \A u \in live : u.id <= t.id}}

(* GetLastSignature: ORDER BY id DESC LIMIT 1 over the document's rows. *)
LastOf(d) == {s.id : s \in {t \in OfDoc(d) : \A u \in OfDoc(d) : u.id <= t.id}}

-----------------------------------------------------------------------------
(* Mutant: the sequence starts at the number that stands for "no signature". *)
InitAtZero ==
  /\ docs = [d \in Docs |-> Absent]
  /\ sigs = {} /\ outbox = {} /\ nextId = 0 /\ commits = 0
  /\ pc = [r \in Requests |-> "idle"]
  /\ row \in [Requests -> [id : {0}, doc : Docs, sub : Subs, prev : {Genesis}, sum : {NoSum},
                           gone : {FALSE}, seen : {0}, at : {0}]]
  /\ doomed = [r \in Requests |-> FALSE]
  /\ answer = [r \in Requests |-> "none"]

Init ==
  /\ docs = [d \in Docs |-> Absent]
  /\ sigs = {}
  /\ nextId = 1
  /\ outbox = {}
  /\ pc = [r \in Requests |-> "idle"]
  /\ row \in [Requests -> [id : {0}, doc : Docs, sub : Subs, prev : {Genesis}, sum : {NoSum},
                           gone : {FALSE}, seen : {0}, at : {0}]]
  /\ doomed = [r \in Requests |-> FALSE]
  /\ answer = [r \in Requests |-> "none"]
  /\ commits = 0

Goto(r, l) == pc' = [pc EXCEPT ![r] = l]

(* The handler writes a status outside 200..399: RLSMiddleware rolls back. *)
Refuse(r, status) ==
  /\ Goto(r, "done")
  /\ answer' = [answer EXCEPT ![r] = status]
  /\ UNCHANGED <<docs, sigs, nextId, outbox, row, doomed, commits>>

(* The middleware opens the transaction; the user and the document id, which *)
(* the initial row holds, have been validated.                               *)
Begin(r) ==
  /\ pc[r] = "idle"
  /\ Goto(r, "check")
  /\ UNCHANGED <<docs, sigs, nextId, outbox, row, doomed, answer, commits>>

(* Mutant: the check forgets the user. *)
CheckExistsForAnyone(r) ==
  /\ pc[r] = "check"
  /\ IF OfDoc(row[r].doc) # {}
     THEN Refuse(r, "conflict")
     ELSE /\ Goto(r, "read")
          /\ UNCHANGED <<docs, sigs, nextId, outbox, row, doomed, answer, commits>>

(* ExistsByDocAndUser: 409 when the user has a committed signature. *)
CheckExists(r) ==
  /\ pc[r] = "check"
  /\ IF \E s \in sigs : SameEntry(s, row[r])
     THEN Refuse(r, "conflict")
     ELSE /\ Goto(r, "read")
          /\ UNCHANGED <<docs, sigs, nextId, outbox, row, doomed, answer, commits>>

(* verifyDocumentIntegrity: the content fetched from the URL has another    *)
(* checksum than the stored one.  Without a URL, or when the fetch fails or *)
(* is refused, nothing is known and the document counts as unmodified.      *)
Modified(stored, fetched) == stored # NoSum /\ fetched # NoSum /\ fetched # stored

(* GetByDocID (live documents only) and verifyDocumentIntegrity: 409 for a *)
(* modified document.  A missing document is signed without checksum.      *)
ReadDocument(r) ==
  LET stored == IF docs[row[r].doc] = Absent THEN NoSum ELSE docs[row[r].doc]
  IN  /\ pc[r] = "read"
      /\ \E fetched \in Checksums \union {NoSum} :
           IF Modified(stored, fetched)
           THEN Refuse(r, "modified")
           ELSE /\ row' = [row EXCEPT ![r].sum = stored]
                /\ Goto(r, "last")
                /\ UNCHANGED <<docs, sigs, nextId, outbox, doomed, answer, commits>>

(* GetLastSignature and ComputeRecordHash: what the new row is chained to. *)
ReadLast(r) ==
  /\ pc[r] = "last"
  /\ \E p \in IF OfDoc(row[r].doc) = {} THEN {Genesis} ELSE LastOf(row[r].doc) :
       row' = [row EXCEPT ![r].prev = p, ![r].seen = commits]
  /\ Goto(r, "insert")
  /\ UNCHANGED <<docs, sigs, nextId, outbox, doomed, answer, commits>>

(* Create, first half: the INSERT draws its id from the sequence. *)
DrawId(r) ==
  /\ pc[r] = "insert"
  /\ row' = [row EXCEPT ![r].id = nextId]
  /\ nextId' = nextId + 1
  /\ Goto(r, "store")
  /\ UNCHANGED <<docs, sigs, outbox, doomed, answer, commits>>

(* Mutant: no unique index, the check at the start is all there is. *)
StoreWithoutIndex(r) ==
  /\ pc[r] = "store"
  /\ Goto(r, "publish")
  /\ UNCHANGED <<docs, sigs, nextId, outbox, row, doomed, answer, commits>>

(* Create, second half: the entry in the unique index.  It waits while an  *)
(* uncommitted rival holds the entry; a committed one is a unique          *)
(* violation, which the handler answers with 500.                          *)
Store(r) ==
  /\ pc[r] = "store"
  /\ \A q \in Requests \ {r} : Holds(q) => ~SameEntry(row[q], row[r])
  /\ IF \E s \in sigs : SameEntry(s, row[r])
     THEN Refuse(r, "error")
     ELSE /\ Goto(r, "publish")
          /\ UNCHANGED <<docs, sigs, nextId, outbox, row, doomed, answer, commits>>

(* Mutant: the deliveries are queued on a connection of their own. *)
PublishOutside(r) ==
  /\ pc[r] = "publish"
  /\ outbox' = outbox \union {row[r].id}
  /\ Goto(r, "answer")
  /\ UNCHANGED <<docs, sigs, nextId, row, doomed, answer, commits>>

(* Publish("signature.created") in the same transaction.  Its error is     *)
(* ignored by the handler, but a failed INSERT dooms the transaction.      *)
PublishCreated(r) ==
  /\ pc[r] = "publish"
  /\ doomed' \in {doomed, [doomed EXCEPT ![r] = TRUE]}
  /\ Goto(r, "answer")
  /\ UNCHANGED <<docs, sigs, nextId, outbox, row, answer, commits>>

(* The handler reads the row back and writes 201, also when that failed. *)
Answer(r) ==
  /\ pc[r] = "answer"
  /\ doomed' \in {doomed, [doomed EXCEPT ![r] = TRUE]}
  /\ answer' = [answer EXCEPT ![r] = "created"]
  /\ Goto(r, "commit")
  /\ UNCHANGED <<docs, sigs, nextId, outbox, row, commits>>

(* The middleware commits; a doomed transaction is rolled back by COMMIT. *)
Commit(r) ==
  /\ pc[r] = "commit"
  /\ IF doomed[r]
     THEN UNCHANGED <<sigs, outbox, commits>>
     ELSE /\ sigs' = sigs \union {[row[r] EXCEPT !.at = commits + 1]}
          /\ outbox' = outbox \union {row[r].id}
          /\ commits' = commits + 1
  /\ Goto(r, "done")
  /\ UNCHANGED <<docs, nextId, row, doomed, answer>>

(* A statement fails before the row is stored: 500 and rollback. *)
StatementFails(r) ==
  /\ pc[r] \in {"check", "read", "last", "insert", "store"}
  /\ Refuse(r, "error")

(* The client goes away, the handler panics, the connection or the process *)
(* is lost: the transaction is rolled back without another answer.         *)
Lost(r) ==
  /\ pc[r] \in InFlight
  /\ Goto(r, "done")
  /\ UNCHANGED <<docs, sigs, nextId, outbox, row, doomed, answer, commits>>

(* CreateDocument or UpdateDocumentMetadata (CreateOrUpdate), which also   *)
(* revives a soft-deleted document.                                        *)
PutDocument(d) ==
  /\ \E c \in Checksums \union {NoSum} : docs' = [docs EXCEPT ![d] = c]
  /\ UNCHANGED <<sigs, nextId, outbox, pc, row, doomed, answer, commits>>

(* Mutant: the signatures go with their document. *)
DeleteWithSignatures(d) ==
  /\ docs[d] # Absent
  /\ docs' = [docs EXCEPT ![d] = Absent]
  /\ sigs' = sigs \ OfDoc(d)
  /\ UNCHANGED <<nextId, outbox, pc, row, doomed, answer, commits>>

(* Delete sets deleted_at; the trigger marks the document's signatures. *)
DeleteDocument(d) ==
  /\ docs[d] # Absent
  /\ docs' = [docs EXCEPT ![d] = Absent]
  /\ sigs' = {[s EXCEPT !.gone = s.gone \/ s.doc = d] : s \in sigs}
  /\ UNCHANGED <<nextId, outbox, pc, row, doomed, answer, commits>>

Serve(r) ==
  \/ CheckExists(r)
  \/ ReadDocument(r)
  \/ ReadLast(r)
  \/ DrawId(r)
  \/ Store(r)
  \/ PublishCreated(r)
  \/ Answer(r)
  \/ Commit(r)

Next ==
  \/ \E r \in Requests : Begin(r) \/ Serve(r) \/ StatementFails(r) \/ Lost(r)
  \/ \E d \in Docs : PutDocument(d) \/ DeleteDocument(d)

Spec == Init /\ [][Next]_vars

(* The goroutine that serves a request keeps running, and PostgreSQL wakes  *)
(* a waiter when the lock it waits for is released.                         *)
FairSpec == Spec /\ \A r \in Requests : WF_vars(Serve(r))
-----------------------------------------------------------------------------
(* Concurrent requests of one user for one document, each past the check   *)
(* of ExistsByDocAndUser, still store a single signature.                  *)
OneSignaturePerUser == \A s, t \in sigs : SameEntry(s, t) => s.id = t.id

(* Whatever the interleaving, prev_hash of a stored signature is empty or   *)
(* the hash of an older stored signature of the same document: a chain     *)
(* never hangs on a row that was rolled back, and walking it terminates.   *)
ChainsBackwards ==
  \A s \in sigs : s.prev = Genesis \/ \E t \in OfDoc(s.doc) : t.id = s.prev /\ t.id < s.id

(* Two signatures of a document hang on the same predecessor only if each   *)
(* request had looked for it before the other one committed: signers who   *)
(* come one after the other are always chained one after the other.        *)
ForksOnlyBetweenOverlapping ==
  \A s, t \in sigs : s.id # t.id /\ s.doc = t.doc /\ s.prev = t.prev
                      => s.seen < t.at /\ t.seen < s.at

(* signature.created is queued for exactly the signatures that are stored: *)
(* no event for a request that was refused, lost or rolled back, and no    *)
(* signature without its event.                                            *)
EventIffSigned == outbox = {s.id : s \in sigs}

(* A 409 "already signed" is never a false alarm, nor one that a rollback  *)
(* of the other request makes false later.                                 *)
ConflictMeansSigned ==
  \A r \in Requests : answer[r] = "conflict" => \E s \in sigs : SameEntry(s, row[r])

(* Stored signatures are never removed and never change, but for the mark  *)
(* that the deletion of their document sets and nothing takes away.        *)
Core(s) == [id |-> s.id, doc |-> s.doc, sub |-> s.sub, prev |-> s.prev]
AppendOnly ==
  [][\A s \in sigs : \E t \in sigs' : Core(t) = Core(s) /\ t.sum = s.sum /\ (s.gone => t.gone)]_vars

(* The store of signatures is an append-only ledger (SignatureLedger). *)
Ledger == INSTANCE SignatureLedger WITH ledger <- {Core(s) : s \in sigs}
ImplementsLedger == Ledger!Spec

(* Every request that was accepted is answered or lost: the wait for a      *)
(* rival's entry in the unique index always ends.                           *)
EveryRequestSettles == \A r \in Requests : pc[r] = "check" ~> pc[r] = "done"

-----------------------------------------------------------------------------
(* A claim of the repository that the code does not keep (see the README). *)

(* RLSMiddleware: "Commits on success (2xx-3xx status)".  When the          *)
(* middleware settles a request answered 201 its row is stored.             *)
CommitsOnSuccess ==
  [][\A r \in Requests : Commit(r) /\ answer[r] = "created" => \E s \in sigs' : s.id = row[r].id]_vars
=============================================================================
