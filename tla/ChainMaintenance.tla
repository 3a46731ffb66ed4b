-------------------------- MODULE ChainMaintenance --------------------------
(***************************************************************************)
(* VerifyChainIntegrity and RebuildChain of SignatureService, beside the   *)
(* requests that keep signing.  Both treat the table as ONE chain over all *)
(* documents, in the order of id.  RebuildChain reads all rows and then    *)
(* updates them one statement at a time; an update that fails is logged    *)
(* and skipped.  The program calls neither outside its tests.              *)
(***************************************************************************)
EXTENDS SignatureChain

CONSTANT Earlier    \* rows that were stored before the requests come, also by other users

(* The rows of the table: those of before may be of other documents and    *)
(* users than the requests.                                                *)
Stored == [id : Nat \ {0}, doc : Docs \union {s.doc : s \in Earlier}, sub : Subs \union {s.sub : s \in Earlier},
           prev : Nat, sum : Checksums \union {NoSum} \union {s.sum : s \in Earlier},
           gone : BOOLEAN, seen : Nat, at : Nat]

ASSUME EarlierRows ==
  /\ IsFiniteSet(Earlier)
  /\ Earlier \subseteq Stored
  /\ {s.id : s \in Earlier} = 1 .. Cardinality(Earlier)
  /\ \A s, t \in Earlier : s.id = t.id \/ SameEntry(s, t) => s = t
  /\ \A s \in Earlier : s.prev = Genesis \/ \E t \in Earlier : t.doc = s.doc /\ t.id = s.prev /\ t.id < s.id

VARIABLES
  rebuild,    \* where RebuildChain is: "idle", "running", "done"
  snapshot,   \* the rows it has read and not yet visited
  expected,   \* the prev_hash it computed for each of the rows it read
  skipped,    \* whether an update has failed
  since       \* (history) the number of commits when the rows were read

maintVars == <<rebuild, snapshot, expected, skipped, since>>
allVars == <<docs, sigs, nextId, outbox, pc, row, doomed, answer, commits,
             rebuild, snapshot, expected, skipped, since>>

Ids(S) == {s.id : s \in S}

Older(I, i) == {j \in I : j < i}

(* The hash of the row just before row i of a table with ids I, nothing    *)
(* for the first one.                                                      *)
ExpectedPrev(I, i) ==
  IF Older(I, i) = {} THEN Genesis
  ELSE CHOOSE j \in Older(I, i) : \A k \in Older(I, i) : k <= j

(* VerifyChainIntegrity(...).IsValid *)
VerifyChain(S) == \A s \in S : s.prev = ExpectedPrev(Ids(S), s.id)

(* Types; and every row that was read is visited before the loop ends, with *)
(* an expected predecessor that is older than the row.                     *)
MaintTypeOK ==
  /\ docs \in [Docs -> Checksums \union {NoSum, Absent}]
  /\ sigs \subseteq Stored
  /\ nextId \in Nat \ {0}
  /\ pc \in [Requests -> {"idle", "done"} \union InFlight]
  /\ row \in [Requests -> Row]
  /\ commits \in Nat
  /\ rebuild \in {"idle", "running", "done"}
  /\ snapshot \subseteq Stored
  /\ snapshot # {} => rebuild = "running"
  /\ \A s \in snapshot : s.id \in DOMAIN expected /\ expected[s.id] < s.id
  /\ expected \in [DOMAIN expected -> Nat]
  /\ skipped \in BOOLEAN
  /\ since \in Nat

MaintInit ==
  /\ docs = [d \in Docs |-> Absent]
  /\ sigs = Earlier /\ outbox = Ids(Earlier)
  /\ nextId = Cardinality(Earlier) + 1 /\ commits = Cardinality(Earlier)
  /\ pc = [r \in Requests |-> "idle"]
  /\ row \in [Requests -> [id : {0}, doc : Docs, sub : Subs, prev : {Genesis}, sum : {NoSum},
                           gone : {FALSE}, seen : {0}, at : {0}]]
  /\ doomed = [r \in Requests |-> FALSE]
  /\ answer = [r \in Requests |-> "none"]
  /\ rebuild = "idle" /\ snapshot = {} /\ expected = <<>> /\ skipped = FALSE /\ since = 0

(* GetAllSignaturesOrdered *)
StartRebuild ==
  /\ rebuild = "idle"
  /\ rebuild' = "running"
  /\ snapshot' = sigs
  /\ expected' = [i \in Ids(sigs) |-> ExpectedPrev(Ids(sigs), i)]
  /\ since' = commits
  /\ UNCHANGED <<docs, sigs, nextId, outbox, pc, row, doomed, answer, commits, skipped>>

(* Mutants: the whole row is written back as it was read; the first two    *)
(* rows are taken for granted.                                             *)
VisitWritesRow(s) ==
  /\ rebuild = "running" /\ s \in snapshot /\ Older(Ids(snapshot), s.id) = {}
  /\ snapshot' = snapshot \ {s}
  /\ sigs' = {IF t.id = s.id THEN [s EXCEPT !.prev = expected[s.id]] ELSE t : t \in sigs}
  /\ UNCHANGED <<docs, nextId, outbox, pc, row, doomed, answer, commits, rebuild, expected, skipped, since>>

VisitFromThird(s) ==
  /\ rebuild = "running" /\ s \in snapshot /\ Older(Ids(snapshot), s.id) = {}
  /\ snapshot' = snapshot \ {s}
  /\ sigs' = {IF t.id = s.id /\ Cardinality(Older(DOMAIN expected, s.id)) > 1
              THEN [t EXCEPT !.prev = expected[s.id]] ELSE t : t \in sigs}
  /\ UNCHANGED <<docs, nextId, outbox, pc, row, doomed, answer, commits, rebuild, expected, skipped, since>>

(* One turn of the loop: UpdatePrevHash when the value that was read is    *)
(* not the expected one.  The rows are visited in the order of id.         *)
Visit(s) ==
  /\ rebuild = "running" /\ s \in snapshot /\ Older(Ids(snapshot), s.id) = {}
  /\ snapshot' = snapshot \ {s}
  /\ \/ /\ sigs' = IF s.prev = expected[s.id] THEN sigs
                   ELSE {IF t.id = s.id THEN [t EXCEPT !.prev = expected[s.id]] ELSE t : t \in sigs}
        /\ UNCHANGED skipped
     \/ /\ s.prev # expected[s.id]
        /\ skipped' = TRUE
        /\ UNCHANGED sigs
  /\ UNCHANGED <<docs, nextId, outbox, pc, row, doomed, answer, commits, rebuild, expected, since>>

(* "Chain rebuild completed" *)
FinishRebuild ==
  /\ rebuild = "running" /\ snapshot = {}
  /\ rebuild' = "done"
  /\ UNCHANGED <<docs, sigs, nextId, outbox, pc, row, doomed, answer, commits, snapshot, expected, skipped, since>>

MaintNext ==
  \/ Next /\ UNCHANGED maintVars
  \/ StartRebuild
  \/ \E s \in snapshot : Visit(s)
  \/ FinishRebuild

MaintSpec == MaintInit /\ [][MaintNext]_allVars /\ \A r \in Requests : WF_allVars(Serve(r) /\ UNCHANGED maintVars)

-----------------------------------------------------------------------------
(* A rebuild whose updates all succeeded leaves a table that verifies, as  *)
(* long as no signature was committed since it read the rows, although     *)
(* documents may have been deleted and requests been running meanwhile.    *)
RebuildRepairs == rebuild = "done" /\ ~skipped /\ commits = since => VerifyChain(sigs)

(* Rebuilding touches prev_hash only: it neither loses nor alters a        *)
(* signature that requests commit, or a deletion marks, while it runs.     *)
Signed(s) == [id |-> s.id, doc |-> s.doc, sub |-> s.sub, sum |-> s.sum]
RebuildKeepsSignatures ==
  [][\A s \in sigs : \E t \in sigs' : Signed(t) = Signed(s) /\ (s.gone => t.gone)]_allVars
=============================================================================
