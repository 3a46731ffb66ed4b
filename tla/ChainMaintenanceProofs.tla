----------------------- MODULE ChainMaintenanceProofs -----------------------
(***************************************************************************)
(* Proofs about ChainMaintenance, for any requests, documents, users and   *)
(* checksums, and whatever rows were stored before.  RebuildRepairs needs  *)
(* Repairing: as long as nothing has been committed since the rows were    *)
(* read, every row of the table is linked to its predecessor, or waits in  *)
(* the snapshot with the link it has in the table, or an update has failed.*)
(***************************************************************************)
EXTENDS ChainMaintenance, FiniteSetTheorems, WellFoundedInduction, TLAPS

(* A request has drawn the id of its row. *)
Numbered(r) == pc[r] \in {"store", "publish", "answer", "commit"}

Drawn == \A r \in Requests : Numbered(r) => row[r].id # 0

Repairing ==
  /\ rebuild # "idle" => since <= commits
  /\ \A i \in DOMAIN expected : expected[i] = ExpectedPrev(DOMAIN expected, i)
  /\ rebuild # "idle" /\ commits = since => Ids(sigs) = DOMAIN expected
  /\ rebuild # "idle" /\ commits = since /\ ~skipped =>
       \A s \in sigs : \/ s.prev = expected[s.id]
                        \/ \E t \in snapshot : t.id = s.id /\ t.prev = s.prev

IInv ==
  /\ MaintTypeOK
  /\ Drawn
  /\ Repairing

-----------------------------------------------------------------------------
(* What the loops expect as predecessor is the greatest older id there is. *)
LEMMA LeastNumber ==
  ASSUME NEW T \in SUBSET Nat, T # {}
  PROVE  \E n \in T : \A m \in T : n <= m
<1> DEFINE U == {0..n : n \in T}
           R == StrictSubsetOrdering(Nat)
<1>1. U \subseteq FiniteSubsetsOf(Nat)
  <2>1. \A n \in T : IsFiniteSet(0..n) /\ 0..n \in SUBSET Nat
    BY FS_Interval
  <2>2. QED
    BY <2>1 DEF FiniteSubsetsOf
<1>2. U # {}
  OBVIOUS
<1>3. IsWellFoundedOn(R, FiniteSubsetsOf(Nat))
  BY FS_StrictSubsetOrderingWellFounded
<1> HIDE DEF U, R
<1>4. PICK x \in U : \A y \in U : ~(<<y, x>> \in R)
  BY <1>1, <1>2, <1>3, WFMin
<1>5. PICK n \in T : x = 0..n
  BY DEF U
<1>6. ASSUME NEW m \in T, m < n
      PROVE  FALSE
  <2>1. 0..m \subseteq 0..n /\ 0..m # 0..n /\ 0..m \in SUBSET Nat /\ 0..n \in SUBSET Nat
    <3>1. n \in 0..n /\ n \notin 0..m
      BY <1>6
    <3>2. QED
      BY <1>6, <3>1
  <2>2. <<0..m, 0..n>> \in R
    BY <2>1 DEF R, StrictSubsetOrdering
  <2>3. QED
    BY <1>4, <1>5, <2>2 DEF U
<1>7. QED
  BY <1>6

LEMMA GreatestBelow ==
  ASSUME NEW J \in SUBSET Nat, J # {}, NEW i \in Nat, \A j \in J : j <= i
  PROVE  \E n \in J : \A j \in J : j <= n
<1> DEFINE T == {n \in Nat : \A j \in J : j <= n}
<1>1. T \in SUBSET Nat /\ T # {}
  BY DEF T
<1>2. PICK n \in T : \A m \in T : n <= m
  BY <1>1, LeastNumber
<1>3. n \in Nat /\ \A j \in J : j <= n
  BY <1>2
<1>4. n \in J
  <2> SUFFICES ASSUME n \notin J PROVE FALSE
    OBVIOUS
  <2>1. \A j \in J : j \in Nat /\ j < n
    BY <1>3
  <2>2. n > 0
    <3>1. PICK j \in J : TRUE
      OBVIOUS
    <3>2. j \in Nat /\ j < n
      BY <2>1
    <3>3. QED
      BY <1>3, <3>2
  <2>3. n - 1 \in T
    BY <1>3, <2>1, <2>2
  <2>4. QED
    BY <1>2, <1>3, <2>3
<1>5. QED
  BY <1>3, <1>4

LEMMA ExpectedIsPredecessor ==
  ASSUME NEW I \in SUBSET (Nat \ {0}), NEW i \in I
  PROVE  /\ ExpectedPrev(I, i) \in Nat
         /\ ExpectedPrev(I, i) < i
         /\ ExpectedPrev(I, i) \in Older(I, i) \/ ExpectedPrev(I, i) = Genesis
         /\ \A j \in Older(I, i) : j <= ExpectedPrev(I, i)
<1>1. i \in Nat /\ i > 0
  OBVIOUS
<1>2. CASE Older(I, i) = {}
  BY <1>1, <1>2 DEF ExpectedPrev, Genesis
<1>3. CASE Older(I, i) # {}
  <2>1. Older(I, i) \in SUBSET Nat /\ \A j \in Older(I, i) : j < i /\ j <= i
    <3>1. \A j \in I : j \in Nat
      OBVIOUS
    <3>2. \A j \in Older(I, i) : j \in Nat /\ j < i
      BY <3>1 DEF Older
    <3>3. \A j \in Older(I, i) : j <= i
      BY <1>1, <3>2
    <3>4. QED
      BY <3>2, <3>3
  <2>2. \E n \in Older(I, i) : \A j \in Older(I, i) : j <= n
    BY <1>1, <1>3, <2>1, GreatestBelow
  <2>3. /\ ExpectedPrev(I, i) \in Older(I, i)
        /\ \A j \in Older(I, i) : j <= ExpectedPrev(I, i)
    BY <1>3, <2>2 DEF ExpectedPrev
  <2>4. QED
    BY <2>1, <2>3
<1>4. QED
  BY <1>2, <1>3

(* Rows of requests are rows of the table once they have an id. *)
LEMMA RowIsStored ==
  ASSUME NEW x \in Row, x.id # 0
  PROVE  x \in Stored
BY DEF Row, Stored

(* A link or a mark is written into a row. *)
LEMMA WriteLink ==
  ASSUME NEW x \in Stored, NEW n \in Nat
  PROVE  /\ [x EXCEPT !.prev = n] \in Stored
         /\ [x EXCEPT !.prev = n].prev = n
         /\ [x EXCEPT !.prev = n].id = x.id
         /\ [x EXCEPT !.prev = n].gone = x.gone
         /\ Signed([x EXCEPT !.prev = n]) = Signed(x)
<1> DEFINE D == Docs \union {s.doc : s \in Earlier}
           B == Subs \union {s.sub : s \in Earlier}
           C == Checksums \union {NoSum} \union {s.sum : s \in Earlier}
<1>1. Stored = [id : Nat \ {0}, doc : D, sub : B, prev : Nat, sum : C,
                gone : BOOLEAN, seen : Nat, at : Nat]
  BY DEF Stored
<1> HIDE DEF D, B, C
<1>2. QED
  BY <1>1 DEF Signed

LEMMA WriteMark ==
  ASSUME NEW x \in Stored, NEW g \in BOOLEAN
  PROVE  /\ [x EXCEPT !.gone = g] \in Stored
         /\ [x EXCEPT !.gone = g].gone = g
         /\ [x EXCEPT !.gone = g].id = x.id
         /\ [x EXCEPT !.gone = g].prev = x.prev
         /\ Signed([x EXCEPT !.gone = g]) = Signed(x)
<1> DEFINE D == Docs \union {s.doc : s \in Earlier}
           B == Subs \union {s.sub : s \in Earlier}
           C == Checksums \union {NoSum} \union {s.sum : s \in Earlier}
<1>1. Stored = [id : Nat \ {0}, doc : D, sub : B, prev : Nat, sum : C,
                gone : BOOLEAN, seen : Nat, at : Nat]
  BY DEF Stored
<1> HIDE DEF D, B, C
<1>2. QED
  BY <1>1 DEF Signed

(* So are the columns of a row that a request is building. *)
LEMMA WriteColumns ==
  ASSUME NEW x \in Row, NEW n \in Nat
  PROVE  /\ [x EXCEPT !.id = n] \in Row /\ [x EXCEPT !.id = n].id = n
         /\ [x EXCEPT !.at = n] \in Row /\ [x EXCEPT !.at = n].id = x.id
<1> DEFINE C == Checksums \union {NoSum}
<1>1. Row = [id : Nat, doc : Docs, sub : Subs, prev : Nat, sum : C,
             gone : BOOLEAN, seen : Nat, at : Nat]
  BY DEF Row
<1> HIDE DEF C
<1>2. QED
  BY <1>1


-----------------------------------------------------------------------------
(* The rows of before are in the table, and nothing has been rebuilt.      *)
LEMMA MaintInitIInv == MaintInit => IInv
<1> SUFFICES ASSUME MaintInit PROVE IInv
  OBVIOUS
<1>1. Cardinality(Earlier) \in Nat
  BY EarlierRows, FS_CardinalityType
<1>2. sigs \subseteq Stored
  BY EarlierRows DEF MaintInit
<1>3. row \in [Requests -> Row]
  <2>1. ASSUME NEW x \in [id : {0}, doc : Docs, sub : Subs, prev : {Genesis}, sum : {NoSum},
                          gone : {FALSE}, seen : {0}, at : {0}]
        PROVE  x \in Row
    <3>1. /\ x.gone \in BOOLEAN /\ x.sum \in Checksums \union {NoSum}
          /\ x.doc \in Docs /\ x.sub \in Subs
      BY <2>1
    <3>2. x.id \in Nat /\ x.prev \in Nat /\ x.seen \in Nat /\ x.at \in Nat
      BY <2>1 DEF Genesis
    <3>3. x = [id |-> x.id, doc |-> x.doc, sub |-> x.sub, prev |-> x.prev, sum |-> x.sum,
               gone |-> x.gone, seen |-> x.seen, at |-> x.at]
      BY <2>1
    <3>4. QED
      BY ONLY <3>1, <3>2, <3>3 DEF Row
  <2>2. QED
    BY <2>1 DEF MaintInit
<1>4. DOMAIN expected = {} /\ expected \in [DOMAIN expected -> Nat]
  BY DEF MaintInit
<1>5. docs \in [Docs -> Checksums \union {NoSum, Absent}]
  BY DEF MaintInit
<1>6. pc \in [Requests -> {"idle", "done"} \union InFlight] /\ \A r \in Requests : ~Numbered(r)
  BY DEF MaintInit, Numbered
<1>7. nextId \in Nat \ {0} /\ commits \in Nat
  BY <1>1 DEF MaintInit
<1>8. rebuild = "idle" /\ snapshot = {} /\ skipped = FALSE /\ since = 0
  BY DEF MaintInit
<1>9. MaintTypeOK
  BY <1>2, <1>3, <1>4, <1>5, <1>6, <1>7, <1>8 DEF MaintTypeOK
<1>10. Drawn /\ Repairing
  BY <1>4, <1>6, <1>8 DEF Drawn, Repairing
<1>11. QED
  BY <1>9, <1>10 DEF IInv

(* Steps of the service that neither the table nor the rebuild notices.    *)
LEMMA KeepTable ==
  ASSUME IInv, UNCHANGED maintVars, UNCHANGED <<sigs, commits>>,
         docs' \in [Docs -> Checksums \union {NoSum, Absent}],
         nextId' \in Nat \ {0},
         pc' \in [Requests -> {"idle", "done"} \union InFlight],
         row' \in [Requests -> Row],
         Drawn'
  PROVE  IInv'
<1>1. MaintTypeOK'
  BY DEF IInv, MaintTypeOK, maintVars
<1>2. Repairing'
  BY DEF IInv, Repairing, maintVars
<1>3. QED
  BY <1>1, <1>2 DEF IInv

(* Those of them that only take a request from place l to place m.         *)
LEMMA QuietStep ==
  ASSUME IInv, UNCHANGED maintVars, UNCHANGED <<docs, sigs, nextId, row, commits>>,
         NEW r \in Requests, NEW m \in {"idle", "done"} \union InFlight,
         pc' = [pc EXCEPT ![r] = m],
         m \in {"store", "publish", "answer", "commit"} => Numbered(r)
  PROVE  IInv'
<1>1. pc' \in [Requests -> {"idle", "done"} \union InFlight]
  BY DEF IInv, MaintTypeOK
<1>2. \A q \in Requests : Numbered(q)' => Numbered(q)
  BY DEF IInv, MaintTypeOK, Numbered
<1>3. Drawn'
  BY <1>2 DEF IInv, Drawn
<1>4. QED
  BY <1>1, <1>3, KeepTable DEF IInv, MaintTypeOK

(* Steps that write a column of a row which has no id yet, or draw it.     *)
LEMMA RowStep ==
  ASSUME IInv, UNCHANGED maintVars, UNCHANGED <<docs, sigs, commits>>,
         nextId' \in Nat \ {0},
         NEW r \in Requests, NEW x \in Row,
         row' = [row EXCEPT ![r] = x],
         NEW m \in {"last", "insert", "store"}, pc' = [pc EXCEPT ![r] = m],
         m = "store" => x.id # 0
  PROVE  IInv'
<1>1. pc' \in [Requests -> {"idle", "done"} \union InFlight]
  BY DEF IInv, MaintTypeOK, InFlight
<1>2. row' \in [Requests -> Row]
  BY DEF IInv, MaintTypeOK
<1>3. Drawn'
  <2>1. \A q \in Requests \ {r} : row'[q] = row[q] /\ (Numbered(q)' => Numbered(q))
    BY DEF IInv, MaintTypeOK, Numbered
  <2>2. Numbered(r)' => row'[r].id # 0
    BY DEF IInv, MaintTypeOK, Numbered
  <2>3. QED
    BY <2>1, <2>2 DEF IInv, Drawn
<1>4. QED
  BY <1>1, <1>2, <1>3, KeepTable DEF IInv, MaintTypeOK

LEMMA ReadDocumentIInv ==
  ASSUME IInv, UNCHANGED maintVars, NEW r \in Requests, ReadDocument(r)
  PROVE  IInv'
<1>1. CASE Refuse(r, "modified")
  BY <1>1, QuietStep DEF Refuse, Goto
<1>2. CASE ~Refuse(r, "modified")
  <2>1. PICK c \in Checksums \union {NoSum} :
          /\ row' = [row EXCEPT ![r].sum = c]
          /\ pc' = [pc EXCEPT ![r] = "last"]
          /\ UNCHANGED <<docs, sigs, nextId, commits>>
    <3>1. docs[row[r].doc] \in Checksums \union {NoSum, Absent}
      BY DEF IInv, MaintTypeOK, Row
    <3>2. (IF docs[row[r].doc] = Absent THEN NoSum ELSE docs[row[r].doc])
            \in Checksums \union {NoSum}
      BY <3>1
    <3>3. QED
      BY <1>2, <3>2 DEF ReadDocument, Goto
  <2>2. PICK x \in Row : x = [row[r] EXCEPT !.sum = c]
    BY DEF IInv, MaintTypeOK, Row
  <2>3. row' = [row EXCEPT ![r] = x]
    BY <2>1, <2>2
  <2>4. nextId' \in Nat \ {0}
    BY <2>1 DEF IInv, MaintTypeOK
  <2>5. QED
    BY <2>1, <2>3, <2>4, RowStep
<1>3. QED
  BY <1>1, <1>2

LEMMA ReadLastIInv ==
  ASSUME IInv, UNCHANGED maintVars, NEW r \in Requests, ReadLast(r)
  PROVE  IInv'
<1>1. PICK p \in Nat : row' = [row EXCEPT ![r].prev = p, ![r].seen = commits]
  <2>1. \A s \in sigs : s.id \in Nat
    BY DEF IInv, MaintTypeOK, Stored
  <2>2. \A p \in LastOf(row[r].doc) : p \in Nat
    BY <2>1 DEF LastOf, OfDoc
  <2>3. QED
    BY <2>2 DEF ReadLast, Genesis
<1>2. PICK x \in Row : x = [row[r] EXCEPT !.prev = p, !.seen = commits]
  BY DEF IInv, MaintTypeOK, Row
<1>3. row' = [row EXCEPT ![r] = x]
  BY <1>1, <1>2
<1>4. /\ pc' = [pc EXCEPT ![r] = "insert"] /\ UNCHANGED <<docs, sigs, commits>>
      /\ nextId' \in Nat \ {0}
  BY DEF ReadLast, Goto, IInv, MaintTypeOK
<1>5. QED
  BY <1>3, <1>4, RowStep

LEMMA DrawIdIInv ==
  ASSUME IInv, UNCHANGED maintVars, NEW r \in Requests, DrawId(r)
  PROVE  IInv'
<1>1. nextId \in Nat \ {0}
  BY DEF IInv, MaintTypeOK
<1>2. PICK x \in Row : x = [row[r] EXCEPT !.id = nextId] /\ x.id # 0
  <2>1. row[r] \in Row
    BY DEF IInv, MaintTypeOK
  <2>2. QED
    BY <1>1, <2>1, WriteColumns
<1>3. row' = [row EXCEPT ![r] = x]
  BY <1>2 DEF DrawId
<1>4. /\ pc' = [pc EXCEPT ![r] = "store"] /\ UNCHANGED <<docs, sigs, commits>>
      /\ nextId' \in Nat \ {0}
  BY <1>1 DEF DrawId, Goto
<1>5. QED
  BY <1>2, <1>3, <1>4, RowStep

(* A commit is noticed: the table is no longer the one that was read.      *)
LEMMA CommitIInv ==
  ASSUME IInv, UNCHANGED maintVars, NEW r \in Requests, Commit(r)
  PROVE  IInv'
<1>1. CASE doomed[r]
  BY <1>1, QuietStep DEF Commit, Goto
<1>2. CASE ~doomed[r]
  <2>1. /\ pc[r] = "commit" /\ pc' = [pc EXCEPT ![r] = "done"]
        /\ sigs' = sigs \union {[row[r] EXCEPT !.at = commits + 1]}
        /\ commits' = commits + 1
        /\ UNCHANGED <<docs, nextId, row>>
    BY <1>2 DEF Commit, Goto
  <2>2. commits \in Nat /\ since \in Nat
    BY DEF IInv, MaintTypeOK
  <2>3. row[r] \in Row /\ row[r].id # 0
    BY <2>1 DEF IInv, MaintTypeOK, Drawn, Numbered
  <2>4. [row[r] EXCEPT !.at = commits + 1] \in Stored
    <3>1. PICK y \in Row : y = row[r] /\ y.id # 0
      BY <2>3
    <3>2. PICK n \in Nat : n = commits + 1
      BY <2>2
    <3>3. [y EXCEPT !.at = n] \in Row /\ [y EXCEPT !.at = n].id = y.id
      BY WriteColumns
    <3>4. [y EXCEPT !.at = n] \in Stored
      BY <3>1, <3>3, RowIsStored
    <3>5. QED
      BY <3>1, <3>2, <3>4
  <2>5. pc' \in [Requests -> {"idle", "done"} \union InFlight]
    BY <2>1 DEF IInv, MaintTypeOK
  <2>6. sigs' \subseteq Stored
    BY <2>1, <2>4 DEF IInv, MaintTypeOK
  <2>7. MaintTypeOK'
    BY <2>1, <2>2, <2>5, <2>6 DEF IInv, MaintTypeOK, maintVars
  <2>8. Drawn'
    <3>1. \A q \in Requests : Numbered(q)' => Numbered(q)
      BY <2>1 DEF IInv, MaintTypeOK, Numbered
    <3>2. QED
      BY <2>1, <3>1 DEF IInv, Drawn
  <2>9. Repairing'
    <3>1. rebuild # "idle" => since < commits'
      BY <2>1, <2>2 DEF IInv, Repairing
    <3>2. QED
      BY <2>1, <2>2, <3>1 DEF IInv, Repairing, maintVars
  <2>10. QED
    BY <2>7, <2>8, <2>9 DEF IInv
<1>3. QED
  BY <1>1, <1>2

(* The mark of a deletion is not a link.                                   *)
LEMMA DeleteDocumentIInv ==
  ASSUME IInv, UNCHANGED maintVars, NEW d \in Docs, DeleteDocument(d)
  PROVE  IInv'
<1>1. /\ docs' = [docs EXCEPT ![d] = Absent]
      /\ sigs' = {[s EXCEPT !.gone = s.gone \/ s.doc = d] : s \in sigs}
      /\ UNCHANGED <<nextId, pc, row, commits>>
  BY DEF DeleteDocument
<1>2. \A s \in sigs : s \in Stored /\ (s.gone \/ s.doc = d) \in BOOLEAN
  BY DEF IInv, MaintTypeOK, Stored
<1>3. ASSUME NEW t \in sigs'
      PROVE  t \in Stored /\ \E s \in sigs : t.id = s.id /\ t.prev = s.prev
  <2>1. PICK s \in sigs : t = [s EXCEPT !.gone = s.gone \/ s.doc = d]
    BY <1>1
  <2>2. PICK g \in BOOLEAN : g = (s.gone \/ s.doc = d)
    BY <1>2
  <2>3. t = [s EXCEPT !.gone = g]
    BY <2>1, <2>2
  <2>4. QED
    BY <1>2, <2>3, WriteMark
<1>4. \A s \in sigs : \E t \in sigs' : t.id = s.id
  <2>1. TAKE s \in sigs
  <2>2. [s EXCEPT !.gone = s.gone \/ s.doc = d] \in sigs'
    BY <1>1
  <2>3. [s EXCEPT !.gone = s.gone \/ s.doc = d].id = s.id
    BY <1>2, WriteMark
  <2>4. QED
    BY <2>2, <2>3
<1>5. Ids(sigs)' = Ids(sigs)
  BY <1>3, <1>4 DEF Ids
<1>6. docs' \in [Docs -> Checksums \union {NoSum, Absent}]
  BY <1>1 DEF IInv, MaintTypeOK
<1>7. sigs' \subseteq Stored
  BY <1>3
<1>8. MaintTypeOK'
  BY <1>1, <1>6, <1>7 DEF IInv, MaintTypeOK, maintVars
<1>9. Drawn'
  BY <1>1 DEF IInv, Drawn, Numbered
<1>10. Repairing'
  BY <1>1, <1>3, <1>5 DEF IInv, Repairing, maintVars
<1>11. QED
  BY <1>8, <1>9, <1>10 DEF IInv


(* The other actions of the service.                                       *)
LEMMA ServiceIInv ==
  ASSUME IInv, UNCHANGED maintVars, Next
  PROVE  IInv'
<1>1. CASE \E d \in Docs : PutDocument(d)
  <2>1. docs' \in [Docs -> Checksums \union {NoSum, Absent}]
    BY <1>1 DEF PutDocument, IInv, MaintTypeOK
  <2>2. UNCHANGED <<sigs, nextId, pc, row, commits>>
    BY <1>1 DEF PutDocument
  <2>3. Drawn'
    BY <2>2 DEF IInv, Drawn, Numbered
  <2>4. QED
    BY <2>1, <2>2, <2>3, KeepTable DEF IInv, MaintTypeOK
<1>2. CASE \E d \in Docs : DeleteDocument(d)
  BY <1>2, DeleteDocumentIInv
<1>3. ASSUME NEW r \in Requests, Begin(r) \/ Serve(r) \/ StatementFails(r) \/ Lost(r)
      PROVE  IInv'
  <2>1. CASE Begin(r)
    BY <2>1, QuietStep DEF Begin, Goto, InFlight
  <2>2. CASE CheckExists(r)
    BY <2>2, QuietStep DEF CheckExists, Refuse, Goto, InFlight
  <2>3. CASE ReadDocument(r)
    BY <2>3, ReadDocumentIInv
  <2>4. CASE ReadLast(r)
    BY <2>4, ReadLastIInv
  <2>5. CASE DrawId(r)
    BY <2>5, DrawIdIInv
  <2>6. CASE Store(r)
    BY <2>6, QuietStep DEF Store, Refuse, Goto, InFlight, Numbered
  <2>7. CASE PublishCreated(r)
    BY <2>7, QuietStep DEF PublishCreated, Goto, InFlight, Numbered
  <2>8. CASE Answer(r)
    BY <2>8, QuietStep DEF Answer, Goto, InFlight, Numbered
  <2>9. CASE Commit(r)
    BY <2>9, CommitIInv
  <2>10. CASE StatementFails(r)
    BY <2>10, QuietStep DEF StatementFails, Refuse, Goto
  <2>11. CASE Lost(r)
    BY <2>11, QuietStep DEF Lost, Goto
  <2>12. QED
    BY <1>3, <2>1, <2>2, <2>3, <2>4, <2>5, <2>6, <2>7, <2>8, <2>9, <2>10, <2>11 DEF Serve
<1>4. QED
  BY <1>1, <1>2, <1>3 DEF Next

-----------------------------------------------------------------------------
(* Everything that was read waits with the link that it has.               *)
LEMMA StartRebuildIInv ==
  ASSUME IInv, StartRebuild
  PROVE  IInv'
<1>1. /\ rebuild' = "running" /\ snapshot' = sigs /\ since' = commits
      /\ expected' = [i \in Ids(sigs) |-> ExpectedPrev(Ids(sigs), i)]
      /\ UNCHANGED <<docs, sigs, nextId, pc, row, commits, skipped>>
  BY DEF StartRebuild
<1>2. Ids(sigs) \in SUBSET (Nat \ {0}) /\ \A s \in sigs : s.id \in Ids(sigs)
  BY DEF IInv, MaintTypeOK, Stored, Ids
<1>3. \A i \in Ids(sigs) : ExpectedPrev(Ids(sigs), i) \in Nat /\ ExpectedPrev(Ids(sigs), i) < i
  BY <1>2, ExpectedIsPredecessor
<1>4. /\ DOMAIN expected' = Ids(sigs)
      /\ expected' \in [Ids(sigs) -> Nat]
      /\ \A i \in Ids(sigs) : expected'[i] = ExpectedPrev(Ids(sigs), i)
  BY <1>1, <1>3
<1>5. \A s \in snapshot' : s.id \in DOMAIN expected' /\ expected'[s.id] < s.id
  BY <1>1, <1>2, <1>3, <1>4
<1>6. MaintTypeOK'
  BY <1>1, <1>4, <1>5 DEF IInv, MaintTypeOK
<1>7. Drawn'
  BY <1>1 DEF IInv, Drawn, Numbered
<1>8. Repairing'
  <2>1. since' <= commits'
    BY <1>1 DEF IInv, MaintTypeOK
  <2>2. Ids(sigs)' = Ids(sigs)
    BY <1>1 DEF Ids
  <2>3. \A s \in sigs' : \E t \in snapshot' : t.id = s.id /\ t.prev = s.prev
    BY <1>1
  <2>4. QED
    BY <1>4, <2>1, <2>2, <2>3 DEF Repairing
<1>9. QED
  BY <1>6, <1>7, <1>8 DEF IInv

(* What a turn of the loop does to the table: nothing, or it writes the    *)
(* expected link into the rows with the id of s.                           *)
LEMMA VisitWrites ==
  ASSUME IInv, NEW s \in snapshot, Visit(s)
  PROVE  /\ sigs' \subseteq Stored
         /\ Ids(sigs)' = Ids(sigs)
         /\ \A t \in sigs' : \E u \in sigs :
              /\ t.id = u.id
              /\ t.prev = u.prev \/ (u.id = s.id /\ t.prev = expected[s.id])
              /\ u.id = s.id /\ ~skipped' => t.prev = expected[s.id] \/ (t.prev = u.prev /\ s.prev = expected[s.id])
         /\ \A u \in sigs : \E t \in sigs' : Signed(t) = Signed(u) /\ t.id = u.id /\ t.gone = u.gone
<1>1. sigs \subseteq Stored
  BY DEF IInv, MaintTypeOK
<1>2. PICK e \in Nat : e = expected[s.id]
  BY DEF IInv, MaintTypeOK
<1>3. CASE sigs' = sigs /\ (~skipped' => s.prev = expected[s.id])
  BY <1>1, <1>3 DEF Ids
<1>4. CASE sigs' = {IF t.id = s.id THEN [t EXCEPT !.prev = e] ELSE t : t \in sigs}
  <2>1. ASSUME NEW u \in sigs
        PROVE  /\ [u EXCEPT !.prev = e] \in Stored
               /\ [u EXCEPT !.prev = e].prev = e
               /\ [u EXCEPT !.prev = e].id = u.id
               /\ [u EXCEPT !.prev = e].gone = u.gone
               /\ Signed([u EXCEPT !.prev = e]) = Signed(u)
    BY <1>1, WriteLink
  <2>2. ASSUME NEW t \in sigs'
        PROVE  \E u \in sigs : \/ u.id # s.id /\ t = u
                               \/ u.id = s.id /\ t.id = u.id /\ t.prev = e /\ t \in Stored
    <3>1. PICK u \in sigs : t = IF u.id = s.id THEN [u EXCEPT !.prev = e] ELSE u
      BY <1>4
    <3>2. QED
      BY <2>1, <3>1
  <2>3. ASSUME NEW u \in sigs
        PROVE  \E t \in sigs' : Signed(t) = Signed(u) /\ t.id = u.id /\ t.gone = u.gone
    <3>1. (IF u.id = s.id THEN [u EXCEPT !.prev = e] ELSE u) \in sigs'
      BY <1>4
    <3>2. QED
      BY <2>1, <3>1
  <2>4. sigs' \subseteq Stored
    BY <1>1, <2>2
  <2>5. Ids(sigs)' = Ids(sigs)
    <3>1. \A t \in sigs' : \E u \in sigs : t.id = u.id
      BY <2>2
    <3>2. \A u \in sigs : \E t \in sigs' : t.id = u.id
      BY <2>3
    <3>3. QED
      BY <3>1, <3>2 DEF Ids
  <2>6. QED
    BY <1>2, <2>2, <2>3, <2>4, <2>5
<1>5. QED
  BY <1>2, <1>3, <1>4 DEF Visit

LEMMA VisitIInv ==
  ASSUME IInv, NEW s \in snapshot, Visit(s)
  PROVE  IInv'
<1>1. /\ rebuild = "running" /\ snapshot' = snapshot \ {s}
      /\ UNCHANGED <<docs, nextId, pc, row, commits, rebuild, expected, since>>
      /\ skipped' \in {skipped, TRUE}
  BY DEF Visit
<1>2. sigs' \subseteq Stored /\ Ids(sigs)' = Ids(sigs)
  BY VisitWrites
<1>3. MaintTypeOK'
  BY <1>1, <1>2 DEF IInv, MaintTypeOK
<1>4. Drawn'
  BY <1>1 DEF IInv, Drawn, Numbered
<1>5. ASSUME commits = since, ~skipped', NEW t \in sigs'
      PROVE  \/ t.prev = expected[t.id]
             \/ \E u \in snapshot' : u.id = t.id /\ u.prev = t.prev
  <2>1. PICK u \in sigs :
          /\ t.id = u.id
          /\ t.prev = u.prev \/ (u.id = s.id /\ t.prev = expected[s.id])
          /\ u.id = s.id => t.prev = expected[s.id] \/ (t.prev = u.prev /\ s.prev = expected[s.id])
    BY <1>5, VisitWrites
  <2>2. CASE t.prev = expected[t.id]
    BY <2>2
  <2>3. CASE t.prev # expected[t.id]
    <3>1. t.prev = u.prev /\ (u.id = s.id => s.prev = expected[s.id])
      BY <2>1, <2>3
    <3>2. ~skipped
      BY <1>1, <1>5
    <3>3. PICK v \in snapshot : v.id = u.id /\ v.prev = u.prev
      BY <1>1, <1>5, <2>1, <2>3, <3>1, <3>2 DEF IInv, Repairing
    <3>4. v # s
      BY <2>1, <2>3, <3>1, <3>3
    <3>5. QED
      BY <1>1, <2>1, <3>1, <3>3, <3>4
  <2>4. QED
    BY <2>2, <2>3
<1>6. Repairing'
  BY <1>1, <1>2, <1>5 DEF IInv, Repairing
<1>7. QED
  BY <1>3, <1>4, <1>6 DEF IInv

LEMMA NextIInv == IInv /\ [MaintNext]_allVars => IInv'
<1> SUFFICES ASSUME IInv, [MaintNext]_allVars PROVE IInv'
  OBVIOUS
<1>1. CASE Next /\ UNCHANGED maintVars
  BY <1>1, ServiceIInv
<1>2. CASE StartRebuild
  BY <1>2, StartRebuildIInv
<1>3. CASE \E s \in snapshot : Visit(s)
  BY <1>3, VisitIInv
<1>4. CASE FinishRebuild
  <2>1. MaintTypeOK'
    BY <1>4 DEF FinishRebuild, IInv, MaintTypeOK
  <2>2. Drawn' /\ Repairing'
    BY <1>4 DEF FinishRebuild, IInv, Drawn, Numbered, Repairing
  <2>3. QED
    BY <2>1, <2>2 DEF IInv
<1>5. CASE UNCHANGED allVars
  <2>1. MaintTypeOK'
    BY <1>5 DEF allVars, IInv, MaintTypeOK
  <2>2. Drawn' /\ Repairing'
    BY <1>5 DEF allVars, IInv, Drawn, Numbered, Repairing
  <2>3. QED
    BY <2>1, <2>2 DEF IInv
<1>6. QED
  BY <1>1, <1>2, <1>3, <1>4, <1>5 DEF MaintNext

-----------------------------------------------------------------------------
(* The inductive invariant holds throughout, beside any requests.          *)
THEOREM Invariance == MaintSpec => []IInv
<1>1. MaintInit => IInv
  BY MaintInitIInv
<1>2. IInv /\ [MaintNext]_allVars => IInv'
  BY NextIInv
<1>3. QED
  BY <1>1, <1>2, PTL DEF MaintSpec

(* Types, of the table that the requests and the rebuild share; what the   *)
(* rebuild expects as the predecessor of a row is older than the row.      *)
THEOREM TypeCorrect == MaintSpec => []MaintTypeOK
<1>1. IInv => MaintTypeOK
  BY DEF IInv
<1>2. QED
  BY <1>1, Invariance, PTL

(* A rebuild whose updates all succeeded leaves a table that verifies, if  *)
(* no signature was committed since it read the rows.                      *)
THEOREM RebuildsRepair == MaintSpec => []RebuildRepairs
<1>1. IInv => RebuildRepairs
  <2> SUFFICES ASSUME IInv, rebuild = "done", ~skipped, commits = since,
                      NEW s \in sigs
               PROVE  s.prev = ExpectedPrev(Ids(sigs), s.id)
    BY DEF RebuildRepairs, VerifyChain
  <2>1. snapshot = {}
    BY DEF IInv, MaintTypeOK
  <2>2. s.prev = expected[s.id]
    BY <2>1 DEF IInv, Repairing
  <2>3. Ids(sigs) = DOMAIN expected
    BY DEF IInv, Repairing
  <2>4. s.id \in DOMAIN expected
    BY <2>3 DEF Ids
  <2>5. QED
    BY <2>2, <2>3, <2>4 DEF IInv, Repairing
<1>2. QED
  BY <1>1, Invariance, PTL

(* No step, of the rebuild or of what runs beside it, loses or alters a    *)
(* signature, or takes the mark of a deletion away.                        *)
THEOREM RebuildsKeepSignatures == MaintSpec => RebuildKeepsSignatures
<1>1. ASSUME IInv, [MaintNext]_allVars, NEW s \in sigs
      PROVE  \E t \in sigs' : Signed(t) = Signed(s) /\ (s.gone => t.gone)
  <2>1. CASE s \in sigs'
    BY <2>1
  <2>2. CASE \E u \in snapshot : Visit(u)
    <3>1. PICK t \in sigs' : Signed(t) = Signed(s) /\ t.gone = s.gone
      BY <1>1, <2>2, VisitWrites
    <3>2. QED
      BY <3>1
  <2>3. CASE \E d \in Docs : DeleteDocument(d)
    <3>1. PICK d \in Docs : DeleteDocument(d)
      BY <2>3
    <3>2. s \in Stored
      BY <1>1 DEF IInv, MaintTypeOK
    <3>3. PICK g \in BOOLEAN : g = (s.gone \/ s.doc = d)
      BY <3>2 DEF Stored
    <3>4. [s EXCEPT !.gone = g] \in sigs'
      BY <3>1, <3>3 DEF DeleteDocument
    <3>5. [s EXCEPT !.gone = g].gone = g /\ Signed([s EXCEPT !.gone = g]) = Signed(s)
      BY <3>2, WriteMark
    <3>6. QED
      BY <3>3, <3>4, <3>5
  <2>4. CASE /\ ~ \E u \in snapshot : Visit(u)
             /\ ~ \E d \in Docs : DeleteDocument(d)
    <3>1. sigs \subseteq sigs'
      BY <1>1, <2>4 DEF MaintNext, Next, Serve, Begin, CheckExists, ReadDocument, ReadLast,
           DrawId, Store, PublishCreated, Answer, Commit, StatementFails, Lost, PutDocument,
           Refuse, StartRebuild, FinishRebuild, allVars
    <3>2. QED
      BY <3>1
  <2>5. QED
    BY <2>2, <2>3, <2>4
<1>2. IInv /\ [MaintNext]_allVars =>
        [\A s \in sigs : \E t \in sigs' : Signed(t) = Signed(s) /\ (s.gone => t.gone)]_allVars
  BY <1>1
<1>3. QED
  BY <1>2, Invariance, PTL DEF MaintSpec, RebuildKeepsSignatures
=============================================================================
