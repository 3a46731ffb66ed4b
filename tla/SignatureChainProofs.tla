------------------------ MODULE SignatureChainProofs ------------------------
(***************************************************************************)
(* Proofs about SignatureChain, for any requests, documents, users and     *)
(* checksums.  The safety properties of the store follow from one          *)
(* inductive invariant, IInv, which adds to them what holds of the rows    *)
(* that requests are still building:                                       *)
(*   - a row that has drawn its number shares it with no other row,        *)
(*   - a row that holds its entry in the unique index is the only one to,  *)
(*   - the predecessor a request has looked up stays stored, is older than *)
(*     the number it draws, and is the latest of what it could see.        *)
(***************************************************************************)
EXTENDS SignatureChain, TLAPS

Numbered(r) == pc[r] \in {"store", "publish", "answer", "commit"}
Chained(r)  == pc[r] = "insert" \/ Numbered(r)

Numbers ==
  /\ \A s \in sigs : s.id > 0 /\ s.id < nextId
  /\ \A s, t \in sigs : s.id = t.id => s = t
  /\ \A r \in Requests : Numbered(r) => row[r].id > 0 /\ row[r].id < nextId
  /\ \A r \in Requests : Numbered(r) => \A s \in sigs : s.id # row[r].id
  /\ \A q, r \in Requests : Numbered(q) /\ Numbered(r) /\ q # r => row[q].id # row[r].id

Entries ==
  /\ \A r \in Requests : Holds(r) => \A s \in sigs : ~SameEntry(s, row[r])
  /\ \A q, r \in Requests : Holds(q) /\ Holds(r) /\ q # r => ~SameEntry(row[q], row[r])

Links ==
  /\ \A r \in Requests : Chained(r) =>
       row[r].prev = Genesis \/ \E t \in sigs : t.doc = row[r].doc /\ t.id = row[r].prev
  /\ \A r \in Requests : Numbered(r) => row[r].prev < row[r].id

Views ==
  /\ \A s \in sigs : s.at <= commits /\ s.seen <= commits
  /\ \A r \in Requests : Chained(r) => row[r].seen <= commits
  /\ \A r \in Requests : Chained(r) =>
       \A t \in sigs : t.doc = row[r].doc /\ t.at <= row[r].seen => t.id <= row[r].prev
  /\ \A s, t \in sigs : t.doc = s.doc /\ t.at <= s.seen => t.id <= s.prev

IInv ==
  /\ TypeOK
  /\ Numbers
  /\ Entries
  /\ Links
  /\ Views
  /\ OneSignaturePerUser
  /\ ChainsBackwards
  /\ EventIffSigned
  /\ ConflictMeansSigned

-----------------------------------------------------------------------------
(* The table is empty and no request has a row when the server starts.    *)
LEMMA InitIInv == Init => IInv
<1> SUFFICES ASSUME Init PROVE IInv
  OBVIOUS
<1>1. TypeOK
  <2>1. docs \in [Docs -> Checksums \union {NoSum, Absent}]
    BY DEF Init
  <2>2. row \in [Requests -> Row]
    <3>1. ASSUME NEW x \in [id : {0}, doc : Docs, sub : Subs, prev : {Genesis}, sum : {NoSum},
                            gone : {FALSE}, seen : {0}, at : {0}]
          PROVE  x \in Row
      <4>1. x \in [id : {0}, doc : Docs, sub : Subs, prev : {0}, sum : {NoSum},
                   gone : {FALSE}, seen : {0}, at : {0}]
        BY DEF Genesis
      <4>2. x.gone \in BOOLEAN
        BY <4>1
      <4>3. x.sum \in Checksums \union {NoSum}
        BY <4>1
      <4>4. x.id \in Nat /\ x.prev \in Nat /\ x.seen \in Nat /\ x.at \in Nat
        BY <4>1
      <4>5. x.doc \in Docs /\ x.sub \in Subs
        BY <4>1
      <4>6. x = [id |-> x.id, doc |-> x.doc, sub |-> x.sub, prev |-> x.prev, sum |-> x.sum,
                 gone |-> x.gone, seen |-> x.seen, at |-> x.at]
        BY <4>1
      <4>7. QED
        BY ONLY <4>2, <4>3, <4>4, <4>5, <4>6 DEF Row
    <3>2. QED
      BY <3>1 DEF Init
  <2>3. QED
    BY <2>1, <2>2 DEF Init, TypeOK
<1>2. Numbers /\ Entries /\ Links /\ Views
  BY DEF Init, Numbers, Entries, Links, Views, Numbered, Chained, Holds
<1>3. OneSignaturePerUser /\ ChainsBackwards /\ EventIffSigned /\ ConflictMeansSigned
  BY DEF Init, OneSignaturePerUser, ChainsBackwards, EventIffSigned, ConflictMeansSigned
<1>4. QED
  BY <1>1, <1>2, <1>3 DEF IInv

(* Steps of a request that leave the stored signatures and all rows alone  *)
(* and take the request from place l to place m.                           *)
LEMMA QuietStep ==
  ASSUME IInv, NEW r \in Requests,
         UNCHANGED <<docs, sigs, nextId, outbox, row, commits>>,
         NEW m \in {"idle", "done"} \union InFlight, pc' = [pc EXCEPT ![r] = m],
         doomed' \in [Requests -> BOOLEAN],
         \A q \in Requests : doomed[q] => doomed'[q],
         answer' \in [Requests -> {"none", "created", "conflict", "modified", "error"}],
         \A q \in Requests : answer'[q] = "conflict" => 
              answer[q] = "conflict" \/ \E s \in sigs : SameEntry(s, row[q]),
         m \in {"check", "read", "last", "done"} 
           \/ (pc[r] = "publish" /\ m = "answer") \/ (pc[r] = "answer" /\ m = "commit")
           \/ (/\ pc[r] = "store" /\ m = "publish"
               /\ \A s \in sigs : ~SameEntry(s, row[r])
               /\ \A q \in Requests \ {r} : Holds(q) => ~SameEntry(row[q], row[r]))
  PROVE  IInv'
<1>1. TypeOK'
  BY DEF IInv, TypeOK, InFlight
<1>2. \A q \in Requests : (Numbered(q)' => Numbered(q)) /\ (Chained(q)' => Chained(q))
  BY DEF IInv, TypeOK, Numbered, Chained
<1>3. Numbers'
  BY <1>2 DEF IInv, Numbers
<1>4. Links' /\ Views'
  BY <1>2 DEF IInv, Links, Views
<1>5. \A q \in Requests \ {r} : Holds(q)' => Holds(q)
  BY DEF IInv, TypeOK, Holds
<1>6. Entries'
  <2>1. CASE pc[r] = "store" /\ m = "publish"
    <3>1. \A s \in sigs : ~SameEntry(s, row[r])
      BY <2>1
    <3>2. \A q \in Requests \ {r} : Holds(q) => ~SameEntry(row[q], row[r])
      BY <2>1
    <3>3. QED
      BY <1>5, <3>1, <3>2 DEF IInv, Entries, SameEntry
  <2>2. CASE ~(pc[r] = "store" /\ m = "publish")
    <3>1. Holds(r)' => Holds(r)
      BY <2>2 DEF IInv, TypeOK, Holds
    <3>2. QED
      BY <1>5, <3>1 DEF IInv, Entries, SameEntry
  <2>3. QED
    BY <2>1, <2>2
<1>7. OneSignaturePerUser' /\ ChainsBackwards' /\ EventIffSigned'
  BY DEF IInv, OneSignaturePerUser, ChainsBackwards, EventIffSigned, OfDoc, SameEntry
<1>8. ConflictMeansSigned'
  BY DEF IInv, ConflictMeansSigned, SameEntry
<1>9. QED
  BY <1>1, <1>3, <1>4, <1>6, <1>7, <1>8 DEF IInv

-----------------------------------------------------------------------------
(* The checksum a request copies from the document changes nothing that    *)
(* the chain depends on.                                                   *)
LEMMA ReadDocumentIInv ==
  ASSUME IInv, NEW r \in Requests, ReadDocument(r)
  PROVE  IInv'
<1>1. CASE Refuse(r, "modified")
  <2>1. /\ UNCHANGED <<docs, sigs, nextId, outbox, row, commits>>
        /\ pc' = [pc EXCEPT ![r] = "done"]
        /\ doomed' = doomed
        /\ answer' = [answer EXCEPT ![r] = "modified"]
    BY <1>1 DEF Refuse, Goto
  <2>2. QED
    BY <2>1, QuietStep DEF IInv, TypeOK
<1>2. CASE ~Refuse(r, "modified")
  <2>1. PICK c \in Checksums \union {NoSum} :
          /\ row' = [row EXCEPT ![r].sum = c]
          /\ pc' = [pc EXCEPT ![r] = "last"]
          /\ UNCHANGED <<docs, sigs, nextId, outbox, doomed, answer, commits>>
    <3>1. docs[row[r].doc] \in Checksums \union {NoSum, Absent}
      BY DEF IInv, TypeOK, Row
    <3>2. (IF docs[row[r].doc] = Absent THEN NoSum ELSE docs[row[r].doc])
            \in Checksums \union {NoSum}
      BY <3>1
    <3>3. QED
      BY <1>2, <3>2 DEF ReadDocument, Goto
  <2>2. row' \in [Requests -> Row]
    <3>1. [row[r] EXCEPT !.sum = c] \in Row
      BY DEF IInv, TypeOK, Row
    <3>2. QED
      BY <2>1, <3>1 DEF IInv, TypeOK
  <2>3. \A q \in Requests : /\ row'[q].id = row[q].id /\ row'[q].doc = row[q].doc
                            /\ row'[q].sub = row[q].sub /\ row'[q].prev = row[q].prev
                            /\ row'[q].seen = row[q].seen
    BY <2>1 DEF IInv, TypeOK, Row
  <2>4. TypeOK'
    BY <2>1, <2>2 DEF IInv, TypeOK, InFlight
  <2>5. ~Chained(r)' /\ ~Numbered(r)' /\ ~Holds(r)'
    BY <2>1 DEF IInv, TypeOK, Chained, Numbered, Holds
  <2>6. \A q \in Requests \ {r} : /\ Chained(q)' = Chained(q) /\ Numbered(q)' = Numbered(q)
                                  /\ Holds(q)' = Holds(q)
    BY <2>1 DEF IInv, TypeOK, Chained, Numbered, Holds
  <2>7. Numbers' /\ Entries' /\ Links' /\ Views'
    BY <2>1, <2>3, <2>5, <2>6 DEF IInv, Numbers, Entries, Links, Views, SameEntry
  <2>8. OneSignaturePerUser' /\ ChainsBackwards' /\ EventIffSigned' /\ ConflictMeansSigned'
    BY <2>1, <2>3 DEF IInv, OneSignaturePerUser, ChainsBackwards, EventIffSigned,
                      ConflictMeansSigned, OfDoc, SameEntry
  <2>9. QED
    BY <2>4, <2>7, <2>8 DEF IInv
<1>3. QED
  BY <1>1, <1>2

(* What GetLastSignature returns is stored, of the same document, and the  *)
(* latest of what is stored at that moment.                                *)
LEMMA ReadLastIInv ==
  ASSUME IInv, NEW r \in Requests, ReadLast(r)
  PROVE  IInv'
<1>1. PICK p \in Nat :
        /\ row' = [row EXCEPT ![r].prev = p, ![r].seen = commits]
        /\ p = Genesis \/ \E t \in sigs : t.doc = row[r].doc /\ t.id = p
        /\ \A t \in sigs : t.doc = row[r].doc => t.id <= p
  <2>1. CASE OfDoc(row[r].doc) = {}
    BY <2>1 DEF ReadLast, OfDoc, Genesis
  <2>2. CASE OfDoc(row[r].doc) # {}
    <3>1. PICK p \in LastOf(row[r].doc) : row' = [row EXCEPT ![r].prev = p, ![r].seen = commits]
      BY <2>2 DEF ReadLast
    <3>2. PICK s \in OfDoc(row[r].doc) : p = s.id /\ \A u \in OfDoc(row[r].doc) : u.id <= s.id
      BY DEF LastOf
    <3>3. p \in Nat
      BY <3>2 DEF IInv, TypeOK, Row, OfDoc
    <3>4. QED
      BY <3>1, <3>2, <3>3 DEF OfDoc
  <2>3. QED
    BY <2>1, <2>2
<1>2. /\ pc[r] = "last" /\ pc' = [pc EXCEPT ![r] = "insert"]
      /\ UNCHANGED <<docs, sigs, nextId, outbox, doomed, answer, commits>>
  BY DEF ReadLast, Goto
<1>3. row' \in [Requests -> Row]
  <2>1. [row[r] EXCEPT !.prev = p, !.seen = commits] \in Row
    BY DEF IInv, TypeOK, Row
  <2>2. QED
    BY <1>1, <2>1 DEF IInv, TypeOK
<1>4. /\ row'[r].prev = p /\ row'[r].seen = commits
      /\ \A q \in Requests : /\ row'[q].id = row[q].id /\ row'[q].doc = row[q].doc
                             /\ row'[q].sub = row[q].sub
                             /\ q # r => row'[q].prev = row[q].prev /\ row'[q].seen = row[q].seen
  BY <1>1 DEF IInv, TypeOK, Row
<1>5. TypeOK'
  BY <1>2, <1>3 DEF IInv, TypeOK, InFlight
<1>6. ~Numbered(r)' /\ ~Holds(r)'
  BY <1>2 DEF IInv, TypeOK, Numbered, Holds
<1>7. \A q \in Requests \ {r} : /\ Chained(q)' = Chained(q) /\ Numbered(q)' = Numbered(q)
                                /\ Holds(q)' = Holds(q)
  BY <1>2 DEF IInv, TypeOK, Chained, Numbered, Holds
<1>8. Numbers' /\ Entries'
  BY <1>2, <1>4, <1>6, <1>7 DEF IInv, Numbers, Entries, SameEntry
<1>9. Links'
  BY <1>1, <1>2, <1>4, <1>6, <1>7 DEF IInv, Links
<1>10. Views'
  <2>1. \A s \in sigs : s.id \in Nat /\ s.at \in Nat
    BY DEF IInv, TypeOK, Row
  <2>2. commits \in Nat
    BY DEF IInv, TypeOK
  <2>3. \A q \in Requests : Chained(q)' =>
          /\ row'[q].seen <= commits
          /\ \A t \in sigs : t.doc = row[q].doc /\ t.at <= row'[q].seen => t.id <= row'[q].prev
    <3> SUFFICES ASSUME NEW q \in Requests, Chained(q)'
                 PROVE  /\ row'[q].seen <= commits
                        /\ \A t \in sigs : t.doc = row[q].doc /\ t.at <= row'[q].seen
                                          => t.id <= row'[q].prev
      OBVIOUS
    <3>1. CASE q = r
      <4>1. row'[r].seen <= commits
        BY <1>4, <2>2
      <4>2. \A t \in sigs : t.doc = row[r].doc => t.id <= row'[r].prev
        BY <1>1, <1>4
      <4>3. QED
        BY <3>1, <4>1, <4>2
    <3>2. CASE q # r
      BY <1>4, <1>7, <3>2 DEF IInv, Views
    <3>3. QED
      BY <3>1, <3>2
  <2>4. QED
    BY <1>2, <1>4, <2>3 DEF IInv, Views
<1>11. OneSignaturePerUser' /\ ChainsBackwards' /\ EventIffSigned' /\ ConflictMeansSigned'
  BY <1>2, <1>4 DEF IInv, OneSignaturePerUser, ChainsBackwards, EventIffSigned,
                    ConflictMeansSigned, OfDoc, SameEntry
<1>12. QED
  BY <1>5, <1>8, <1>9, <1>10, <1>11 DEF IInv

(* The number drawn from the sequence is new and above every stored one.   *)
LEMMA DrawIdIInv ==
  ASSUME IInv, NEW r \in Requests, DrawId(r)
  PROVE  IInv'
<1>1. /\ pc[r] = "insert" /\ pc' = [pc EXCEPT ![r] = "store"]
      /\ row' = [row EXCEPT ![r].id = nextId] /\ nextId' = nextId + 1
      /\ UNCHANGED <<docs, sigs, outbox, doomed, answer, commits>>
  BY DEF DrawId, Goto
<1>2. nextId \in Nat \ {0} /\ commits \in Nat
  BY DEF IInv, TypeOK
<1>3. row' \in [Requests -> Row]
  <2>1. [row[r] EXCEPT !.id = nextId] \in Row
    BY DEF IInv, TypeOK, Row
  <2>2. QED
    BY <1>1, <2>1 DEF IInv, TypeOK
<1>4. /\ row'[r].id = nextId
      /\ \A q \in Requests : /\ row'[q].doc = row[q].doc /\ row'[q].sub = row[q].sub
                             /\ row'[q].prev = row[q].prev /\ row'[q].seen = row[q].seen
                             /\ q # r => row'[q].id = row[q].id
  BY <1>1 DEF IInv, TypeOK, Row
<1>5. TypeOK'
  BY <1>1, <1>2, <1>3 DEF IInv, TypeOK, InFlight
<1>6. Chained(r) /\ Chained(r)' /\ ~Numbered(r) /\ Numbered(r)' /\ ~Holds(r)'
  BY <1>1 DEF IInv, TypeOK, Chained, Numbered, Holds
<1>7. \A q \in Requests \ {r} : /\ Chained(q)' = Chained(q) /\ Numbered(q)' = Numbered(q)
                                /\ Holds(q)' = Holds(q)
  BY <1>1 DEF IInv, TypeOK, Chained, Numbered, Holds
<1>8. \A s \in sigs : s.id \in Nat
  BY DEF IInv, TypeOK, Row
<1>9. \A q \in Requests : row[q].id \in Nat /\ row[q].prev \in Nat
  BY DEF IInv, TypeOK, Row
<1>10. Numbers'
  BY <1>1, <1>2, <1>4, <1>6, <1>7, <1>8, <1>9 DEF IInv, Numbers
<1>11. Entries'
  BY <1>1, <1>4, <1>6, <1>7 DEF IInv, Entries, SameEntry
<1>12. Links'
  <2>1. row[r].prev < nextId
    BY <1>2, <1>6 DEF IInv, Links, Numbers, Genesis
  <2>2. QED
    BY <1>1, <1>4, <1>6, <1>7, <2>1 DEF IInv, Links
<1>13. Views'
  BY <1>1, <1>4, <1>6, <1>7 DEF IInv, Views
<1>14. OneSignaturePerUser' /\ ChainsBackwards' /\ EventIffSigned' /\ ConflictMeansSigned'
  BY <1>1, <1>4 DEF IInv, OneSignaturePerUser, ChainsBackwards, EventIffSigned,
                    ConflictMeansSigned, OfDoc, SameEntry
<1>15. QED
  BY <1>5, <1>10, <1>11, <1>12, <1>13, <1>14 DEF IInv

(* The row a request commits keeps ids unique, its entry single and its    *)
(* chain backwards, because nobody else can hold the entry.                *)
LEMMA CommitIInv ==
  ASSUME IInv, NEW r \in Requests, Commit(r)
  PROVE  IInv'
<1>1. /\ pc[r] = "commit" /\ pc' = [pc EXCEPT ![r] = "done"]
      /\ UNCHANGED <<docs, nextId, row, doomed, answer>>
  BY DEF Commit, Goto
<1>2. CASE doomed[r]
  <2>1. UNCHANGED <<sigs, outbox, commits>>
    BY <1>2 DEF Commit
  <2>2. QED
    BY <1>1, <2>1, QuietStep DEF IInv, TypeOK
<1>3. CASE ~doomed[r]
  <2> DEFINE new == [row[r] EXCEPT !.at = commits + 1]
  <2>1. /\ sigs' = sigs \union {new} /\ outbox' = outbox \union {row[r].id}
        /\ commits' = commits + 1
    BY <1>3 DEF Commit
  <2>2. /\ commits \in Nat /\ row[r] \in Row /\ new \in Row
        /\ new.id = row[r].id /\ new.doc = row[r].doc /\ new.sub = row[r].sub
        /\ new.prev = row[r].prev /\ new.seen = row[r].seen /\ new.at = commits + 1
    <3>1. commits \in Nat /\ row[r] \in Row
      BY DEF IInv, TypeOK
    <3>2. commits + 1 \in Nat
      BY <3>1
    <3>3. QED
      BY <3>1, <3>2 DEF Row
  <2> HIDE DEF new
  <2>3. \A s \in sigs : s.id \in Nat /\ s.at \in Nat /\ s.seen \in Nat /\ s.prev \in Nat
    BY DEF IInv, TypeOK, Row
  <2>4. \A q \in Requests : row[q].id \in Nat /\ row[q].prev \in Nat /\ row[q].seen \in Nat
    BY DEF IInv, TypeOK, Row
  <2>5. Chained(r) /\ Numbered(r) /\ Holds(r) /\ ~Chained(r)' /\ ~Numbered(r)' /\ ~Holds(r)'
    BY <1>1, <1>3 DEF IInv, TypeOK, Chained, Numbered, Holds
  <2>6. \A q \in Requests \ {r} : Chained(q)' = Chained(q) /\ Numbered(q)' = Numbered(q)
                                  /\ Holds(q)' = Holds(q)
    BY <1>1 DEF IInv, TypeOK, Chained, Numbered, Holds
  <2>7. TypeOK'
    <3>1. outbox' \subseteq Nat
      BY <2>1, <2>4 DEF IInv, TypeOK
    <3>2. QED
      BY <1>1, <2>1, <2>2, <3>1 DEF IInv, TypeOK, InFlight
  <2>8. Numbers'
    BY <1>1, <2>1, <2>2, <2>5, <2>6 DEF IInv, Numbers
  <2>9. Entries' /\ OneSignaturePerUser'
    BY <1>1, <2>1, <2>2, <2>5, <2>6 DEF IInv, Entries, OneSignaturePerUser, SameEntry
  <2>10. Links'
    BY <1>1, <2>1, <2>5, <2>6 DEF IInv, Links
  <2>11. Views'
    <3>1. (\A s \in sigs : s.at <= commits /\ s.seen <= commits)'
      <4>1. \A s \in sigs : s.at <= commits + 1 /\ s.seen <= commits + 1
        BY <2>2, <2>3 DEF IInv, Views
      <4>2. new.at <= commits + 1 /\ new.seen <= commits + 1
        BY <2>2, <2>4, <2>5 DEF IInv, Views
      <4>3. QED
        BY <2>1, <4>1, <4>2
    <3>2. \A q \in Requests : Chained(q)' => row[q].seen <= commits + 1
      BY <2>2, <2>4, <2>5, <2>6 DEF IInv, Views
    <3>3. \A q \in Requests : Chained(q)' =>
            \A t \in sigs' : t.doc = row[q].doc /\ t.at <= row[q].seen => t.id <= row[q].prev
      BY <2>1, <2>2, <2>4, <2>5, <2>6 DEF IInv, Views
    <3>4. \A s, t \in sigs' : t.doc = s.doc /\ t.at <= s.seen => t.id <= s.prev
      <4> SUFFICES ASSUME NEW s \in sigs', NEW t \in sigs', t.doc = s.doc, t.at <= s.seen
                   PROVE  t.id <= s.prev
        OBVIOUS
      <4>1. \A u \in sigs : u.seen <= commits
        BY DEF IInv, Views
      <4>2. row[r].seen <= commits
        BY <2>5 DEF IInv, Views
      <4>3. CASE t = new
        BY <2>1, <2>2, <2>3, <2>4, <4>1, <4>2, <4>3
      <4>4. CASE t \in sigs /\ s = new
        BY <2>2, <2>5, <4>4 DEF IInv, Views
      <4>5. CASE t \in sigs /\ s \in sigs
        BY <4>5 DEF IInv, Views
      <4>6. QED
        BY <2>1, <4>3, <4>4, <4>5
    <3>5. QED
      BY <1>1, <2>1, <3>1, <3>2, <3>3, <3>4 DEF Views
  <2>12. ChainsBackwards'
    <3>1. new.prev = Genesis \/ \E t \in sigs : t.doc = new.doc /\ t.id = new.prev /\ t.id < new.id
      BY <2>2, <2>5 DEF IInv, Links
    <3>2. QED
      BY <2>1, <3>1 DEF IInv, ChainsBackwards, OfDoc
  <2>13. EventIffSigned'
    BY <2>1, <2>2 DEF IInv, EventIffSigned
  <2>14. ConflictMeansSigned'
    BY <1>1, <2>1 DEF IInv, ConflictMeansSigned, SameEntry
  <2>15. QED
    BY <2>7, <2>8, <2>9, <2>10, <2>11, <2>12, <2>13, <2>14 DEF IInv
<1>4. QED
  BY <1>2, <1>3

(* The deletion marks signatures, and every other column stays as it was. *)
LEMMA DeleteDocumentIInv ==
  ASSUME IInv, NEW d \in Docs, DeleteDocument(d)
  PROVE  IInv'
<1> DEFINE mark(s) == [s EXCEPT !.gone = s.gone \/ s.doc = d]
<1>1. /\ docs' = [docs EXCEPT ![d] = Absent]
      /\ sigs' = {mark(s) : s \in sigs}
      /\ UNCHANGED <<nextId, outbox, pc, row, doomed, answer, commits>>
  BY DEF DeleteDocument
<1>2. \A s \in sigs : /\ mark(s).id = s.id /\ mark(s).doc = s.doc /\ mark(s).sub = s.sub
                      /\ mark(s).prev = s.prev /\ mark(s).seen = s.seen /\ mark(s).at = s.at
  BY DEF IInv, TypeOK, Row
<1>3. \A s \in sigs : mark(s) \in Row
  <2> SUFFICES ASSUME NEW s \in sigs PROVE mark(s) \in Row
    OBVIOUS
  <2>1. s \in Row
    BY DEF IInv, TypeOK
  <2>2. (s.gone \/ s.doc = d) \in BOOLEAN
    OBVIOUS
  <2>3. QED
    BY <2>1, <2>2 DEF Row
<1> HIDE DEF mark
<1>4. TypeOK'
  <2>1. docs' \in [Docs -> Checksums \union {NoSum, Absent}]
    BY <1>1 DEF IInv, TypeOK
  <2>2. QED
    BY <1>1, <1>3, <2>1 DEF IInv, TypeOK
<1>5. \A q \in Requests : Chained(q)' = Chained(q) /\ Numbered(q)' = Numbered(q) /\ Holds(q)' = Holds(q)
  BY <1>1 DEF Chained, Numbered, Holds
<1>6. Numbers'
  BY <1>1, <1>2, <1>5 DEF IInv, Numbers
<1>7. Entries' /\ OneSignaturePerUser' /\ ConflictMeansSigned'
  BY <1>1, <1>2, <1>5 DEF IInv, Entries, OneSignaturePerUser, ConflictMeansSigned, SameEntry
<1>8. Links' /\ ChainsBackwards'
  BY <1>1, <1>2, <1>5 DEF IInv, Links, ChainsBackwards, OfDoc
<1>9. Views'
  BY <1>1, <1>2, <1>5 DEF IInv, Views
<1>10. EventIffSigned'
  BY <1>1, <1>2 DEF IInv, EventIffSigned
<1>11. QED
  BY <1>4, <1>6, <1>7, <1>8, <1>9, <1>10 DEF IInv

(* Creating, updating or reviving a document leaves signatures alone.      *)
LEMMA PutDocumentIInv ==
  ASSUME IInv, NEW d \in Docs, PutDocument(d)
  PROVE  IInv'
<1>1. /\ docs' \in [Docs -> Checksums \union {NoSum, Absent}]
      /\ UNCHANGED <<sigs, nextId, outbox, pc, row, doomed, answer, commits>>
  BY DEF PutDocument, IInv, TypeOK
<1>2. TypeOK'
  BY <1>1 DEF IInv, TypeOK
<1>3. Numbers' /\ Entries' /\ Links' /\ Views'
  BY <1>1 DEF IInv, Numbers, Entries, Links, Views, Numbered, Chained, Holds
<1>4. OneSignaturePerUser' /\ ChainsBackwards' /\ EventIffSigned' /\ ConflictMeansSigned'
  BY <1>1 DEF IInv, OneSignaturePerUser, ChainsBackwards, EventIffSigned, ConflictMeansSigned, OfDoc
<1>5. QED
  BY <1>2, <1>3, <1>4 DEF IInv

(* Every step of the system preserves the inductive invariant.             *)
LEMMA NextIInv == IInv /\ [Next]_vars => IInv'
<1> SUFFICES ASSUME IInv, [Next]_vars PROVE IInv'
  OBVIOUS
<1>1. ASSUME NEW r \in Requests, Begin(r) PROVE IInv'
  BY <1>1, QuietStep DEF Begin, Goto, IInv, TypeOK, InFlight
<1>2. ASSUME NEW r \in Requests, CheckExists(r) PROVE IInv'
  <2>1. CASE \E s \in sigs : SameEntry(s, row[r])
    <3>1. Refuse(r, "conflict")
      BY <1>2, <2>1 DEF CheckExists
    <3>2. QED
      BY <2>1, <3>1, QuietStep DEF Refuse, Goto, IInv, TypeOK
  <2>2. CASE ~\E s \in sigs : SameEntry(s, row[r])
    <3>1. Goto(r, "read") /\ UNCHANGED <<docs, sigs, nextId, outbox, row, doomed, answer, commits>>
      BY <1>2, <2>2 DEF CheckExists
    <3>2. QED
      BY <3>1, QuietStep DEF Goto, IInv, TypeOK, InFlight
  <2>3. QED
    BY <2>1, <2>2
<1>3. ASSUME NEW r \in Requests, Store(r) PROVE IInv'
  <2>1. CASE \E s \in sigs : SameEntry(s, row[r])
    <3>1. Refuse(r, "error")
      BY <1>3, <2>1 DEF Store
    <3>2. QED
      BY <3>1, QuietStep DEF Refuse, Goto, IInv, TypeOK
  <2>2. CASE ~\E s \in sigs : SameEntry(s, row[r])
    <3>1. /\ pc[r] = "store" /\ pc' = [pc EXCEPT ![r] = "publish"]
          /\ UNCHANGED <<docs, sigs, nextId, outbox, row, doomed, answer, commits>>
      BY <1>3, <2>2 DEF Store, Goto
    <3>2. \A q \in Requests \ {r} : Holds(q) => ~SameEntry(row[q], row[r])
      BY <1>3 DEF Store
    <3>3. QED
      BY <2>2, <3>1, <3>2, QuietStep DEF IInv, TypeOK, InFlight
  <2>3. QED
    BY <2>1, <2>2
<1>4. ASSUME NEW r \in Requests, PublishCreated(r) PROVE IInv'
  <2>1. /\ pc[r] = "publish" /\ pc' = [pc EXCEPT ![r] = "answer"]
        /\ UNCHANGED <<docs, sigs, nextId, outbox, row, answer, commits>>
        /\ doomed' \in [Requests -> BOOLEAN]
        /\ \A q \in Requests : doomed[q] => doomed'[q]
    BY <1>4 DEF PublishCreated, Goto, IInv, TypeOK
  <2>2. QED
    BY <2>1, QuietStep DEF IInv, TypeOK, InFlight
<1>5. ASSUME NEW r \in Requests, Answer(r) PROVE IInv'
  BY <1>5, QuietStep DEF Answer, Goto, IInv, TypeOK, InFlight
<1>6. ASSUME NEW r \in Requests, StatementFails(r) PROVE IInv'
  BY <1>6, QuietStep DEF StatementFails, Refuse, Goto, IInv, TypeOK
<1>7. ASSUME NEW r \in Requests, Lost(r) PROVE IInv'
  BY <1>7, QuietStep DEF Lost, Goto, IInv, TypeOK
<1>8. CASE UNCHANGED vars
  <2>1. UNCHANGED <<docs, sigs, nextId, outbox, pc, row, doomed, answer, commits>>
    BY <1>8 DEF vars
  <2>2. TypeOK' /\ Numbers' /\ Entries' /\ Links' /\ Views'
    BY <2>1 DEF IInv, TypeOK, Numbers, Entries, Links, Views, Numbered, Chained, Holds
  <2>3. OneSignaturePerUser' /\ ChainsBackwards' /\ EventIffSigned' /\ ConflictMeansSigned'
    BY <2>1 DEF IInv, OneSignaturePerUser, ChainsBackwards, EventIffSigned, ConflictMeansSigned, OfDoc
  <2>4. QED
    BY <2>2, <2>3 DEF IInv
<1>9. QED
  BY <1>1, <1>2, <1>3, <1>4, <1>5, <1>6, <1>7, <1>8, ReadDocumentIInv, ReadLastIInv, DrawIdIInv,
     CommitIInv, DeleteDocumentIInv, PutDocumentIInv DEF Next, Serve

(* The inductive invariant holds in every reachable state.                 *)
THEOREM Invariance == Spec => []IInv
<1>1. Init => IInv
  BY InitIInv
<1>2. IInv /\ [Next]_vars => IInv'
  BY NextIInv
<1>3. QED
  BY <1>1, <1>2, PTL DEF Spec

-----------------------------------------------------------------------------
(* Every variable keeps its type: in particular the sequence never hands   *)
(* out the number that stands for "no signature".                          *)
THEOREM TypeCorrect == Spec => []TypeOK
<1>1. IInv => TypeOK
  BY DEF IInv
<1>2. QED
  BY <1>1, Invariance, PTL

(* However many requests race, a user signs a document at most once. *)
THEOREM AtMostOneSignature == Spec => []OneSignaturePerUser
<1>1. IInv => OneSignaturePerUser
  BY DEF IInv
<1>2. QED
  BY <1>1, Invariance, PTL

(* Every chain of stored signatures leads back to one without predecessor. *)
THEOREM ChainsWellFounded == Spec => []ChainsBackwards
<1>1. IInv => ChainsBackwards
  BY DEF IInv
<1>2. QED
  BY <1>1, Invariance, PTL

(* Only requests that overlapped can have forked a chain. *)
THEOREM ForksNeedOverlap == Spec => []ForksOnlyBetweenOverlapping
<1>1. IInv => ForksOnlyBetweenOverlapping
  <2> SUFFICES ASSUME IInv, NEW s \in sigs, NEW t \in sigs,
                      s.id # t.id, s.doc = t.doc, s.prev = t.prev
               PROVE  s.seen < t.at /\ t.seen < s.at
    BY DEF ForksOnlyBetweenOverlapping
  <2>1. \A u \in sigs : /\ u.id \in Nat /\ u.at \in Nat /\ u.seen \in Nat /\ u.prev \in Nat
                        /\ u.prev < u.id
    BY DEF IInv, TypeOK, Row, Numbers, ChainsBackwards, Genesis, OfDoc
  <2>2. ~(t.at <= s.seen)
    BY <2>1 DEF IInv, Views
  <2>3. ~(s.at <= t.seen)
    BY <2>1 DEF IInv, Views
  <2>4. QED
    BY <2>1, <2>2, <2>3
<1>2. QED
  BY <1>1, Invariance, PTL

(* signature.created events and stored signatures correspond one to one. *)
THEOREM EventsMatchSignatures == Spec => []EventIffSigned
<1>1. IInv => EventIffSigned
  BY DEF IInv
<1>2. QED
  BY <1>1, Invariance, PTL

(* A 409 answer is true when it is given and for ever after. *)
THEOREM ConflictsAreReal == Spec => []ConflictMeansSigned
<1>1. IInv => ConflictMeansSigned
  BY DEF IInv
<1>2. QED
  BY <1>1, Invariance, PTL

(* What a step can do to the stored signatures. *)
LEMMA StoreSteps ==
  ASSUME IInv, [Next]_vars
  PROVE  \/ UNCHANGED sigs
         \/ \E r \in Requests : /\ Holds(r) /\ Numbered(r)
                                /\ sigs' = sigs \union {[row[r] EXCEPT !.at = commits + 1]}
         \/ \E d \in Docs : sigs' = {[s EXCEPT !.gone = s.gone \/ s.doc = d] : s \in sigs}
<1>1. ASSUME NEW r \in Requests, Commit(r), ~doomed[r]
      PROVE  /\ Holds(r) /\ Numbered(r)
             /\ sigs' = sigs \union {[row[r] EXCEPT !.at = commits + 1]}
  BY <1>1 DEF Commit, Holds, Numbered
<1>2. ASSUME NEW r \in Requests, Commit(r), doomed[r]
      PROVE  UNCHANGED sigs
  BY <1>2 DEF Commit
<1>3. ASSUME NEW r \in Requests,
             \/ Begin(r) \/ CheckExists(r) \/ ReadDocument(r) \/ ReadLast(r) \/ DrawId(r) \/ Store(r)
             \/ PublishCreated(r) \/ Answer(r) \/ StatementFails(r) \/ Lost(r)
      PROVE  UNCHANGED sigs
  BY <1>3 DEF Begin, CheckExists, ReadDocument, ReadLast, DrawId, Store, PublishCreated, Answer,
              StatementFails, Lost, Refuse
<1>4. ASSUME NEW d \in Docs, PutDocument(d) PROVE UNCHANGED sigs
  BY <1>4 DEF PutDocument
<1>5. ASSUME NEW d \in Docs, DeleteDocument(d)
      PROVE  sigs' = {[s EXCEPT !.gone = s.gone \/ s.doc = d] : s \in sigs}
  BY <1>5 DEF DeleteDocument
<1>6. CASE UNCHANGED vars
  BY <1>6 DEF vars
<1>7. QED
  BY <1>1, <1>2, <1>3, <1>4, <1>5, <1>6 DEF Next, Serve

(* No step removes a stored signature, changes what it attests or takes    *)
(* back the mark of a deleted document.                                    *)
THEOREM SignaturesAreForever == Spec => AppendOnly
<1>1. ASSUME IInv, [Next]_vars, NEW s \in sigs
      PROVE  \E t \in sigs' : Core(t) = Core(s) /\ t.sum = s.sum /\ (s.gone => t.gone)
  <2>1. CASE sigs \subseteq sigs'
    BY <2>1
  <2>2. ASSUME NEW d \in Docs, sigs' = {[u EXCEPT !.gone = u.gone \/ u.doc = d] : u \in sigs}
        PROVE  \E t \in sigs' : Core(t) = Core(s) /\ t.sum = s.sum /\ (s.gone => t.gone)
    <3> DEFINE t == [s EXCEPT !.gone = s.gone \/ s.doc = d]
    <3>1. t \in sigs'
      BY <2>2
    <3>2. Core(t) = Core(s) /\ t.sum = s.sum /\ (s.gone => t.gone)
      BY <1>1 DEF IInv, TypeOK, Row, Core
    <3>3. QED
      BY <3>1, <3>2
  <2>3. QED
    BY <1>1, <2>1, <2>2, StoreSteps
<1>2. IInv /\ [Next]_vars =>
        [\A s \in sigs : \E t \in sigs' : Core(t) = Core(s) /\ t.sum = s.sum /\ (s.gone => t.gone)]_vars
  BY <1>1
<1>3. QED
  BY <1>2, Invariance, PTL DEF Spec, AppendOnly

(* The store of signatures implements the abstract ledger: every step      *)
(* appends one signature the ledger may take, or leaves the ledger alone.  *)
THEOREM RefinesLedger == Spec => ImplementsLedger
<1>1. Init => Ledger!Init
  BY DEF Init, Ledger!Init
<1>2. IInv /\ [Next]_vars => [Ledger!Append]_({Core(s) : s \in sigs})
  <2> SUFFICES ASSUME IInv, [Next]_vars
               PROVE  \/ Ledger!Append
                      \/ {Core(s) : s \in sigs}' = {Core(s) : s \in sigs}
    OBVIOUS
  <2>1. CASE UNCHANGED sigs
    BY <2>1
  <2>2. ASSUME NEW d \in Docs, sigs' = {[u EXCEPT !.gone = u.gone \/ u.doc = d] : u \in sigs}
        PROVE  {Core(s) : s \in sigs}' = {Core(s) : s \in sigs}
    <3>1. \A u \in sigs : Core([u EXCEPT !.gone = u.gone \/ u.doc = d]) = Core(u)
      BY DEF IInv, TypeOK, Row, Core
    <3>2. \A x : x \in {Core(s) : s \in sigs}' <=> x \in {Core(s) : s \in sigs}
      BY <2>2, <3>1, Zenon
    <3>3. QED
      BY <3>2
  <2>3. ASSUME NEW r \in Requests, Holds(r), Numbered(r),
               sigs' = sigs \union {[row[r] EXCEPT !.at = commits + 1]}
        PROVE  Ledger!Append
    <3> DEFINE new == Core(row[r])
               old == {Core(s) : s \in sigs}
    <3>1. {Core(s) : s \in sigs}' = old \union {new}
      <4>1. Core([row[r] EXCEPT !.at = commits + 1]) = new
        BY DEF IInv, TypeOK, Row, Core
      <4>2. QED
        BY <2>3, <4>1
    <3>2. new.id = row[r].id /\ new.doc = row[r].doc /\ new.sub = row[r].sub /\ new.prev = row[r].prev
      BY DEF Core
    <3>3. \A p \in old : \E s \in sigs : p.id = s.id /\ p.doc = s.doc /\ p.sub = s.sub
      BY DEF Core
    <3>4. \A p \in old : p.id # new.id
      BY <2>3, <3>2, <3>3 DEF IInv, Numbers
    <3>5. \A p \in old : p.doc # new.doc \/ p.sub # new.sub
      BY <2>3, <3>2, <3>3 DEF IInv, Entries, SameEntry
    <3>6. new.prev = Genesis \/ \E p \in old : p.doc = new.doc /\ p.id < new.id /\ p.id = new.prev
      <4>1. CASE row[r].prev = Genesis
        BY <3>2, <4>1
      <4>2. CASE row[r].prev # Genesis
        <5>1. PICK s \in sigs : s.doc = row[r].doc /\ s.id = row[r].prev
          BY <2>3, <4>2 DEF IInv, Links, Chained
        <5>2. s.id < row[r].id
          BY <2>3, <5>1 DEF IInv, Links
        <5>3. Core(s) \in old /\ Core(s).id = s.id /\ Core(s).doc = s.doc
          BY DEF Core
        <5>4. QED
          BY <3>2, <5>1, <5>2, <5>3
      <4>3. QED
        BY <4>1, <4>2
    <3>7. new \in (old \union {new}) \ old
      BY <3>4
    <3> HIDE DEF new, old
    <3>8. QED
      BY <3>1, <3>4, <3>5, <3>6, <3>7 DEF Ledger!Append, Ledger!MayAppend, Ledger!Ancestors, old
  <2>4. QED
    BY <2>1, <2>2, <2>3, StoreSteps
<1>3. QED
  BY <1>1, <1>2, Invariance, PTL DEF Spec, Ledger!Spec, ImplementsLedger
=============================================================================
