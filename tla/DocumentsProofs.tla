--------------------------- MODULE DocumentsProofs ---------------------------
(***************************************************************************)
(* Proofs about Documents.                                                 *)
(*                                                                         *)
(* The invariant has a part for each question: what an update that waits   *)
(* to write knows of the row it read (Versions), which documents a         *)
(* request could have found (Times), whose a storage key is (Keying), and  *)
(* who holds a row or a file (Serving).  Every action is first reduced to  *)
(* what it does to a request, a row or a file, by a lemma of its own.      *)
(***************************************************************************)
EXTENDS Documents, TLAPS

Editing == {"write", "delete", "deleted", "removed"}

(* A row that was never written; what an update that found the row as it   *)
(* still is has in common with it.                                         *)
Versioned(r) ==
  LET q == req[r]  old == rows[q.id] IN
  /\ q.pc = "insert" => q.id \in Ids /\ q.row.version = 1 /\ q.row.by # "none" /\ q.row.live
  /\ q.pc \in Editing => q.id \in Ids
  /\ q.pc = "write" =>
       /\ q.row.version <= old.version
       /\ Live(q.id) /\ q.row.version = old.version =>
            /\ q.field # "mode" => q.row.mode = old.mode
            /\ q.field # "url" => q.row.url = old.url
            /\ q.row.key = old.key

Versions ==
  /\ \A id \in Ids : IF Exists(id) THEN rows[id].version >= 1
                     ELSE rows[id].version = 0 /\ ~Live(id) /\ rows[id].key = None
  /\ \A r \in Requests : Versioned(r)

(* Documents that find-or-create made for a URL. *)
FoundUrl(row) == row.by = "found" /\ row.url = Url

Timed(r) ==
  /\ req[r].row.seen <= clock
  /\ req[r].pc = "insert" /\ FoundUrl(req[r].row) =>
       \A i \in Ids : Live(i) /\ FoundUrl(rows[i]) => req[r].row.seen < rows[i].born

Times ==
  /\ \A i \in Ids : rows[i].seen <= clock /\ rows[i].born <= clock
  /\ \A r \in Requests : Timed(r)
  /\ DuplicatesOnlyByOverlap

(* The keys that the row of a document, or a request that read it, has. *)
Bound(i, k) ==
  \/ rows[i].key = k
  \/ \E r \in Requests : req[r].pc \in Editing /\ req[r].id = i /\ req[r].row.key = k

(* A document whose row may come to have no key. *)
Loose(i) ==
  \/ ~Live(i) \/ rows[i].key = None
  \/ \E r \in Requests : req[r].pc = "write" /\ req[r].id = i /\ req[r].row.key = None

Binding(i, k) ==
  /\ Exists(i)
  /\ files[k] # "temp"
  /\ Loose(i) => files[k] = "none" \/ k \in leaked

(* The keys of uploads in progress. *)
Uploads(r, k) == req[r].pc \in {"upload", "insert"} /\ req[r].row.key = k

Uploading(r) ==
  /\ req[r].pc = "upload" => req[r].row.key \in Keys
  /\ \A k \in Keys : Uploads(r, k) =>
       /\ files[k] = IF req[r].pc = "upload" THEN "temp" ELSE "kept"
       /\ req[r].pc = "insert" => req[r].id \in Gen
       /\ \A s \in Requests : Uploads(s, k) => s = r
       /\ \A i \in Ids : ~Bound(i, k)

Holds(r, i) == req[r].pc \in {"deleted", "removed"} /\ req[r].id = i

Keying ==
  /\ \A i, j \in Ids, k, l \in Keys : Bound(i, k) /\ Bound(j, l) => (i = j <=> k = l)
  /\ \A i \in Ids, k \in Keys : Bound(i, k) => Binding(i, k)
  /\ \A r \in Requests : Uploading(r)
  /\ \A r \in Requests : req[r].pc \in Editing => Exists(req[r].id) \/ req[r].id = Name

(* The row of a document that is being deleted is held until the commit.   *)
Holding ==
  /\ \A r, s \in Requests, i \in Ids : Holds(r, i) /\ Holds(s, i) => r = s
  /\ \A r \in Requests, i \in Ids : Holds(r, i) => Live(i)

(* A deletion that has removed the file with this key. *)
Removing(i, k) == \E r \in Requests : req[r].pc = "removed" /\ req[r].id = i /\ req[r].row.key = k

(* A document whose file is not there. *)
Served == \A i \in Ids, k \in Keys : Live(i) /\ rows[i].key = k /\ files[k] # "kept" => rows[i].broken \/ Removing(i, k)

(* A file that somebody has, or nobody will remove any more. *)
Kept(k) == (\E i \in Ids : Live(i) /\ rows[i].key = k) \/ (\E r \in Requests : Uploads(r, k)) \/ k \in leaked

Serving == Holding /\ Served /\ \A k \in Keys : files[k] # "none" => Kept(k)

IInv == TypeOK /\ Versions /\ Times /\ Keying /\ Serving

-----------------------------------------------------------------------------
(* What the actions do, field by field: q is what the request becomes.     *)
Turn(r, q) == q \in Task /\ req' = [req EXCEPT ![r] = q]

LEMMA IdleTask ==
  /\ NoRow \in Row /\ NoRow.key = None /\ NoRow.seen = 0 /\ NoRow.version = 0 /\ ~NoRow.live
  /\ Idle \in Task /\ Idle.pc = "idle" /\ Idle.row = NoRow
BY DEF NoRow, Row, Idle, Task, Urls

LEMMA MetadataFields ==
  ASSUME NEW ref \in Refs \union {None}, NEW key \in Keys \union {None}, NEW reachable \in BOOLEAN
  PROVE  /\ Metadata(ref, key, reachable) \in [mode : Modes, url : Urls, key : Keys \union {None}]
         /\ Metadata(ref, key, reachable).key = key
         /\ Metadata(ref, key, reachable).url = Url => ref = Url
BY DocumentsConstants DEF Metadata, Modes, Refs, Urls

LEMMA NewRowFields ==
  ASSUME TypeOK, NEW m \in [mode : Modes, url : Urls, key : Keys \union {None}],
         NEW owner \in Users \union {None}, NEW by \in {"found", "posted", "uploaded"}
  PROVE  /\ NewRow(m, owner, by) \in Row
         /\ NewRow(m, owner, by).key = m.key /\ NewRow(m, owner, by).url = m.url
         /\ NewRow(m, owner, by).seen = clock /\ NewRow(m, owner, by).version = 1
         /\ NewRow(m, owner, by).by = by /\ NewRow(m, owner, by).live
BY DEF NewRow, Row, TypeOK

LEMMA ReachableIsBoolean == Reachable \subseteq BOOLEAN
BY DEF Reachable, Checksummed

LEMMA EditTurn ==
  ASSUME TypeOK, NEW r \in Requests, NEW id \in Ids, NEW row \in Row, Edit(r, id, row)
  PROVE  \E q \in Task :
           /\ Turn(r, q) /\ q.pc = "write" /\ q.id = id
           /\ q.row.key = row.key /\ q.row.seen = row.seen /\ q.row.version = row.version /\ q.row.owner = row.owner
           /\ q.field # "mode" => q.row.mode = row.mode
           /\ q.field # "url" => q.row.url = row.url
<1>1. PICK f \in DOMAIN Editable : \E v \in Editable[f] :
        Become(r, [Idle EXCEPT !.pc = "write", !.id = id, !.row = [row EXCEPT ![f] = v], !.field = f])
  BY DEF Edit
<1>2. PICK v \in Editable[f] :
        Become(r, [Idle EXCEPT !.pc = "write", !.id = id, !.row = [row EXCEPT ![f] = v], !.field = f])
  BY <1>1
<1>3. PICK new \in Row :
        /\ new = [row EXCEPT ![f] = v]
        /\ new.key = row.key /\ new.seen = row.seen /\ new.version = row.version /\ new.owner = row.owner
        /\ f # "mode" => new.mode = row.mode
        /\ f # "url" => new.url = row.url
  <2>1. CASE f = "mode"
    <3>1. v \in Modes
      BY <2>1 DEF Editable
    <3> DEFINE new == [row EXCEPT !.mode = v]
    <3>2. /\ new \in Row
          /\ new.key = row.key /\ new.seen = row.seen /\ new.version = row.version
          /\ new.owner = row.owner /\ new.url = row.url
      BY <3>1 DEF Row
    <3>3. new = [row EXCEPT ![f] = v]
      BY <2>1
    <3> HIDE DEF new
    <3>4. QED
      BY <2>1, <3>2, <3>3
  <2>2. CASE f = "url"
    <3>1. v \in Urls
      BY <2>2 DEF Editable
    <3> DEFINE new == [row EXCEPT !.url = v]
    <3>2. /\ new \in Row
          /\ new.key = row.key /\ new.seen = row.seen /\ new.version = row.version
          /\ new.owner = row.owner /\ new.mode = row.mode
      BY <3>1 DEF Row
    <3>3. new = [row EXCEPT ![f] = v]
      BY <2>2
    <3> HIDE DEF new
    <3>4. QED
      BY <2>2, <3>2, <3>3
  <2>3. QED
    BY <2>1, <2>2 DEF Editable
<1>4. [Idle EXCEPT !.pc = "write", !.id = id, !.row = new, !.field = f] \in Task
  BY IdleTask DEF Task, Idle
<1>5. QED
  BY <1>2, <1>3, <1>4 DEF Turn, Become, Idle

(* A request goes on in memory alone: it has read what is there. *)
Reads(q) ==
  /\ q.id \in Ids /\ q.row.seen <= clock
  /\ Exists(q.id) \/ q.id = Name
  /\ q.row.key = IF Live(q.id) THEN rows[q.id].key ELSE None
  /\ q.row.version = IF Live(q.id) THEN rows[q.id].version ELSE 0
  /\ Live(q.id) =>
       /\ q.field # "mode" => q.row.mode = rows[q.id].mode
       /\ q.field # "url" => q.row.url = rows[q.id].url

Makes(q) ==
  /\ q.id \in Ids /\ q.row.key = None /\ q.row.version = 1 /\ q.row.by # "none" /\ q.row.seen = clock
  /\ q.row.live
  /\ FoundUrl(q.row) => Found(Url) = {}

GoesOn(r, q) ==
  /\ Turn(r, q) /\ UNCHANGED <<files, rows, clock, leaked>>
  /\ req[r].pc \in {"idle", "look", "delete"}
  /\ \/ q.pc \in {"idle", "look"} /\ q.row = NoRow
     \/ q.pc = "insert" /\ Makes(q)
     \/ q.pc \in {"write", "delete"} /\ Reads(q)
     \/ /\ q.pc = "deleted" /\ req[r].pc = "delete" /\ q.id = req[r].id /\ q.row = req[r].row
        /\ Live(q.id) /\ ~Held(q.id)

LEMMA FindOrCreateGoesOn ==
  ASSUME TypeOK, NEW r \in Requests, FindOrCreate(r)
  PROVE  \E q \in Task : GoesOn(r, q)
<1>1. PICK u \in Users, ref \in Refs : Become(r, [Idle EXCEPT !.pc = "look", !.user = u, !.ref = ref])
  BY DEF FindOrCreate
<1>2. PICK q \in Task : q = [Idle EXCEPT !.pc = "look", !.user = u, !.ref = ref] /\ q.pc = "look" /\ q.row = NoRow
  <2> DEFINE x == [Idle EXCEPT !.pc = "look", !.user = u, !.ref = ref]
  <2>1. x \in Task /\ x.pc = "look" /\ x.row = NoRow
    BY IdleTask DEF Task, Idle
  <2>2. QED
    BY <2>1
<1>3. QED
  BY <1>1, <1>2 DEF FindOrCreate, Start, Turn, Become, GoesOn

LEMMA LookAgainGoesOn ==
  ASSUME TypeOK, NEW r \in Requests, LookAgain(r)
  PROVE  \E q \in Task : GoesOn(r, q)
<1> DEFINE ref == req[r].ref
<1>1. ref \in Refs \union {None} /\ req[r].user \in Users \union {None} /\ req[r] \in Task
  BY DEF TypeOK, Task
<1>2. CASE End(r)
  BY <1>2, IdleTask DEF LookAgain, End, Become, Turn, GoesOn
<1>3. ASSUME Found(ref) = {}, NEW id \in Ids, NEW reachable \in BOOLEAN,
             NEW m \in [mode : Modes, url : Urls, key : Keys \union {None}],
             m.key = None, m.url = Url => ref = Url,
             Become(r, [req[r] EXCEPT !.pc = "insert", !.id = id, !.row = NewRow(m, req[r].user, "found")])
      PROVE  \E q \in Task : GoesOn(r, q)
  <2>1. PICK row \in Row :
          /\ row = NewRow(m, req[r].user, "found")
          /\ row.key = None /\ row.seen = clock /\ row.version = 1 /\ row.by = "found"
          /\ row.live /\ (row.url = Url => ref = Url)
    BY <1>1, <1>3, NewRowFields
  <2>2. PICK q \in Task :
          q = [req[r] EXCEPT !.pc = "insert", !.id = id, !.row = row] /\ q.pc = "insert" /\ q.id = id /\ q.row = row
    <3> DEFINE x == [req[r] EXCEPT !.pc = "insert", !.id = id, !.row = row]
    <3>1. PICK q \in Task : q = req[r]
      BY <1>1
    <3>2. [q EXCEPT !.pc = "insert", !.id = id, !.row = row] \in Task
      BY DEF Task
    <3>3. /\ [q EXCEPT !.pc = "insert", !.id = id, !.row = row].pc = "insert"
          /\ [q EXCEPT !.pc = "insert", !.id = id, !.row = row].id = id
          /\ [q EXCEPT !.pc = "insert", !.id = id, !.row = row].row = row
      BY DEF Task
    <3>4. x \in Task /\ x.pc = "insert" /\ x.id = id /\ x.row = row
      BY <3>1, <3>2, <3>3
    <3>5. QED
      BY <3>4
  <2>3. Makes(q)
    BY <1>3, <2>1, <2>2 DEF Makes, FoundUrl
  <2>4. QED
    BY <1>3, <2>1, <2>2, <2>3 DEF LookAgain, Become, Turn, GoesOn
<1>4. CASE ~End(r)
  <2>1. Found(ref) = {}
    BY <1>4 DEF LookAgain
  <2>2. CASE ref = Name
    <3> DEFINE m == [Metadata(ref, None, FALSE) EXCEPT !.mode = "integrated"]
    <3>1. /\ m \in [mode : Modes, url : Urls, key : Keys \union {None}]
          /\ m.key = None /\ (m.url = Url => ref = Url)
      <4>1. PICK n \in [mode : Modes, url : Urls, key : Keys \union {None}] :
              n = Metadata(ref, None, FALSE) /\ n.key = None /\ (n.url = Url => ref = Url)
        BY <1>1, MetadataFields
      <4>2. /\ [n EXCEPT !.mode = "integrated"] \in [mode : Modes, url : Urls, key : Keys \union {None}]
            /\ [n EXCEPT !.mode = "integrated"].key = n.key /\ [n EXCEPT !.mode = "integrated"].url = n.url
        BY DEF Modes
      <4>3. QED
        BY <4>1, <4>2
    <3>2. Name \in Ids
      BY DEF Ids
    <3>3. Become(r, [req[r] EXCEPT !.pc = "insert", !.id = Name, !.row = NewRow(m, req[r].user, "found")])
      BY <1>4, <2>2 DEF LookAgain
    <3> HIDE DEF m, ref
    <3>4. QED
      BY <1>3, <2>1, <3>1, <3>2, <3>3
  <2>3. CASE ref # Name
    <3>1. PICK id \in Gen, reachable \in Reachable :
            Become(r, [req[r] EXCEPT !.pc = "insert", !.id = id,
                         !.row = NewRow(Metadata(ref, None, reachable), req[r].user, "found")])
      BY <1>4, <2>3 DEF LookAgain
    <3>2. reachable \in BOOLEAN /\ id \in Ids
      BY ReachableIsBoolean DEF Ids
    <3>3. /\ Metadata(ref, None, reachable) \in [mode : Modes, url : Urls, key : Keys \union {None}]
          /\ Metadata(ref, None, reachable).key = None
          /\ Metadata(ref, None, reachable).url = Url => ref = Url
      BY <1>1, <3>2, MetadataFields
    <3> HIDE DEF ref
    <3>4. QED
      BY <1>3, <2>1, <3>1, <3>2, <3>3
  <2>4. QED
    BY <2>2, <2>3
<1>5. QED
  BY <1>2, <1>4

LEMMA PostGoesOn ==
  ASSUME TypeOK, NEW r \in Requests, Post(r)
  PROVE  \E q \in Task : GoesOn(r, q)
<1>1. PICK ref \in Refs, id \in Gen, reachable \in Reachable :
        Become(r, [Idle EXCEPT !.pc = "insert", !.id = id, !.ref = ref,
                     !.row = NewRow(Metadata(ref, None, reachable), None, "posted")])
  BY DEF Post
<1>2. /\ Metadata(ref, None, reachable) \in [mode : Modes, url : Urls, key : Keys \union {None}]
      /\ Metadata(ref, None, reachable).key = None
  BY ReachableIsBoolean, MetadataFields
<1>3. PICK row \in Row :
        /\ row = NewRow(Metadata(ref, None, reachable), None, "posted")
        /\ row.key = None /\ row.seen = clock /\ row.version = 1 /\ row.by = "posted" /\ row.live
  BY <1>2, NewRowFields
<1>4. PICK q \in Task :
        /\ q = [Idle EXCEPT !.pc = "insert", !.id = id, !.ref = ref, !.row = row]
        /\ q.pc = "insert" /\ q.id = id /\ q.row = row
  <2> DEFINE x == [Idle EXCEPT !.pc = "insert", !.id = id, !.ref = ref, !.row = row]
  <2>1. x \in Task /\ x.pc = "insert" /\ x.id = id /\ x.row = row
    BY IdleTask DEF Task, Idle, Ids
  <2>2. QED
    BY <2>1
<1>5. Makes(q)
  BY <1>3, <1>4 DEF Makes, FoundUrl, Ids
<1>6. QED
  BY <1>1, <1>3, <1>4, <1>5 DEF Post, Start, Become, Turn, GoesOn

LEMMA EditGoesOn ==
  ASSUME TypeOK, Versions, Times, NEW r \in Requests, EditMine(r) \/ EditAny(r)
  PROVE  \E q \in Task : GoesOn(r, q)
<1>1. PICK id \in Ids, row \in Row :
        /\ Edit(r, id, row)
        /\ Exists(id) \/ id = Name
        /\ row.seen <= clock
        /\ row.key = IF Live(id) THEN rows[id].key ELSE None
        /\ row.version = IF Live(id) THEN rows[id].version ELSE 0
        /\ Live(id) => row.mode = rows[id].mode /\ row.url = rows[id].url
  <2>1. CASE EditMine(r)
    <3>1. PICK u \in Users, id \in Ids : Owned(u, id) /\ Edit(r, id, rows[id])
      BY <2>1 DEF EditMine
    <3>2. rows[id] \in Row /\ Live(id) /\ Exists(id) /\ rows[id].seen <= clock
      BY <3>1 DEF TypeOK, Owned, Versions, Times
    <3>3. QED
      BY <3>1, <3>2
  <2>2. CASE EditAny(r)
    <3>1. PICK u \in Admins, id \in Ids :
            /\ Exists(id) \/ id = Name
            /\ Edit(r, id, IF Live(id) THEN rows[id] ELSE [NoRow EXCEPT !.owner = u, !.mode = "integrated"])
      BY <2>2 DEF EditAny
    <3>2. CASE Live(id)
      <4>1. rows[id] \in Row /\ rows[id].seen <= clock
        BY DEF TypeOK, Times
      <4>2. QED
        BY <3>1, <3>2, <4>1
    <3>3. CASE ~Live(id)
      <4> DEFINE x == [NoRow EXCEPT !.owner = u, !.mode = "integrated"]
      <4>1. x \in Row /\ x.key = None /\ x.seen = 0 /\ x.version = 0
        BY DocumentsConstants DEF NoRow, Row, Modes, Urls
      <4>2. Edit(r, id, x)
        BY <3>1, <3>3
      <4> HIDE DEF x
      <4>3. x.seen <= clock
        BY <4>1 DEF TypeOK
      <4>4. QED
        BY <3>1, <3>3, <4>1, <4>2, <4>3
    <3>4. QED
      BY <3>2, <3>3
  <2>3. QED
    BY <2>1, <2>2
<1>2. PICK q \in Task :
        /\ Turn(r, q) /\ q.pc = "write" /\ q.id = id
        /\ q.row.key = row.key /\ q.row.seen = row.seen /\ q.row.version = row.version /\ q.row.owner = row.owner
        /\ q.field # "mode" => q.row.mode = row.mode
        /\ q.field # "url" => q.row.url = row.url
  BY <1>1, EditTurn
<1>3. Reads(q)
  BY <1>1, <1>2 DEF Reads
<1>4. QED
  BY <1>2, <1>3 DEF EditMine, EditAny, Start, GoesOn

LEMMA DeleteMineGoesOn ==
  ASSUME TypeOK, Versions, Times, NEW r \in Requests, DeleteMine(r)
  PROVE  \E q \in Task : GoesOn(r, q)
<1>1. PICK u \in Users, id \in Ids :
        Owned(u, id) /\ Become(r, [Idle EXCEPT !.pc = "delete", !.id = id, !.row = rows[id]])
  BY DEF DeleteMine
<1>2. rows[id] \in Row /\ Live(id) /\ Exists(id) /\ rows[id].seen <= clock
  BY <1>1 DEF TypeOK, Owned, Versions, Times
<1>3. PICK q \in Task :
        /\ q = [Idle EXCEPT !.pc = "delete", !.id = id, !.row = rows[id]]
        /\ q.pc = "delete" /\ q.id = id /\ q.row = rows[id]
  <2> DEFINE x == [Idle EXCEPT !.pc = "delete", !.id = id, !.row = rows[id]]
  <2>1. x \in Task /\ x.pc = "delete" /\ x.id = id /\ x.row = rows[id]
    BY <1>2, IdleTask DEF Task, Idle
  <2>2. QED
    BY <2>1
<1>4. Reads(q)
  BY <1>2, <1>3 DEF Reads
<1>5. QED
  BY <1>1, <1>3, <1>4 DEF DeleteMine, Start, Become, Turn, GoesOn

LEMMA SoftDeleteGoesOn ==
  ASSUME TypeOK, NEW r \in Requests, SoftDelete(r)
  PROVE  \E q \in Task : GoesOn(r, q)
<1>1. CASE Live(req[r].id)
  <2>1. PICK q \in Task :
          q = [req[r] EXCEPT !.pc = "deleted"] /\ q.pc = "deleted" /\ q.id = req[r].id /\ q.row = req[r].row
    <3>1. PICK p \in Task : p = req[r]
      BY DEF TypeOK
    <3>2. [p EXCEPT !.pc = "deleted"] \in Task
      BY DEF Task
    <3>3. /\ [p EXCEPT !.pc = "deleted"].pc = "deleted" /\ [p EXCEPT !.pc = "deleted"].id = p.id
          /\ [p EXCEPT !.pc = "deleted"].row = p.row
      BY DEF Task
    <3>4. QED
      BY <3>1, <3>2, <3>3
  <2>2. QED
    BY <1>1, <2>1 DEF SoftDelete, Become, Turn, GoesOn
<1>2. CASE ~Live(req[r].id)
  BY <1>2, IdleTask DEF SoftDelete, End, Become, Turn, GoesOn
<1>3. QED
  BY <1>1, <1>2

-----------------------------------------------------------------------------
(* Uploads, and the removal of a file. *)
LEMMA UploadTurn ==
  ASSUME TypeOK, NEW r \in Requests, Upload(r)
  PROVE  \E q \in Task, k \in Keys :
           Turn(r, q) /\ Fresh(k) /\ Open(k) /\ q.pc = "upload" /\ q.row.key = k /\ q.row.seen = 0
<1>1. PICK u \in Users, k \in Keys :
        Fresh(k) /\ Open(k)
        /\ Become(r, [Idle EXCEPT !.pc = "upload", !.user = u, !.row = [NoRow EXCEPT !.key = k]])
  BY DEF Upload
<1>2. PICK row \in Row : row = [NoRow EXCEPT !.key = k] /\ row.key = k /\ row.seen = 0
  <2> DEFINE x == [NoRow EXCEPT !.key = k]
  <2>1. x \in Row /\ x.key = k /\ x.seen = 0
    BY DEF NoRow, Row, Urls
  <2>2. QED
    BY <2>1
<1>3. PICK q \in Task :
        /\ q = [Idle EXCEPT !.pc = "upload", !.user = u, !.row = row]
        /\ q.pc = "upload" /\ q.row = row
  <2> DEFINE x == [Idle EXCEPT !.pc = "upload", !.user = u, !.row = row]
  <2>1. x \in Task /\ x.pc = "upload" /\ x.row = row
    BY IdleTask DEF Task, Idle
  <2>2. QED
    BY <2>1
<1>4. QED
  BY <1>1, <1>2, <1>3 DEF Become, Turn

LEMMA StoreTurn ==
  ASSUME TypeOK, NEW r \in Requests, Store(r)
  PROVE  \E q \in Task :
           /\ Turn(r, q) /\ q.pc = "insert" /\ q.id \in Gen /\ q.row.key = req[r].row.key
           /\ q.row.version = 1 /\ q.row.by = "uploaded" /\ q.row.seen = clock /\ q.row.live
<1>1. PICK id \in Gen, mode \in Modes :
        Become(r, [req[r] EXCEPT !.pc = "insert", !.id = id,
                     !.row = NewRow([Metadata(None, req[r].row.key, FALSE) EXCEPT !.mode = mode], req[r].user, "uploaded")])
  BY DEF Store
<1>2. PICK p \in Task : p = req[r] /\ p.row.key \in Keys \union {None} /\ p.user \in Users \union {None}
  BY DEF TypeOK, Task, Row
<1>3. PICK n \in [mode : Modes, url : Urls, key : Keys \union {None}] :
        n = Metadata(None, p.row.key, FALSE) /\ n.key = p.row.key
  <2>1. None \in Refs \union {None} /\ FALSE \in BOOLEAN
    OBVIOUS
  <2>2. /\ Metadata(None, p.row.key, FALSE) \in [mode : Modes, url : Urls, key : Keys \union {None}]
        /\ Metadata(None, p.row.key, FALSE).key = p.row.key
    BY <1>2, <2>1, MetadataFields
  <2>3. QED
    BY <2>2
<1>4. PICK m \in [mode : Modes, url : Urls, key : Keys \union {None}] :
        m = [n EXCEPT !.mode = mode] /\ m.key = p.row.key
  <2> DEFINE x == [n EXCEPT !.mode = mode]
  <2>1. x \in [mode : Modes, url : Urls, key : Keys \union {None}] /\ x.key = n.key
    OBVIOUS
  <2>2. QED
    BY <1>3, <2>1
<1>5. PICK row \in Row :
        /\ row = NewRow(m, p.user, "uploaded")
        /\ row.key = p.row.key /\ row.seen = clock /\ row.version = 1 /\ row.by = "uploaded" /\ row.live
  BY <1>2, <1>4, NewRowFields
<1>6. PICK q \in Task :
        /\ q = [p EXCEPT !.pc = "insert", !.id = id, !.row = row]
        /\ q.pc = "insert" /\ q.id = id /\ q.row = row
  <2> DEFINE x == [p EXCEPT !.pc = "insert", !.id = id, !.row = row]
  <2>1. x \in Task /\ x.pc = "insert" /\ x.id = id /\ x.row = row
    BY DEF Task, Ids
  <2>2. QED
    BY <2>1
<1>7. Become(r, q)
  <2>1. NewRow([Metadata(None, req[r].row.key, FALSE) EXCEPT !.mode = mode], req[r].user, "uploaded") = row
    BY <1>2, <1>3, <1>4, <1>5
  <2>2. QED
    BY <1>1, <1>2, <1>6, <2>1
<1>8. QED
  BY <1>2, <1>5, <1>6, <1>7 DEF Become, Turn

LEMMA RemoveFileTurn ==
  ASSUME TypeOK, NEW r \in Requests, RemoveFile(r)
  PROVE  \E q \in Task : Turn(r, q) /\ q.pc = "removed" /\ q.id = req[r].id /\ q.row = req[r].row
<1>1. PICK p \in Task : p = req[r]
  BY DEF TypeOK
<1>2. PICK q \in Task : q = [p EXCEPT !.pc = "removed"] /\ q.pc = "removed" /\ q.id = p.id /\ q.row = p.row
  <2> DEFINE x == [p EXCEPT !.pc = "removed"]
  <2>1. x \in Task /\ x.pc = "removed" /\ x.id = p.id /\ x.row = p.row
    BY DEF Task
  <2>2. QED
    BY <2>1
<1>3. QED
  BY <1>1, <1>2 DEF RemoveFile, Become, Turn

-----------------------------------------------------------------------------
(* What the actions write into the row of a document. *)
LEMMA InsertRow ==
  ASSUME TypeOK, NEW r \in Requests, Insert(r)
  PROVE  \E new \in Row :
           /\ rows' = [rows EXCEPT ![req[r].id] = new]
           /\ new.key = req[r].row.key /\ new.url = req[r].row.url /\ new.by = req[r].row.by
           /\ new.version = req[r].row.version /\ new.seen = req[r].row.seen /\ new.born = clock + 1
           /\ new.live = req[r].row.live
<1>1. PICK row \in Row : row = req[r].row
  BY DEF TypeOK, Task
<1>2. clock + 1 \in Nat
  BY DEF TypeOK
<1> DEFINE x == [row EXCEPT !.born = clock + 1]
<1>3. /\ x \in Row /\ x.key = row.key /\ x.url = row.url /\ x.by = row.by
      /\ x.version = row.version /\ x.seen = row.seen /\ x.born = clock + 1 /\ x.live = row.live
  BY <1>2 DEF Row
<1>4. rows' = [rows EXCEPT ![req[r].id] = x]
  BY <1>1 DEF Insert
<1> HIDE DEF x
<1>5. QED
  BY <1>1, <1>3, <1>4

(* An update of old, which is the document's row if there is one. *)
Rewritten(old, row) == [Upsert(old, row) EXCEPT !.version = @ + 1]

IsRewritten(old, row, new) ==
  /\ new \in Row /\ new.live = TRUE
  /\ new.mode = row.mode /\ new.url = row.url /\ new.key = row.key
  /\ new.version = old.version + 1 /\ new.owner = old.owner
  /\ new.seen = old.seen /\ new.born = old.born
  /\ new.by = IF ~old.live \/ old.url # row.url THEN "put" ELSE old.by
  /\ ~new.broken /\ row.key # None => old.live /\ row.key = old.key /\ ~old.broken

LEMMA UpsertRow ==
  ASSUME NEW old \in Row, NEW row \in Row
  PROVE  IsRewritten(old, row, Rewritten(old, row))
<1> DEFINE new == Rewritten(old, row)
<1>1. PICK b \in BOOLEAN : b = (old.broken \/ (row.key # None /\ (~old.live \/ row.key # old.key)))
  OBVIOUS
<1>2. PICK by \in {"none", "found", "posted", "uploaded", "put"} :
        by = IF ~old.live \/ old.url # row.url THEN "put" ELSE old.by
  BY DEF Row
<1>3. PICK mid \in Row :
        /\ mid = [old EXCEPT !.mode = row.mode, !.url = row.url, !.key = row.key, !.live = TRUE,
                             !.broken = b, !.by = by]
        /\ mid.live = TRUE /\ mid.mode = row.mode /\ mid.url = row.url /\ mid.key = row.key
        /\ mid.version = old.version /\ mid.owner = old.owner /\ mid.seen = old.seen /\ mid.born = old.born
        /\ mid.by = by /\ mid.broken = b
  <2> DEFINE x == [old EXCEPT !.mode = row.mode, !.url = row.url, !.key = row.key, !.live = TRUE,
                              !.broken = b, !.by = by]
  <2>1. /\ x \in Row
        /\ x.live = TRUE /\ x.mode = row.mode /\ x.url = row.url /\ x.key = row.key
        /\ x.version = old.version /\ x.owner = old.owner /\ x.seen = old.seen /\ x.born = old.born
        /\ x.by = by /\ x.broken = b
    BY DEF Row
  <2>2. QED
    BY <2>1
<1>4. Upsert(old, row) = mid
  BY <1>1, <1>2, <1>3 DEF Upsert
<1>5. PICK v \in Nat : v = mid.version + 1
  BY <1>3 DEF Row
<1>6. new = [mid EXCEPT !.version = v]
  BY <1>4, <1>5 DEF Rewritten
<1>7. /\ [mid EXCEPT !.version = v] \in Row
      /\ [mid EXCEPT !.version = v].live = mid.live /\ [mid EXCEPT !.version = v].mode = mid.mode
      /\ [mid EXCEPT !.version = v].url = mid.url /\ [mid EXCEPT !.version = v].key = mid.key
      /\ [mid EXCEPT !.version = v].version = v /\ [mid EXCEPT !.version = v].owner = mid.owner
      /\ [mid EXCEPT !.version = v].seen = mid.seen /\ [mid EXCEPT !.version = v].born = mid.born
      /\ [mid EXCEPT !.version = v].by = mid.by /\ [mid EXCEPT !.version = v].broken = mid.broken
  BY <1>5 DEF Row
<1>8. /\ new \in Row /\ new.live = mid.live
      /\ new.mode = mid.mode /\ new.url = mid.url /\ new.key = mid.key
      /\ new.version = v /\ new.owner = mid.owner
      /\ new.seen = mid.seen /\ new.born = mid.born /\ new.by = mid.by /\ new.broken = mid.broken
  BY <1>6, <1>7
<1> HIDE DEF new
<1>9. IsRewritten(old, row, new)
  BY <1>1, <1>2, <1>3, <1>5, <1>8 DEF IsRewritten
<1>10. QED
  BY <1>9 DEF new

LEMMA WriteRow ==
  ASSUME TypeOK, Versions, NEW r \in Requests, Write(r)
  PROVE  LET id == req[r].id IN
         /\ id \in Ids
         /\ \E new \in Row :
              /\ rows' = [rows EXCEPT ![id] = new]
              /\ new.live = TRUE /\ new.by # "none"
              /\ new.mode = req[r].row.mode /\ new.url = req[r].row.url /\ new.key = req[r].row.key
              /\ new.version = rows[id].version + 1
              /\ Exists(id) => new.owner = rows[id].owner
              /\ new.seen \in {0, rows[id].seen} /\ new.born \in {0, rows[id].born}
              /\ new.by = "found" => /\ Live(id) /\ rows[id].by = "found" /\ rows[id].url = new.url
                                     /\ new.seen = rows[id].seen /\ new.born = rows[id].born
              /\ ~new.broken /\ new.key # None => Live(id) /\ new.key = rows[id].key /\ ~rows[id].broken
<1> DEFINE id == req[r].id
           old == IF Exists(id) THEN rows[id] ELSE [NoRow EXCEPT !.owner = req[r].row.owner]
           new == Rewritten(old, req[r].row)
<1>1. id \in Ids
  BY DEF Write, Versions, Versioned, Editing
<1>2. rows[id] \in Row /\ req[r].row \in Row
  BY <1>1 DEF TypeOK, Task
<1>3. rows' = [rows EXCEPT ![id] = new]
  BY DEF Write, Rewritten
<1>4. CASE Exists(id)
  <2>1. old = rows[id] /\ rows[id].by # "none"
    BY <1>4 DEF Exists
  <2> HIDE DEF id, old
  <2>2. /\ new \in Row /\ new.live = TRUE
        /\ new.mode = req[r].row.mode /\ new.url = req[r].row.url /\ new.key = req[r].row.key
        /\ new.version = rows[id].version + 1 /\ new.owner = rows[id].owner
        /\ new.seen = rows[id].seen /\ new.born = rows[id].born
        /\ new.by = IF ~rows[id].live \/ rows[id].url # req[r].row.url THEN "put" ELSE rows[id].by
        /\ ~new.broken /\ req[r].row.key # None =>
             rows[id].live /\ req[r].row.key = rows[id].key /\ ~rows[id].broken
    <3>1. PICK prev \in Row, row \in Row : prev = rows[id] /\ row = req[r].row
      BY <1>2
    <3>2. new = Rewritten(prev, row)
      BY <2>1, <3>1
    <3>3. IsRewritten(prev, row, new)
      BY <3>2, UpsertRow
    <3> HIDE DEF new
    <3>4. QED
      BY <3>1, <3>3 DEF IsRewritten
  <2> HIDE DEF new
  <2>3. new.by # "none"
    BY <2>1, <2>2
  <2>4. new.by = "found" => Live(id) /\ rows[id].by = "found" /\ rows[id].url = new.url
    BY <2>2 DEF Live
  <2>5. ~new.broken /\ new.key # None => Live(id) /\ new.key = rows[id].key /\ ~rows[id].broken
    BY <2>2 DEF Live
  <2>6. id \in Ids /\ rows' = [rows EXCEPT ![id] = new]
    BY <1>1, <1>3
  <2>7. /\ new.live = TRUE /\ new.by # "none"
        /\ new.mode = req[r].row.mode /\ new.url = req[r].row.url /\ new.key = req[r].row.key
        /\ new.version = rows[id].version + 1
        /\ Exists(id) => new.owner = rows[id].owner
        /\ new.seen \in {0, rows[id].seen} /\ new.born \in {0, rows[id].born}
        /\ new.by = "found" => /\ Live(id) /\ rows[id].by = "found" /\ rows[id].url = new.url
                               /\ new.seen = rows[id].seen /\ new.born = rows[id].born
    BY <2>2, <2>3, <2>4
  <2>8. QED
    BY <2>2, <2>5, <2>6, <2>7 DEF id
<1>5. CASE ~Exists(id)
  <2>1. PICK row \in Row : row = old /\ row.live = FALSE /\ row.version = 0 /\ row.seen = 0 /\ row.born = 0
    <3> DEFINE x == [NoRow EXCEPT !.owner = req[r].row.owner]
    <3>1. req[r].row.owner \in Users \union {None}
      BY <1>2 DEF Row
    <3>2. x \in Row /\ x.live = FALSE /\ x.version = 0 /\ x.seen = 0 /\ x.born = 0
      BY <3>1 DEF Row, NoRow, Urls
    <3>3. old = x
      BY <1>5
    <3> HIDE DEF x, old
    <3>4. QED
      BY <3>2, <3>3
  <2> HIDE DEF id, old
  <2>2. /\ new \in Row /\ new.live = TRUE
        /\ new.mode = req[r].row.mode /\ new.url = req[r].row.url /\ new.key = req[r].row.key
        /\ new.version = row.version + 1 /\ new.seen = 0 /\ new.born = 0
        /\ new.by = IF ~row.live \/ row.url # req[r].row.url THEN "put" ELSE row.by
        /\ ~new.broken /\ req[r].row.key # None => row.live
    <3>1. PICK now \in Row : now = req[r].row
      BY <1>2
    <3>2. new = Rewritten(row, now)
      BY <2>1, <3>1
    <3>3. IsRewritten(row, now, new)
      BY <3>2, UpsertRow
    <3> HIDE DEF new
    <3>4. QED
      BY <2>1, <3>1, <3>3 DEF IsRewritten
  <2> HIDE DEF new
  <2>3. new.by = "put" /\ (new.broken \/ new.key = None)
    BY <2>1, <2>2
  <2>4. new.version = rows[id].version + 1
    BY <1>1, <1>5, <2>1, <2>2 DEF Versions
  <2>5. id \in Ids /\ rows' = [rows EXCEPT ![id] = new]
    BY <1>1, <1>3
  <2>6. QED
    BY <1>5, <2>2, <2>3, <2>4, <2>5 DEF id
<1>6. QED
  BY <1>4, <1>5

LEMMA DeletedRow ==
  ASSUME NEW row \in Row, NEW new, new = Deleted(row)
  PROVE  /\ new \in Row /\ new.live = FALSE /\ new.version = row.version + 1
         /\ new.mode = row.mode /\ new.url = row.url /\ new.key = row.key
         /\ new.owner = row.owner /\ new.by = row.by /\ new.seen = row.seen /\ new.born = row.born
<1>1. PICK v \in Nat : v = row.version + 1
  BY DEF Row
<1> DEFINE x == [row EXCEPT !.live = FALSE, !.version = v]
<1>2. /\ x \in Row /\ x.live = FALSE /\ x.version = v
      /\ x.mode = row.mode /\ x.url = row.url /\ x.key = row.key
      /\ x.owner = row.owner /\ x.by = row.by /\ x.seen = row.seen /\ x.born = row.born
  BY <1>1 DEF Row
<1>3. new = x
  BY <1>1 DEF Deleted
<1> HIDE DEF x
<1>4. QED
  BY <1>1, <1>2, <1>3

-----------------------------------------------------------------------------
(* Versions: whatever changes a row counts as one more version of it. *)
Ages(i) ==
  \/ /\ rows'[i].version = rows[i].version /\ rows'[i].live = rows[i].live
     /\ rows'[i].mode = rows[i].mode /\ rows'[i].url = rows[i].url /\ rows'[i].key = rows[i].key
     /\ Exists(i)' <=> Exists(i)
  \/ rows'[i].version > rows[i].version /\ Exists(i)'

LEMMA VersionNumbers ==
  ASSUME TypeOK
  PROVE  /\ \A i \in Ids : rows[i].version \in Nat /\ rows[i].seen \in Nat /\ rows[i].born \in Nat
         /\ \A r \in Requests : req[r].row.version \in Nat /\ req[r].row.seen \in Nat
         /\ clock \in Nat
BY DEF TypeOK, Row, Task

LEMMA VersionsStep ==
  ASSUME TypeOK, TypeOK', Versions, \A i \in Ids : Ages(i),
         \A r \in Requests : req'[r] = req[r] \/ Versioned(r)'
  PROVE  Versions'
<1>1. ASSUME NEW i \in Ids
      PROVE  IF Exists(i)' THEN rows'[i].version >= 1
             ELSE rows'[i].version = 0 /\ ~Live(i)' /\ rows'[i].key = None
  <2>1. rows[i].version \in Nat /\ rows'[i].version \in Nat
    BY VersionNumbers DEF TypeOK, Row
  <2>2. CASE rows'[i].version > rows[i].version /\ Exists(i)'
    BY <2>1, <2>2
  <2>3. CASE ~(rows'[i].version > rows[i].version /\ Exists(i)')
    BY <2>3 DEF Ages, Versions, Live
  <2>4. QED
    BY <2>2, <2>3
<1>2. ASSUME NEW r \in Requests, req'[r] = req[r]
      PROVE  Versioned(r)'
  <2>1. Versioned(r)
    BY DEF Versions
  <2>2. CASE req[r].pc = "write"
    <3>1. PICK i \in Ids : i = req[r].id
      BY <2>1, <2>2 DEF Versioned, Editing
    <3>2. /\ rows[i].version \in Nat /\ rows'[i].version \in Nat /\ req[r].row.version \in Nat
          /\ req[r].row.version <= rows[i].version
      BY <2>1, <2>2, <3>1, VersionNumbers DEF TypeOK, Row, Versioned
    <3>3. CASE rows'[i].version > rows[i].version
      BY <1>2, <2>1, <2>2, <3>1, <3>2, <3>3 DEF Versioned, Editing
    <3>4. CASE ~(rows'[i].version > rows[i].version)
      BY <1>2, <2>1, <2>2, <3>1, <3>2, <3>4 DEF Ages, Versioned, Editing, Live
    <3>5. QED
      BY <3>3, <3>4
  <2>3. CASE req[r].pc # "write"
    BY <1>2, <2>1, <2>3 DEF Versioned
  <2>4. QED
    BY <2>2, <2>3
<1>3. QED
  BY <1>1, <1>2 DEF Versions

(* A request that waits for nothing has nothing to compare. *)
LEMMA IdleVersioned ==
  ASSUME NEW r \in Requests, req'[r].pc \notin {"insert"} \union Editing
  PROVE  Versioned(r)'
BY DEF Versioned, Editing

LEMMA SameRowsAge ==
  ASSUME rows' = rows
  PROVE  \A i \in Ids : Ages(i)
BY DEF Ages, Exists

LEMMA GoesOnVersions ==
  ASSUME TypeOK, TypeOK', Versions, NEW r \in Requests, NEW q \in Task, GoesOn(r, q)
  PROVE  Versions'
<1>1. rows' = rows /\ \A s \in Requests : req'[s] = IF s = r THEN q ELSE req[s]
  BY DEF GoesOn, Turn, TypeOK
<1>2. Versioned(r)'
  <2>1. CASE q.pc \in {"idle", "look"}
    BY <1>1, <2>1 DEF Versioned, Editing
  <2>2. CASE q.pc = "insert" /\ Makes(q)
    BY <1>1, <2>2 DEF Makes, Versioned, Editing
  <2>3. CASE q.pc \in {"write", "delete"} /\ Reads(q)
    <3>1. rows[q.id].version \in Nat /\ q.row.version \in Nat
      BY <2>3, VersionNumbers DEF Reads, Task, Row
    <3>2. q.row.version <= rows[q.id].version
      BY <2>3, <3>1 DEF Reads
    <3>3. QED
      BY <1>1, <2>3, <3>2 DEF Reads, Versioned, Editing, Live
  <2>4. CASE q.pc = "deleted" /\ q.id = req[r].id /\ req[r].pc = "delete"
    BY <1>1, <2>4 DEF Versions, Versioned, Editing
  <2>5. QED
    BY <2>1, <2>2, <2>3, <2>4 DEF GoesOn
<1>3. QED
  BY <1>1, <1>2, SameRowsAge, VersionsStep

(* The steps that write a row end the request. *)
LEMMA RowStepVersions ==
  ASSUME TypeOK, TypeOK', Versions, NEW i \in Ids, NEW new \in Row, rows' = [rows EXCEPT ![i] = new],
         Ages(i), \A r \in Requests : req'[r] = req[r] \/ req'[r] = Idle
  PROVE  Versions'
<1>1. \A j \in Ids : j # i => rows'[j] = rows[j]
  BY DEF TypeOK
<1>2. \A j \in Ids : Ages(j)
  BY <1>1 DEF Ages, Exists
<1>3. \A r \in Requests : req'[r] = req[r] \/ Versioned(r)'
  BY IdleTask, IdleVersioned DEF Editing
<1>4. QED
  BY <1>2, <1>3, VersionsStep

LEMMA EndVersions ==
  ASSUME TypeOK, TypeOK', Versions, rows' = rows,
         \A r \in Requests : req'[r] = req[r] \/ req'[r] = Idle
  PROVE  Versions'
<1>1. \A r \in Requests : req'[r] = req[r] \/ Versioned(r)'
  BY IdleTask, IdleVersioned DEF Editing
<1>2. QED
  BY <1>1, SameRowsAge, VersionsStep

-----------------------------------------------------------------------------
(* Times: which documents could have been found by which request. *)
FoundLive(i) == Live(i) /\ FoundUrl(rows[i])

LEMMA TimesStep ==
  ASSUME TypeOK, TypeOK', Times, clock' = clock,
         \A i \in Ids : /\ rows'[i].seen \in {0, rows[i].seen} /\ rows'[i].born \in {0, rows[i].born}
                        /\ FoundLive(i)' => /\ FoundLive(i)
                                            /\ rows'[i].seen = rows[i].seen /\ rows'[i].born = rows[i].born,
         \A r \in Requests : req'[r] = req[r] \/ Timed(r)'
  PROVE  Times'
<1>1. \A i \in Ids : rows'[i].seen <= clock' /\ rows'[i].born <= clock'
  BY VersionNumbers DEF Times
<1>2. ASSUME NEW r \in Requests, req'[r] = req[r]
      PROVE  Timed(r)'
  <2>1. Timed(r)
    BY DEF Times
  <2>2. QED
    BY <1>2, <2>1 DEF Timed, FoundLive
<1>3. DuplicatesOnlyByOverlap'
  BY DEF Times, DuplicatesOnlyByOverlap, FoundLive, FoundUrl
<1>4. QED
  BY <1>1, <1>2, <1>3 DEF Times

LEMMA GoesOnTimes ==
  ASSUME TypeOK, TypeOK', Times, NEW r \in Requests, NEW q \in Task, GoesOn(r, q)
  PROVE  Times'
<1>1. /\ rows' = rows /\ clock' = clock
      /\ \A s \in Requests : req'[s] = IF s = r THEN q ELSE req[s]
  BY DEF GoesOn, Turn, TypeOK
<1>2. Timed(r)'
  <2>1. q.row.seen <= clock
    BY IdleTask, VersionNumbers DEF GoesOn, Makes, Reads, Times, Timed
  <2>2. q.pc = "insert" /\ FoundUrl(q.row) => \A i \in Ids : ~FoundLive(i)
    BY DEF GoesOn, Makes, Found, FoundLive, FoundUrl
  <2>3. req'[r] = q
    BY <1>1
  <2>4. ASSUME NEW i \in Ids, q.pc = "insert", FoundUrl(q.row), Live(i)', FoundUrl(rows'[i])
        PROVE  q.row.seen < rows'[i].born
    BY <1>1, <2>2, <2>4 DEF FoundLive, Live
  <2>5. QED
    BY <1>1, <2>1, <2>3, <2>4 DEF Timed
<1>3. \A s \in Requests : req'[s] = req[s] \/ Timed(s)'
  BY <1>1, <1>2
<1>4. \A i \in Ids : /\ rows'[i].seen \in {0, rows[i].seen} /\ rows'[i].born \in {0, rows[i].born}
                     /\ FoundLive(i)' => /\ FoundLive(i)
                                         /\ rows'[i].seen = rows[i].seen /\ rows'[i].born = rows[i].born
  BY <1>1 DEF FoundLive, Live
<1>5. QED
  BY <1>1, <1>3, <1>4, TimesStep

LEMMA IdleTimed ==
  ASSUME TypeOK', NEW r \in Requests, req'[r] = Idle
  PROVE  Timed(r)'
BY IdleTask DEF Timed, TypeOK

(* The document made last saw none of the others made for the URL. *)
LEMMA InsertTimes ==
  ASSUME TypeOK, TypeOK', Times, Versions, NEW r \in Requests, Insert(r)
  PROVE  Times'
<1> DEFINE i == req[r].id
<1>1. PICK new \in Row :
        /\ rows' = [rows EXCEPT ![i] = new]
        /\ new.key = req[r].row.key /\ new.url = req[r].row.url /\ new.by = req[r].row.by
        /\ new.version = req[r].row.version /\ new.seen = req[r].row.seen /\ new.born = clock + 1
  BY InsertRow
<1>2. req[r].pc = "insert" /\ i \in Ids /\ clock' = clock + 1
  BY DEF Insert, Versions, Versioned
<1>3. \A s \in Requests : req'[s] = IF s = r THEN Idle ELSE req[s]
  BY DEF Insert, End, Become, TypeOK
<1>4. rows'[i] = new /\ \A j \in Ids : j # i => rows'[j] = rows[j]
  BY <1>1, <1>2 DEF TypeOK
<1> HIDE DEF i
<1>5. /\ clock \in Nat /\ new.seen \in Nat /\ new.seen <= clock
      /\ \A j \in Ids : /\ rows[j].seen \in Nat /\ rows[j].seen <= clock
                        /\ rows[j].born \in Nat /\ rows[j].born <= clock
      /\ \A s \in Requests : req[s].row.seen \in Nat /\ req[s].row.seen <= clock
  BY <1>1, VersionNumbers DEF Times, Timed
<1>6. FoundUrl(new) => \A j \in Ids : FoundLive(j) => new.seen < rows[j].born
  BY <1>1, <1>2 DEF Times, Timed, FoundUrl, FoundLive
<1>7. \A j \in Ids : rows'[j].seen <= clock' /\ rows'[j].born <= clock'
  BY <1>1, <1>2, <1>4, <1>5
<1>8. ASSUME NEW s \in Requests
      PROVE  Timed(s)'
  <2>1. CASE s = r
    BY <1>3, <2>1, IdleTimed
  <2>2. CASE s # r
    <3>1. req'[s] = req[s] /\ Timed(s)
      BY <1>3, <2>2 DEF Times
    <3>2. req[s].row.seen <= clock'
      BY <1>2, <1>5
    <3>3. ASSUME NEW j \in Ids, req[s].pc = "insert", FoundUrl(req[s].row), FoundLive(j)'
          PROVE  req[s].row.seen < rows'[j].born
      BY <1>1, <1>4, <1>5, <3>1, <3>3 DEF Timed, FoundLive, Live
    <3>4. QED
      BY <3>1, <3>2, <3>3 DEF Timed, FoundLive
  <2>3. QED
    BY <2>1, <2>2
<1>9. DuplicatesOnlyByOverlap'
  <2> SUFFICES ASSUME NEW j \in Ids, NEW k \in Ids, j # k, FoundLive(j)', FoundLive(k)'
               PROVE  rows'[j].seen < rows'[k].born /\ rows'[k].seen < rows'[j].born
    BY DEF DuplicatesOnlyByOverlap, FoundLive, FoundUrl
  <2>1. CASE j # i /\ k # i
    BY <1>4, <2>1 DEF Times, DuplicatesOnlyByOverlap, FoundLive, FoundUrl, Live
  <2>2. CASE j = i
    BY <1>1, <1>4, <1>5, <1>6, <2>2 DEF FoundLive, Live
  <2>3. CASE k = i
    BY <1>1, <1>4, <1>5, <1>6, <2>3 DEF FoundLive, Live
  <2>4. QED
    BY <2>1, <2>2, <2>3
<1>10. QED
  BY <1>7, <1>8, <1>9 DEF Times

(* The rows after a step that writes one of them. *)
LEMMA RowStepTimes ==
  ASSUME TypeOK, TypeOK', Times, clock' = clock, NEW i \in Ids, NEW new \in Row, rows' = [rows EXCEPT ![i] = new],
         new.seen \in {0, rows[i].seen}, new.born \in {0, rows[i].born},
         new.live /\ FoundUrl(new) => FoundLive(i) /\ new.seen = rows[i].seen /\ new.born = rows[i].born,
         \A r \in Requests : req'[r] = req[r] \/ req'[r] = Idle
  PROVE  Times'
<1>1. rows'[i] = new /\ \A j \in Ids : j # i => rows'[j] = rows[j]
  BY DEF TypeOK
<1>2. ASSUME NEW j \in Ids
      PROVE  /\ rows'[j].seen \in {0, rows[j].seen} /\ rows'[j].born \in {0, rows[j].born}
             /\ FoundLive(j)' => /\ FoundLive(j)
                                 /\ rows'[j].seen = rows[j].seen /\ rows'[j].born = rows[j].born
  BY <1>1 DEF FoundLive, Live
<1>3. \A r \in Requests : req'[r] = req[r] \/ Timed(r)'
  BY IdleTimed
<1>4. QED
  BY <1>2, <1>3, TimesStep

LEMMA SameRowsTimes ==
  ASSUME TypeOK, TypeOK', Times, rows' = rows, clock' = clock,
         \A r \in Requests : req'[r] = req[r] \/ Timed(r)'
  PROVE  Times'
<1>1. \A i \in Ids : /\ rows'[i].seen \in {0, rows[i].seen} /\ rows'[i].born \in {0, rows[i].born}
                     /\ FoundLive(i)' => /\ FoundLive(i)
                                         /\ rows'[i].seen = rows[i].seen /\ rows'[i].born = rows[i].born
  BY DEF FoundLive, Live
<1>2. QED
  BY <1>1, TimesStep

-----------------------------------------------------------------------------
(* The steps one by one: types, versions and times. *)
LEMMA OpsStep ==
  ASSUME TypeOK, [Next]_vars
  PROVE  ops' \in 0..MaxOps
<1>1. ops' = ops \/ (ops < MaxOps /\ ops' = ops + 1)
  BY DEF Next, vars, FindOrCreate, LookAgain, Post, Upload, UploadFails, Store, Insert, InsertFails, EditMine, EditAny,
         Write, DeleteMine, SoftDelete, RemoveFile, CommitDelete, Lose, DeleteAny, Start
<1>2. QED
  BY <1>1, DocumentsConstants DEF TypeOK

(* What becomes of the files of the store. *)
LEMMA FilesStep ==
  ASSUME TypeOK, NEW k \in Keys, Open(k) \/ Rename(k) \/ Discard(k) \/ Delete(k)
  PROVE  /\ FilesTypeOK'
         /\ \A l \in Keys : l # k => files'[l] = files[l]
         /\ Open(k) => files[k] = "none" /\ files'[k] = "temp"
         /\ Rename(k) => files[k] = "temp" /\ files'[k] = "kept"
         /\ Discard(k) => files[k] = "temp" /\ files'[k] = "none"
         /\ Delete(k) => files'[k] = "none" \/ files'[k] = files[k]
BY DEF TypeOK, FilesTypeOK, Open, Rename, Discard, Delete

(* A request ends: with its file discarded, deleted or left where it is,   *)
(* or with nothing to do.                                                  *)
Ends(r) ==
  LET k == req[r].row.key IN
  /\ End(r) /\ rows' = rows /\ clock' = clock
  /\ \/ req[r].pc = "upload" /\ k \in Keys /\ Discard(k) /\ leaked' = leaked
     \/ req[r].pc = "insert" /\ k \in Keys /\ Delete(k) /\ leaked' = IF files'[k] = "kept" THEN leaked \union {k} ELSE leaked
     \/ req[r].pc \in {"upload", "insert"} /\ k \in Keys /\ files' = files /\ leaked' = leaked \union {k}
     \/ /\ ~(req[r].pc \in {"upload", "insert"} /\ k \in Keys) /\ ~(req[r].pc = "removed" /\ k \in Keys)
        /\ files' = files /\ leaked' = leaked

Breaks(r) ==
  LET k == req[r].row.key  id == req[r].id IN
  /\ End(r) /\ req[r].pc = "removed" /\ k \in Keys
  /\ rows' = [rows EXCEPT ![id].broken = @ \/ ~Downloadable(k)]
  /\ UNCHANGED <<files, clock, leaked>>

LEMMA KeyTypes ==
  ASSUME TypeOK
  PROVE  /\ \A r \in Requests : req[r].row.key \in Keys \union {None}
         /\ \A i \in Ids : rows[i].key \in Keys \union {None}
         /\ None \notin Keys
BY DocumentsConstants DEF TypeOK, Task, Row

LEMMA UploadFailsEnds ==
  ASSUME TypeOK, Keying, NEW r \in Requests, UploadFails(r)
  PROVE  Ends(r)
BY DEF UploadFails, Ends, Keying, Uploading

LEMMA InsertFailsEnds ==
  ASSUME TypeOK, NEW r \in Requests, InsertFails(r)
  PROVE  Ends(r)
BY KeyTypes DEF InsertFails, Ends

LEMMA LoseEnds ==
  ASSUME TypeOK, Keying, NEW r \in Requests, Lose(r)
  PROVE  Ends(r) \/ Breaks(r)
<1>1. req[r].row.key \in Keys \union {None} /\ None \notin Keys
  BY KeyTypes
<1>2. CASE req[r].pc = "removed" /\ req[r].row.key \in Keys
  BY <1>1, <1>2 DEF Lose, Breaks
<1>3. CASE ~(req[r].pc = "removed" /\ req[r].row.key \in Keys)
  BY <1>1, <1>3 DEF Lose, Ends, Keying, Uploading
<1>4. QED
  BY <1>2, <1>3

(* A document is deleted. *)
Removes(i) ==
  /\ i \in Ids /\ Live(i)
  /\ rows' = [rows EXCEPT ![i] = Deleted(@)]
  /\ leaked' = leaked \union LeftBehind(i)
  /\ UNCHANGED <<files, clock>>
  /\ req' \in [Requests -> Task]
  /\ \A r \in Requests : req'[r] = req[r] \/ (req'[r] = Idle /\ Holds(r, i))
  /\ \A r \in Requests : req'[r] = req[r] => ~Holds(r, i)

LEMMA CommitDeleteRemoves ==
  ASSUME TypeOK, Versions, Serving, NEW r \in Requests, CommitDelete(r)
  PROVE  Removes(req[r].id)
<1> DEFINE i == req[r].id
<1>1. i \in Ids /\ Holds(r, i) /\ Live(i)
  BY DEF CommitDelete, Versions, Versioned, Editing, Holds, Serving, Holding
<1>2. /\ req' \in [Requests -> Task]
      /\ \A s \in Requests : req'[s] = IF s = r THEN Idle ELSE req[s]
  BY IdleTask DEF CommitDelete, End, Become, TypeOK
<1>3. \A s \in Requests : req'[s] = req[s] => ~Holds(s, i)
  <2> SUFFICES ASSUME NEW s \in Requests, req'[s] = req[s], Holds(s, i) PROVE FALSE
    OBVIOUS
  <2>1. s = r
    BY <1>1 DEF Serving, Holding
  <2>2. QED
    BY <1>2, <2>1, IdleTask DEF Holds
<1>4. \A s \in Requests : req'[s] = req[s] \/ (req'[s] = Idle /\ Holds(s, i))
  BY <1>1, <1>2
<1>5. QED
  BY <1>1, <1>2, <1>3, <1>4 DEF CommitDelete, Removes

LEMMA DeleteAnyRemoves ==
  ASSUME TypeOK, DeleteAny
  PROVE  \E i \in Ids : Removes(i)
BY DEF DeleteAny, Removes, TypeOK, Held, Holds

-----------------------------------------------------------------------------
(* The steps one by one: types, versions and times. *)
LEMMA GoesOnFirst ==
  ASSUME TypeOK, Versions, Times, ops' \in 0..MaxOps, NEW r \in Requests, NEW q \in Task, GoesOn(r, q)
  PROVE  TypeOK' /\ Versions' /\ Times'
<1>1. TypeOK'
  BY DEF TypeOK, FilesTypeOK, GoesOn, Turn
<1>2. QED
  BY <1>1, GoesOnVersions, GoesOnTimes

(* A request that moves a file about. *)
LEMMA TurnFirst ==
  ASSUME TypeOK, Versions, Times, ops' \in 0..MaxOps, NEW r \in Requests, NEW q \in Task, Turn(r, q),
         FilesTypeOK', UNCHANGED <<rows, clock, leaked>>,
         q.row.seen <= clock, q.pc = "insert" => ~FoundUrl(q.row),
         q.pc # "write", q.pc = "insert" => q.id \in Ids /\ q.row.version = 1 /\ q.row.by # "none" /\ q.row.live,
         q.pc \in Editing => q.id \in Ids
  PROVE  TypeOK' /\ Versions' /\ Times'
<1>1. TypeOK'
  BY DEF TypeOK, Turn
<1>2. \A s \in Requests : req'[s] = IF s = r THEN q ELSE req[s]
  BY DEF Turn, TypeOK
<1>3. Versioned(r)' /\ Timed(r)'
  BY <1>2 DEF Versioned, Timed
<1>4. Versions'
  BY <1>1, <1>2, <1>3, SameRowsAge, VersionsStep
<1>5. Times'
  BY <1>1, <1>2, <1>3, SameRowsTimes
<1>6. QED
  BY <1>1, <1>4, <1>5

LEMMA UploadFirst ==
  ASSUME TypeOK, Versions, Times, ops' \in 0..MaxOps, NEW r \in Requests, Upload(r)
  PROVE  TypeOK' /\ Versions' /\ Times'
<1>1. PICK q \in Task, k \in Keys :
        Turn(r, q) /\ Fresh(k) /\ Open(k) /\ q.pc = "upload" /\ q.row.key = k /\ q.row.seen = 0
  BY UploadTurn
<1>2. FilesTypeOK'
  BY <1>1, FilesStep
<1>3. 0 <= clock
  BY DEF TypeOK
<1>4. UNCHANGED <<rows, clock, leaked>>
  BY DEF Upload
<1>5. QED
  BY <1>1, <1>2, <1>3, <1>4, TurnFirst DEF Editing

LEMMA StoreFirst ==
  ASSUME TypeOK, Versions, Times, Keying, ops' \in 0..MaxOps, NEW r \in Requests, Store(r)
  PROVE  TypeOK' /\ Versions' /\ Times'
<1>1. PICK q \in Task :
        /\ Turn(r, q) /\ q.pc = "insert" /\ q.id \in Gen /\ q.row.key = req[r].row.key
        /\ q.row.version = 1 /\ q.row.by = "uploaded" /\ q.row.seen = clock /\ q.row.live
  BY StoreTurn
<1>2. FilesTypeOK'
  <2>1. req[r].row.key \in Keys /\ Rename(req[r].row.key)
    BY DEF Store, Keying, Uploading
  <2>2. QED
    BY <2>1, FilesStep
<1>3. clock <= clock
  BY DEF TypeOK
<1>4. UNCHANGED <<rows, clock, leaked>>
  BY DEF Store
<1>5. QED
  BY <1>1, <1>2, <1>3, <1>4, TurnFirst DEF Editing, FoundUrl, Ids

LEMMA RemoveFileFirst ==
  ASSUME TypeOK, Versions, Times, ops' \in 0..MaxOps, NEW r \in Requests, RemoveFile(r)
  PROVE  TypeOK' /\ Versions' /\ Times'
<1>1. PICK q \in Task : Turn(r, q) /\ q.pc = "removed" /\ q.id = req[r].id /\ q.row = req[r].row
  BY RemoveFileTurn
<1>2. FilesTypeOK'
  <2>1. CASE req[r].row.key = None
    BY <2>1 DEF RemoveFile, TypeOK, FilesTypeOK
  <2>2. CASE req[r].row.key # None
    BY <2>2, KeyTypes, FilesStep DEF RemoveFile
  <2>3. QED
    BY <2>1, <2>2
<1>3. q.row.seen <= clock /\ q.id \in Ids
  BY <1>1 DEF Times, Timed, RemoveFile, Versions, Versioned, Editing
<1>4. UNCHANGED <<rows, clock, leaked>>
  BY DEF RemoveFile
<1>5. QED
  BY <1>1, <1>2, <1>3, <1>4, TurnFirst

(* A request ends that wrote one row. *)
LEMMA RowFirst ==
  ASSUME TypeOK, Versions, Times, ops' \in 0..MaxOps, leaked' \subseteq Keys, files' = files, clock' = clock,
         req' \in [Requests -> Task], \A r \in Requests : req'[r] = req[r] \/ req'[r] = Idle,
         NEW i \in Ids, NEW new \in Row, rows' = [rows EXCEPT ![i] = new],
         Ages(i),
         new.seen \in {0, rows[i].seen}, new.born \in {0, rows[i].born},
         new.live /\ FoundUrl(new) => FoundLive(i) /\ new.seen = rows[i].seen /\ new.born = rows[i].born
  PROVE  TypeOK' /\ Versions' /\ Times'
<1>1. TypeOK'
  BY DEF TypeOK, FilesTypeOK
<1>2. Versions'
  BY <1>1, RowStepVersions
<1>3. Times'
  BY <1>1, RowStepTimes
<1>4. QED
  BY <1>1, <1>2, <1>3

LEMMA EndTask ==
  ASSUME TypeOK, NEW r \in Requests, End(r)
  PROVE  /\ req' \in [Requests -> Task]
         /\ \A s \in Requests : req'[s] = IF s = r THEN Idle ELSE req[s]
BY IdleTask DEF End, Become, TypeOK

LEMMA InsertFirst ==
  ASSUME TypeOK, Versions, Times, ops' \in 0..MaxOps, NEW r \in Requests, Insert(r)
  PROVE  TypeOK' /\ Versions' /\ Times'
<1>0. PICK i \in Ids : i = req[r].id
  BY DEF Insert, Versions, Versioned
<1>1. PICK new \in Row :
        /\ rows' = [rows EXCEPT ![i] = new]
        /\ new.version = req[r].row.version /\ new.by = req[r].row.by
  BY <1>0, InsertRow
<1>2. i \in Ids /\ req[r].row.version = 1 /\ req[r].row.by # "none" /\ ~Exists(i)
  BY <1>0 DEF Insert, Versions, Versioned
<1>3. /\ req' \in [Requests -> Task]
      /\ \A s \in Requests : req'[s] = IF s = r THEN Idle ELSE req[s]
  BY EndTask DEF Insert
<1>4. clock' \in Nat
  BY DEF Insert, TypeOK
<1>5. TypeOK'
  BY <1>1, <1>3, <1>4 DEF TypeOK, FilesTypeOK, Insert
<1>6. rows'[i] = new
  BY <1>1, <1>2 DEF TypeOK
<1>7. Ages(i)
  BY <1>1, <1>2, <1>6 DEF Ages, Exists, Versions
<1>8. Versions'
  BY <1>1, <1>2, <1>3, <1>5, <1>7, RowStepVersions
<1>9. Times'
  BY <1>5, InsertTimes
<1>10. QED
  BY <1>5, <1>8, <1>9

LEMMA WriteFirst ==
  ASSUME TypeOK, Versions, Times, ops' \in 0..MaxOps, NEW r \in Requests, Write(r)
  PROVE  TypeOK' /\ Versions' /\ Times'
<1>1. PICK i \in Ids : i = req[r].id
  BY WriteRow
<1>2. PICK new \in Row :
        /\ rows' = [rows EXCEPT ![i] = new]
        /\ new.live = TRUE /\ new.by # "none" /\ new.version = rows[i].version + 1
        /\ new.seen \in {0, rows[i].seen} /\ new.born \in {0, rows[i].born}
        /\ new.by = "found" => /\ Live(i) /\ rows[i].by = "found" /\ rows[i].url = new.url
                               /\ new.seen = rows[i].seen /\ new.born = rows[i].born
  BY <1>1, WriteRow
<1>3. /\ req' \in [Requests -> Task]
      /\ \A s \in Requests : req'[s] = IF s = r THEN Idle ELSE req[s]
  BY EndTask DEF Write
<1>4. rows'[i] = new /\ rows[i].version \in Nat
  BY <1>1, <1>2, VersionNumbers DEF TypeOK
<1>5. files' = files /\ clock' = clock /\ leaked' \subseteq Keys
  BY DEF Write, TypeOK
<1>6. Ages(i)
  BY <1>2, <1>4 DEF Ages, Exists
<1>7. new.live /\ FoundUrl(new) => FoundLive(i) /\ new.seen = rows[i].seen /\ new.born = rows[i].born
  BY <1>2 DEF FoundUrl, FoundLive
<1>8. QED
  BY <1>1, <1>2, <1>3, <1>5, <1>6, <1>7, RowFirst

(* What a deletion leaves of the row. *)
LEMMA RemovedRow ==
  ASSUME TypeOK, NEW i \in Ids, Removes(i)
  PROVE  \E new \in Row :
           /\ rows' = [rows EXCEPT ![i] = new]
           /\ new.live = FALSE /\ new.version = rows[i].version + 1
           /\ new.mode = rows[i].mode /\ new.url = rows[i].url /\ new.key = rows[i].key
           /\ new.owner = rows[i].owner /\ new.by = rows[i].by /\ new.seen = rows[i].seen /\ new.born = rows[i].born
<1>1. PICK new : new = Deleted(rows[i])
  OBVIOUS
<1>2. rows' = [rows EXCEPT ![i] = new]
  BY <1>1 DEF Removes
<1>3. rows[i] \in Row
  BY DEF TypeOK
<1>4. QED
  BY <1>1, <1>2, <1>3, DeletedRow

LEMMA RemovesFirst ==
  ASSUME TypeOK, Versions, Times, ops' \in 0..MaxOps, NEW i \in Ids, Removes(i)
  PROVE  TypeOK' /\ Versions' /\ Times'
<1>1. PICK new \in Row :
        /\ rows' = [rows EXCEPT ![i] = new]
        /\ new.live = FALSE /\ new.version = rows[i].version + 1
        /\ new.by = rows[i].by /\ new.seen = rows[i].seen /\ new.born = rows[i].born
  BY RemovedRow
<1>2. /\ req' \in [Requests -> Task] /\ \A s \in Requests : req'[s] = req[s] \/ req'[s] = Idle
      /\ files' = files /\ clock' = clock /\ Live(i)
  BY DEF Removes
<1>3. leaked' \subseteq Keys
  BY DEF Removes, LeftBehind, TypeOK
<1>4. rows'[i] = new /\ rows[i].version \in Nat /\ Exists(i)
  BY <1>1, <1>2, VersionNumbers DEF TypeOK, Versions
<1>5. Ages(i)
  BY <1>1, <1>4 DEF Ages, Exists
<1>6. QED
  BY <1>1, <1>2, <1>3, <1>5, RowFirst

LEMMA EndsFirst ==
  ASSUME TypeOK, Versions, Times, ops' \in 0..MaxOps, NEW r \in Requests, Ends(r)
  PROVE  TypeOK' /\ Versions' /\ Times'
<1>1. /\ req' \in [Requests -> Task]
      /\ \A s \in Requests : req'[s] = IF s = r THEN Idle ELSE req[s]
  BY EndTask DEF Ends
<1>2. rows' = rows /\ clock' = clock
  BY DEF Ends
<1>3. FilesTypeOK' /\ leaked' \subseteq Keys
  BY FilesStep DEF Ends, TypeOK, FilesTypeOK
<1>4. TypeOK'
  BY <1>1, <1>2, <1>3 DEF TypeOK
<1>5. Versions'
  BY <1>1, <1>2, <1>4, EndVersions
<1>6. Times'
  BY <1>1, <1>2, <1>4, IdleTimed, SameRowsTimes
<1>7. QED
  BY <1>4, <1>5, <1>6

(* A deletion that removed the file is rolled back. *)
LEMMA BrokenRow ==
  ASSUME TypeOK, Versions, NEW r \in Requests, Breaks(r)
  PROVE  /\ req[r].id \in Ids
         /\ \E new \in Row :
              /\ rows' = [rows EXCEPT ![req[r].id] = new]
              /\ new.live = rows[req[r].id].live /\ new.version = rows[req[r].id].version
              /\ new.mode = rows[req[r].id].mode /\ new.url = rows[req[r].id].url /\ new.key = rows[req[r].id].key
              /\ new.owner = rows[req[r].id].owner /\ new.by = rows[req[r].id].by
              /\ new.seen = rows[req[r].id].seen /\ new.born = rows[req[r].id].born
              /\ new.broken <=> rows[req[r].id].broken \/ files[req[r].row.key] # "kept"
<1>1. PICK i \in Ids : i = req[r].id
  BY DEF Breaks, Versions, Versioned, Editing
<1>2. PICK row \in Row : row = rows[i]
  BY DEF TypeOK
<1>3. PICK b \in BOOLEAN : b <=> row.broken \/ files[req[r].row.key] # "kept"
  OBVIOUS
<1> DEFINE x == [row EXCEPT !.broken = b]
<1>4. /\ x \in Row /\ x.live = row.live /\ x.version = row.version /\ x.mode = row.mode /\ x.url = row.url
      /\ x.key = row.key /\ x.owner = row.owner /\ x.by = row.by /\ x.seen = row.seen /\ x.born = row.born
      /\ x.broken = b
  BY DEF Row
<1>5. rows' = [rows EXCEPT ![i] = x]
  BY <1>1, <1>2, <1>3 DEF Breaks, Downloadable, Row
<1> HIDE DEF x
<1>6. QED
  BY <1>1, <1>2, <1>3, <1>4, <1>5

LEMMA BreaksFirst ==
  ASSUME TypeOK, Versions, Times, ops' \in 0..MaxOps, NEW r \in Requests, Breaks(r)
  PROVE  TypeOK' /\ Versions' /\ Times'
<1>1. PICK i \in Ids : i = req[r].id
  BY BrokenRow
<1>2. PICK new \in Row :
        /\ rows' = [rows EXCEPT ![i] = new]
        /\ new.live = rows[i].live /\ new.version = rows[i].version
        /\ new.mode = rows[i].mode /\ new.url = rows[i].url /\ new.key = rows[i].key /\ new.by = rows[i].by
        /\ new.seen = rows[i].seen /\ new.born = rows[i].born
  BY <1>1, BrokenRow
<1>3. /\ req' \in [Requests -> Task]
      /\ \A s \in Requests : req'[s] = IF s = r THEN Idle ELSE req[s]
  BY EndTask DEF Breaks
<1>4. files' = files /\ clock' = clock /\ leaked' \subseteq Keys
  BY DEF Breaks, TypeOK
<1>5. rows'[i] = new
  BY <1>2 DEF TypeOK
<1>6. Ages(i)
  BY <1>2, <1>5 DEF Ages, Exists
<1>7. new.live /\ FoundUrl(new) => FoundLive(i) /\ new.seen = rows[i].seen /\ new.born = rows[i].born
  BY <1>2 DEF FoundUrl, FoundLive, Live
<1>8. QED
  BY <1>2, <1>3, <1>4, <1>6, <1>7, RowFirst

-----------------------------------------------------------------------------
(* Keying: a key belongs to one document or one upload.                    *)
LEMMA KeysApart ==
  ASSUME TypeOK, Keying,
         \A i \in Ids, k \in Keys : Bound(i, k)' => Bound(i, k),
         \A i \in Ids : Exists(i) => Exists(i)',
         \A i \in Ids, k \in Keys : Bound(i, k) =>
           files'[k] # "temp" /\ (Loose(i)' => files'[k] = "none" \/ k \in leaked'),
         \A s \in Requests : req'[s] = req[s] \/ (req'[s].pc # "upload" /\ \A k \in Keys : ~Uploads(s, k)'),
         \A s \in Requests, k \in Keys : Uploads(s, k) /\ req'[s] = req[s] => files'[k] = files[k],
         \A s \in Requests : req'[s] = req[s] \/ (req'[s].pc \in Editing => Exists(req[s].id)' \/ req'[s].id = Name),
         \A s \in Requests : req[s].pc \in Editing => req[s].id \in Ids
  PROVE  Keying'
<1>1. \A i, j \in Ids, k, l \in Keys : Bound(i, k)' /\ Bound(j, l)' => (i = j <=> k = l)
  BY DEF Keying
<1>2. \A i \in Ids, k \in Keys : Bound(i, k)' => Binding(i, k)'
  BY DEF Keying, Binding
<1>3. ASSUME NEW s \in Requests, NEW k \in Keys, Uploads(s, k)'
      PROVE  req'[s] = req[s] /\ Uploads(s, k)
  BY <1>3 DEF Uploads
<1>4. ASSUME NEW r \in Requests
      PROVE  Uploading(r)'
  <2>1. req'[r].pc = "upload" => req'[r].row.key \in Keys
    BY DEF Keying, Uploading
  <2>2. ASSUME NEW k \in Keys, Uploads(r, k)'
        PROVE  /\ files'[k] = IF req'[r].pc = "upload" THEN "temp" ELSE "kept"
               /\ req'[r].pc = "insert" => req'[r].id \in Gen
               /\ \A s \in Requests : Uploads(s, k)' => s = r
               /\ \A i \in Ids : ~Bound(i, k)'
    <3>1. req'[r] = req[r] /\ Uploads(r, k) /\ files'[k] = files[k]
      BY <1>3, <2>2
    <3>2. /\ files[k] = IF req[r].pc = "upload" THEN "temp" ELSE "kept"
          /\ req[r].pc = "insert" => req[r].id \in Gen
          /\ \A s \in Requests : Uploads(s, k) => s = r
          /\ \A i \in Ids : ~Bound(i, k)
      BY <3>1 DEF Keying, Uploading
    <3>3. QED
      BY <1>3, <3>1, <3>2
  <2>3. QED
    BY <2>1, <2>2 DEF Uploading
<1>5. \A r \in Requests : req'[r].pc \in Editing => Exists(req[r].id)' \/ req'[r].id = Name
  BY DEF Keying
<1>6. QED
  BY <1>1, <1>2, <1>4, <1>5 DEF Keying

LEMMA EditingIds ==
  ASSUME Versions
  PROVE  \A s \in Requests : req[s].pc \in Editing => req[s].id \in Ids
BY DEF Versions, Versioned

LEMMA GoesOnKeying ==
  ASSUME TypeOK, Versions, Keying, NEW r \in Requests, NEW q \in Task, GoesOn(r, q)
  PROVE  Keying'
<1>1. /\ rows' = rows /\ files' = files /\ leaked' = leaked
      /\ \A s \in Requests : req'[s] = IF s = r THEN q ELSE req[s]
  BY DEF GoesOn, Turn, TypeOK
<1>2. ASSUME q.pc \in Editing
      PROVE  /\ q.id \in Ids /\ (Exists(q.id) \/ q.id = Name)
             /\ q.row.key \in Keys => Bound(q.id, q.row.key)
             /\ q.row.key = None /\ q.pc = "write" => Loose(q.id)
  <2>1. CASE q.pc \in {"write", "delete"} /\ Reads(q)
    BY <2>1, KeyTypes DEF Reads, Bound, Loose
  <2>2. CASE q.pc = "deleted" /\ req[r].pc = "delete" /\ q.id = req[r].id /\ q.row = req[r].row
    BY <2>2, EditingIds DEF Keying, Editing, Bound
  <2>3. QED
    BY <1>2, <2>1, <2>2 DEF GoesOn, Editing
<1>3. ASSUME NEW i \in Ids, NEW k \in Keys, Bound(i, k)'
      PROVE  Bound(i, k)
  <2>1. CASE rows'[i].key = k
    BY <1>1, <2>1 DEF Bound
  <2>2. CASE \E s \in Requests : req'[s].pc \in Editing /\ req'[s].id = i /\ req'[s].row.key = k
    <3>1. PICK s \in Requests : req'[s].pc \in Editing /\ req'[s].id = i /\ req'[s].row.key = k
      BY <2>2
    <3>2. CASE s = r
      BY <1>1, <1>2, <3>1, <3>2
    <3>3. CASE s # r
      BY <1>1, <3>1, <3>3 DEF Bound
    <3>4. QED
      BY <3>2, <3>3
  <2>3. QED
    BY <1>3, <2>1, <2>2 DEF Bound
<1>4. ASSUME NEW i \in Ids, Loose(i)'
      PROVE  Loose(i)
  <2>1. CASE \E s \in Requests : req'[s].pc = "write" /\ req'[s].id = i /\ req'[s].row.key = None
    <3>1. PICK s \in Requests : req'[s].pc = "write" /\ req'[s].id = i /\ req'[s].row.key = None
      BY <2>1
    <3>2. CASE s = r
      BY <1>1, <1>2, <3>1, <3>2 DEF Editing
    <3>3. CASE s # r
      BY <1>1, <3>1, <3>3 DEF Loose
    <3>4. QED
      BY <3>2, <3>3
  <2>2. QED
    BY <1>1, <1>4, <2>1 DEF Loose, Live
<1>5. \A i \in Ids, k \in Keys : Bound(i, k) =>
        files'[k] # "temp" /\ (Loose(i)' => files'[k] = "none" \/ k \in leaked')
  BY <1>1, <1>4 DEF Keying, Binding
<1>6. \A s \in Requests : req'[s] = req[s] \/ (req'[s].pc # "upload" /\ \A k \in Keys : ~Uploads(s, k)')
  BY <1>1, KeyTypes, IdleTask DEF GoesOn, Makes, Uploads
<1>7. \A s \in Requests : req'[s] = req[s] \/ (req'[s].pc \in Editing => Exists(req[s].id)' \/ req'[s].id = Name)
  BY <1>1, <1>2 DEF Exists
<1>8. \A i \in Ids : Exists(i) => Exists(i)'
  BY <1>1 DEF Exists
<1>9. QED
  BY <1>1, <1>3, <1>5, <1>6, <1>7, <1>8, EditingIds, KeysApart

(* A request ends, or removes the file of the row it read: no document     *)
(* gets a key by it.                                                       *)
LEMMA FewerKeys ==
  ASSUME TypeOK, Versions, Keying, rows' = rows,
         \A s \in Requests : \/ req'[s] = req[s]
                             \/ req'[s].pc = "idle"
                             \/ /\ req[s].pc \in Editing /\ req'[s].pc = "removed"
                                /\ req'[s].id = req[s].id /\ req'[s].row = req[s].row,
         \A i \in Ids, k \in Keys : Bound(i, k) => files'[k] \in {"none", files[k]},
         \A s \in Requests, k \in Keys : Uploads(s, k) /\ req'[s] = req[s] => files'[k] = files[k],
         leaked \subseteq leaked'
  PROVE  Keying'
<1>1. ASSUME NEW i \in Ids, NEW k \in Keys, Bound(i, k)'
      PROVE  Bound(i, k)
  BY <1>1 DEF Bound, Editing
<1>2. ASSUME NEW i \in Ids, Loose(i)'
      PROVE  Loose(i)
  BY <1>2 DEF Loose, Live
<1>3. \A i \in Ids, k \in Keys : Bound(i, k) =>
        files'[k] # "temp" /\ (Loose(i)' => files'[k] = "none" \/ k \in leaked')
  BY <1>2 DEF Keying, Binding
<1>4. \A s \in Requests : req'[s] = req[s] \/ (req'[s].pc # "upload" /\ \A k \in Keys : ~Uploads(s, k)')
  BY DEF Uploads
<1>5. \A s \in Requests : req'[s] = req[s] \/ (req'[s].pc \in Editing => Exists(req[s].id)' \/ req'[s].id = Name)
  BY DEF Keying, Editing, Exists
<1>6. \A i \in Ids : Exists(i) => Exists(i)'
  BY DEF Exists
<1>7. QED
  BY <1>1, <1>3, <1>4, <1>5, <1>6, EditingIds, KeysApart

LEMMA EndsKeying ==
  ASSUME TypeOK, Versions, Keying, NEW r \in Requests, Ends(r)
  PROVE  Keying'
<1>1. /\ rows' = rows
      /\ \A s \in Requests : req'[s] = IF s = r THEN Idle ELSE req[s]
  BY EndTask DEF Ends
<1>2. ASSUME NEW l \in Keys, files'[l] # files[l]
      PROVE  Uploads(r, l)
  BY <1>2, FilesStep DEF Ends, Uploads
<1>3. \A l \in Keys : Uploads(r, l) =>
        /\ \A s \in Requests : Uploads(s, l) => s = r
        /\ \A i \in Ids : ~Bound(i, l)
  BY DEF Keying, Uploading
<1>4. \A i \in Ids, k \in Keys : Bound(i, k) => files'[k] \in {"none", files[k]}
  BY <1>2, <1>3
<1>5. \A s \in Requests, k \in Keys : Uploads(s, k) /\ req'[s] = req[s] => files'[k] = files[k]
  BY <1>1, <1>2, <1>3, IdleTask DEF Uploads
<1>6. leaked \subseteq leaked'
  BY DEF Ends
<1>7. QED
  BY <1>1, <1>4, <1>5, <1>6, IdleTask, FewerKeys

LEMMA RemoveFileKeying ==
  ASSUME TypeOK, Versions, Keying, NEW r \in Requests, RemoveFile(r)
  PROVE  Keying'
<1>1. PICK q \in Task : Turn(r, q) /\ q.pc = "removed" /\ q.id = req[r].id /\ q.row = req[r].row
  BY RemoveFileTurn
<1>2. rows' = rows /\ leaked' = leaked /\ req[r].pc = "deleted"
  BY DEF RemoveFile
<1>3. \A s \in Requests : req'[s] = IF s = r THEN q ELSE req[s]
  BY <1>1 DEF Turn, TypeOK
<1>4. ASSUME NEW l \in Keys
      PROVE  files'[l] = files[l] \/ (files'[l] = "none" /\ req[r].row.key = l)
  BY FilesStep, KeyTypes DEF RemoveFile
<1>5. \A s \in Requests, l \in Keys : Uploads(s, l) => files'[l] = files[l]
  BY <1>2, <1>4, EditingIds DEF Keying, Uploading, Bound, Editing
<1>6. QED
  BY <1>1, <1>2, <1>3, <1>4, <1>5, FewerKeys DEF Editing

(* The row of a document is written, and the requests that did it end.     *)
LEMMA RowKeying ==
  ASSUME TypeOK, Versions, Keying, NEW i \in Ids, NEW new \in Row, rows' = [rows EXCEPT ![i] = new],
         files' = files, leaked \subseteq leaked',
         \A s \in Requests : req'[s] = req[s] \/ req'[s] = Idle,
         Exists(i) => new.by # "none",
         new.key \in Keys => Bound(i, new.key),
         ~new.live \/ new.key = None => \A k \in Keys : Bound(i, k) => Loose(i) \/ files[k] = "none" \/ k \in leaked'
  PROVE  Keying'
<1>1. rows'[i] = new /\ \A j \in Ids : j # i => rows'[j] = rows[j]
  BY DEF TypeOK
<1>2. ASSUME NEW j \in Ids, NEW k \in Keys, Bound(j, k)'
      PROVE  Bound(j, k)
  <2>1. CASE rows'[j].key = k
    BY <1>1, <2>1 DEF Bound
  <2>2. CASE \E s \in Requests : req'[s].pc \in Editing /\ req'[s].id = j /\ req'[s].row.key = k
    BY <2>2, IdleTask DEF Bound, Editing
  <2>3. QED
    BY <1>2, <2>1, <2>2 DEF Bound
<1>3. ASSUME NEW j \in Ids, NEW k \in Keys, Bound(j, k), Loose(j)'
      PROVE  files[k] = "none" \/ k \in leaked'
  <2>1. Loose(j) => files[k] = "none" \/ k \in leaked'
    BY <1>3 DEF Keying, Binding
  <2>2. CASE \E s \in Requests : req'[s].pc = "write" /\ req'[s].id = j /\ req'[s].row.key = None
    BY <2>1, <2>2, IdleTask DEF Loose
  <2>3. CASE j # i /\ (~Live(j)' \/ rows'[j].key = None)
    BY <1>1, <2>1, <2>3 DEF Loose, Live
  <2>4. CASE j = i /\ (~Live(j)' \/ rows'[j].key = None)
    BY <1>1, <1>3, <2>1, <2>4 DEF Live
  <2>5. QED
    BY <1>3, <2>2, <2>3, <2>4 DEF Loose
<1>4. \A j \in Ids, k \in Keys : Bound(j, k) =>
        files'[k] # "temp" /\ (Loose(j)' => files'[k] = "none" \/ k \in leaked')
  BY <1>3 DEF Keying, Binding
<1>5. \A j \in Ids : Exists(j) => Exists(j)'
  BY <1>1 DEF Exists
<1>6. \A s \in Requests : req'[s] = req[s] \/ (req'[s].pc # "upload" /\ \A k \in Keys : ~Uploads(s, k)')
  BY IdleTask DEF Uploads
<1>7. \A s \in Requests : req'[s] = req[s] \/ (req'[s].pc \in Editing => Exists(req[s].id)' \/ req'[s].id = Name)
  BY IdleTask DEF Editing
<1>8. QED
  BY <1>2, <1>4, <1>5, <1>6, <1>7, EditingIds, KeysApart

LEMMA WriteKeying ==
  ASSUME TypeOK, Versions, Keying, NEW r \in Requests, Write(r)
  PROVE  Keying'
<1>1. PICK i \in Ids : i = req[r].id
  BY WriteRow
<1>2. PICK new \in Row :
        /\ rows' = [rows EXCEPT ![i] = new]
        /\ new.live = TRUE /\ new.by # "none" /\ new.key = req[r].row.key
  BY <1>1, WriteRow
<1>3. \A s \in Requests : req'[s] = req[s] \/ req'[s] = Idle
  BY EndTask DEF Write
<1>4. files' = files /\ leaked' = leaked /\ req[r].pc = "write"
  BY DEF Write
<1>5. new.key \in Keys => Bound(i, new.key)
  BY <1>1, <1>2, <1>4 DEF Bound, Editing
<1>6. new.key = None => Loose(i)
  BY <1>1, <1>2, <1>4 DEF Loose
<1>7. QED
  BY <1>2, <1>3, <1>4, <1>5, <1>6, RowKeying

LEMMA RemovesKeying ==
  ASSUME TypeOK, Versions, Keying, NEW i \in Ids, Removes(i)
  PROVE  Keying'
<1>1. PICK new \in Row :
        rows' = [rows EXCEPT ![i] = new] /\ new.live = FALSE /\ new.key = rows[i].key /\ new.by = rows[i].by
  BY RemovedRow
<1>2. /\ \A s \in Requests : req'[s] = req[s] \/ req'[s] = Idle
      /\ files' = files /\ leaked' = leaked \union LeftBehind(i)
  BY DEF Removes
<1>3. Exists(i) => new.by # "none"
  BY <1>1 DEF Exists
<1>4. new.key \in Keys => Bound(i, new.key)
  BY <1>1 DEF Bound
<1>5. ASSUME NEW k \in Keys, Bound(i, k)
      PROVE  Loose(i) \/ files[k] = "none" \/ k \in leaked'
  <2>1. files[k] \in {"none", "kept"}
    BY <1>5 DEF Keying, Binding, TypeOK, FilesTypeOK
  <2>2. CASE rows[i].key = k
    BY <1>2, <2>1, <2>2 DEF LeftBehind
  <2>3. CASE rows[i].key # k
    <3>1. rows[i].key = None
      <4>1. rows[i].key \in Keys \union {None}
        BY KeyTypes
      <4>2. rows[i].key \in Keys => Bound(i, rows[i].key)
        BY DEF Bound
      <4>3. QED
        BY <1>5, <2>3, <4>1, <4>2 DEF Keying
    <3>2. QED
      BY <3>1 DEF Loose
  <2>4. QED
    BY <2>2, <2>3
<1>6. QED
  BY <1>1, <1>2, <1>3, <1>4, <1>5, RowKeying

LEMMA BreaksKeying ==
  ASSUME TypeOK, Versions, Keying, NEW r \in Requests, Breaks(r)
  PROVE  Keying'
<1>1. PICK i \in Ids : i = req[r].id
  BY BrokenRow
<1>2. PICK new \in Row :
        /\ rows' = [rows EXCEPT ![i] = new]
        /\ new.live = rows[i].live /\ new.key = rows[i].key /\ new.by = rows[i].by
  BY <1>1, BrokenRow
<1>3. \A s \in Requests : req'[s] = req[s] \/ req'[s] = Idle
  BY EndTask DEF Breaks
<1>4. files' = files /\ leaked' = leaked
  BY DEF Breaks
<1>5. (Exists(i) => new.by # "none") /\ (new.key \in Keys => Bound(i, new.key))
  BY <1>2 DEF Bound, Exists
<1>6. ~new.live \/ new.key = None => Loose(i)
  BY <1>2 DEF Loose, Live
<1>7. QED
  BY <1>2, <1>3, <1>4, <1>5, <1>6, RowKeying

(* A new key is nobody's. *)
LEMMA FreshKeys ==
  ASSUME NEW k \in Keys, Fresh(k)
  PROVE  /\ \A i \in Ids : ~Bound(i, k) /\ rows[i].key # k
         /\ \A s \in Requests : ~Uploads(s, k) /\ req[s].row.key # k
         /\ k \notin leaked
BY DEF Fresh, Bound, Uploads

(* An upload starts, or its file gets into place. *)
LEMMA UploadingKeying ==
  ASSUME TypeOK, Versions, Keying, NEW r \in Requests, NEW q \in Task, Turn(r, q), NEW k \in Keys,
         UNCHANGED <<rows, leaked>>, q.row.key = k,
         req[r].pc \in {"idle", "upload"},
         \A l \in Keys : l # k => files'[l] = files[l],
         \/ q.pc = "upload" /\ files'[k] = "temp"
         \/ q.pc = "insert" /\ files'[k] = "kept" /\ q.id \in Gen,
         \A i \in Ids : ~Bound(i, k),
         \A s \in Requests : Uploads(s, k) => s = r
  PROVE  Keying'
<1>1. \A s \in Requests : req'[s] = IF s = r THEN q ELSE req[s]
  BY DEF Turn, TypeOK
<1>2. ASSUME NEW i \in Ids, NEW l \in Keys
      PROVE  Bound(i, l)' <=> Bound(i, l)
  BY <1>1 DEF Bound, Editing
<1>3. ASSUME NEW i \in Ids
      PROVE  Loose(i)' <=> Loose(i)
  BY <1>1 DEF Loose, Live
<1>4. \A i, j \in Ids, l, m \in Keys : Bound(i, l)' /\ Bound(j, m)' => (i = j <=> l = m)
  BY <1>2 DEF Keying
<1>5. ASSUME NEW i \in Ids, NEW l \in Keys, Bound(i, l)'
      PROVE  Binding(i, l)'
  <2>1. Binding(i, l) /\ l # k
    BY <1>2, <1>5 DEF Keying
  <2>2. QED
    BY <1>3, <2>1 DEF Binding, Exists
<1>6. Uploading(r)'
  <2>1. \A s \in Requests : Uploads(s, k)' => s = r
    BY <1>1 DEF Uploads
  <2>2. \A l \in Keys : Uploads(r, l)' => l = k
    BY <1>1 DEF Uploads
  <2>3. \A i \in Ids : ~Bound(i, k)'
    BY <1>2
  <2>4. QED
    BY <1>1, <2>1, <2>2, <2>3 DEF Uploading
<1>7. ASSUME NEW s \in Requests, s # r
      PROVE  Uploading(s)'
  <2>1. req'[s] = req[s] /\ Uploading(s)
    BY <1>1, <1>7 DEF Keying
  <2>2. ASSUME NEW l \in Keys, Uploads(s, l)'
        PROVE  /\ files'[l] = IF req'[s].pc = "upload" THEN "temp" ELSE "kept"
               /\ req'[s].pc = "insert" => req'[s].id \in Gen
               /\ \A t \in Requests : Uploads(t, l)' => t = s
               /\ \A i \in Ids : ~Bound(i, l)'
    <3>1. Uploads(s, l)
      BY <2>1, <2>2 DEF Uploads
    <3>2. l # k
      BY <1>7, <3>1
    <3>3. ~Uploads(r, l)'
      BY <1>1, <3>2 DEF Uploads
    <3>4. \A t \in Requests : Uploads(t, l)' => t = s
      BY <1>1, <2>1, <3>1, <3>3 DEF Uploading, Uploads
    <3>5. QED
      BY <1>2, <2>1, <3>1, <3>2, <3>4 DEF Uploading
  <2>3. QED
    BY <2>1, <2>2 DEF Uploading
<1>8. \A s \in Requests : req'[s].pc \in Editing => Exists(req'[s].id) \/ req'[s].id = Name
  BY <1>1 DEF Keying, Editing
<1>9. \A s \in Requests : Exists(req'[s].id) <=> rows'[req'[s].id].by # "none"
  BY DEF Exists
<1>10. QED
  BY <1>4, <1>5, <1>6, <1>7, <1>8, <1>9 DEF Keying, Exists

LEMMA UploadKeying ==
  ASSUME TypeOK, Versions, Keying, NEW r \in Requests, Upload(r)
  PROVE  Keying'
<1>1. PICK q \in Task, k \in Keys :
        Turn(r, q) /\ Fresh(k) /\ Open(k) /\ q.pc = "upload" /\ q.row.key = k
  BY UploadTurn
<1>2. files'[k] = "temp" /\ \A l \in Keys : l # k => files'[l] = files[l]
  BY <1>1, FilesStep
<1>3. UNCHANGED <<rows, leaked>> /\ req[r].pc = "idle"
  BY DEF Upload, Start
<1>4. QED
  BY <1>1, <1>2, <1>3, FreshKeys, UploadingKeying

LEMMA StoreKeying ==
  ASSUME TypeOK, Versions, Keying, NEW r \in Requests, Store(r)
  PROVE  Keying'
<1>1. PICK q \in Task : Turn(r, q) /\ q.pc = "insert" /\ q.id \in Gen /\ q.row.key = req[r].row.key
  BY StoreTurn
<1>2. PICK k \in Keys : k = req[r].row.key /\ Rename(k)
  BY DEF Store, Keying, Uploading
<1>3. files'[k] = "kept" /\ \A l \in Keys : l # k => files'[l] = files[l]
  BY <1>2, FilesStep
<1>4. UNCHANGED <<rows, leaked>> /\ req[r].pc = "upload"
  BY DEF Store
<1>5. /\ \A i \in Ids : ~Bound(i, k)
      /\ \A s \in Requests : Uploads(s, k) => s = r
  BY <1>2, <1>4 DEF Keying, Uploading, Uploads
<1>6. QED
  BY <1>1, <1>2, <1>3, <1>4, <1>5, UploadingKeying

(* A new document takes the key of the upload over. *)
LEMMA InsertKeying ==
  ASSUME TypeOK, Versions, Keying, NEW r \in Requests, Insert(r)
  PROVE  Keying'
<1>1. PICK i \in Ids : i = req[r].id
  BY DEF Insert, Versions, Versioned
<1>2. PICK new \in Row :
        /\ rows' = [rows EXCEPT ![i] = new]
        /\ new.key = req[r].row.key /\ new.by = req[r].row.by /\ new.live = req[r].row.live
  BY <1>1, InsertRow
<1>3. /\ req[r].pc = "insert" /\ ~Exists(i) /\ UNCHANGED <<files, leaked>>
      /\ new.by # "none" /\ new.live
  BY <1>1, <1>2 DEF Insert, Versions, Versioned
<1>4. \A s \in Requests : req'[s] = IF s = r THEN Idle ELSE req[s]
  BY EndTask DEF Insert
<1>5. rows'[i] = new /\ \A j \in Ids : j # i => rows'[j] = rows[j]
  BY <1>2 DEF TypeOK
<1>6. \A k \in Keys : ~Bound(i, k)
  BY <1>3 DEF Keying, Binding
<1>7. ASSUME NEW k \in Keys, new.key = k
      PROVE  /\ Uploads(r, k) /\ files[k] = "kept" /\ i \in Gen
             /\ \A s \in Requests : Uploads(s, k) => s = r
             /\ \A j \in Ids : ~Bound(j, k)
  <2>1. Uploads(r, k)
    BY <1>2, <1>3, <1>7 DEF Uploads
  <2>2. Uploading(r)
    BY DEF Keying
  <2>3. QED
    BY <1>1, <1>3, <2>1, <2>2 DEF Uploading
<1>8. ASSUME NEW j \in Ids, NEW k \in Keys, Bound(j, k)'
      PROVE  Bound(j, k) \/ (j = i /\ new.key = k)
  <2>1. CASE rows'[j].key = k
    BY <1>5, <2>1 DEF Bound
  <2>2. CASE \E s \in Requests : req'[s].pc \in Editing /\ req'[s].id = j /\ req'[s].row.key = k
    BY <1>4, <2>2, IdleTask DEF Bound, Editing
  <2>3. QED
    BY <1>8, <2>1, <2>2 DEF Bound
<1>9. \A j, m \in Ids, k, l \in Keys : Bound(j, k)' /\ Bound(m, l)' => (j = m <=> k = l)
  <2> SUFFICES ASSUME NEW j \in Ids, NEW m \in Ids, NEW k \in Keys, NEW l \in Keys, Bound(j, k)', Bound(m, l)'
               PROVE  j = m <=> k = l
    OBVIOUS
  <2>1. CASE Bound(j, k) /\ Bound(m, l)
    BY <2>1 DEF Keying
  <2>2. CASE j = i /\ new.key = k
    BY <1>6, <1>7, <1>8, <2>2
  <2>3. CASE m = i /\ new.key = l
    BY <1>6, <1>7, <1>8, <2>3
  <2>4. QED
    BY <1>8, <2>1, <2>2, <2>3
<1>10. ASSUME NEW j \in Ids, NEW k \in Keys, Bound(j, k)'
       PROVE  Binding(j, k)'
  <2>1. CASE j = i /\ new.key = k
    <3>1. ~(\E s \in Requests : req'[s].pc = "write" /\ req'[s].id = i)
      <4> SUFFICES ASSUME NEW s \in Requests, req'[s].pc = "write", req'[s].id = i PROVE FALSE
        OBVIOUS
      <4>1. req[s].pc \in Editing /\ req[s].id = i
        BY <1>4, IdleTask DEF Editing
      <4>2. i = Name
        BY <1>3, <4>1 DEF Keying
      <4>3. QED
        BY <1>7, <2>1, <4>2, DocumentsConstants
    <3>2. ~Loose(i)'
      BY <1>3, <1>5, <2>1, <3>1, KeyTypes DEF Loose, Live
    <3>3. Exists(i)'
      BY <1>3, <1>5 DEF Exists
    <3>4. files'[k] # "temp"
      BY <1>3, <1>7, <2>1
    <3>5. QED
      BY <2>1, <3>2, <3>3, <3>4 DEF Binding
  <2>2. CASE Bound(j, k)
    <3>1. j # i
      BY <1>6, <2>2
    <3>2. Loose(j)' => Loose(j)
      BY <1>4, <1>5, <3>1, IdleTask DEF Loose, Live
    <3>3. Binding(j, k)
      BY <2>2 DEF Keying
    <3>4. Exists(j)' <=> Exists(j)
      BY <1>5, <3>1 DEF Exists
    <3>5. QED
      BY <1>3, <3>2, <3>3, <3>4 DEF Binding
  <2>3. QED
    BY <1>8, <1>10, <2>1, <2>2
<1>11. ASSUME NEW s \in Requests
       PROVE  Uploading(s)'
  <2>1. CASE s = r
    BY <1>4, <2>1, IdleTask DEF Uploading, Uploads
  <2>2. CASE s # r
    <3>1. req'[s] = req[s] /\ Uploading(s)
      BY <1>4, <2>2 DEF Keying
    <3>2. \A l \in Keys, t \in Requests : Uploads(t, l)' => Uploads(t, l)
      BY <1>4, IdleTask DEF Uploads
    <3>3. \A l \in Keys : Uploads(s, l) => new.key # l
      BY <1>7, <2>2
    <3>4. ASSUME NEW l \in Keys, Uploads(s, l)'
          PROVE  /\ files'[l] = IF req'[s].pc = "upload" THEN "temp" ELSE "kept"
                 /\ req'[s].pc = "insert" => req'[s].id \in Gen
                 /\ \A t \in Requests : Uploads(t, l)' => t = s
                 /\ \A j \in Ids : ~Bound(j, l)'
      <4>1. Uploads(s, l) /\ new.key # l
        BY <3>2, <3>3, <3>4
      <4>2. \A j \in Ids : ~Bound(j, l)'
        BY <1>8, <3>1, <4>1 DEF Uploading
      <4>3. QED
        BY <1>3, <3>1, <3>2, <4>1, <4>2 DEF Uploading
    <3>5. QED
      BY <3>1, <3>4 DEF Uploading
  <2>3. QED
    BY <2>1, <2>2
<1>12. \A s \in Requests : req'[s].pc \in Editing => rows'[req'[s].id].by # "none" \/ req'[s].id = Name
  BY <1>3, <1>4, <1>5, IdleTask, EditingIds DEF Keying, Editing, Exists
<1>13. QED
  BY <1>9, <1>10, <1>11, <1>12 DEF Keying, Exists

-----------------------------------------------------------------------------
(* Serving: the files that documents have, and those that nobody has.      *)
LEMMA ServingMatches ==
  ASSUME TypeOK, Serving
  PROVE  FilesMatchDocuments
<1>1. ContentIsServed
  BY KeyTypes DEF Serving, Served, Removing, ContentIsServed, Content, Downloadable
<1>2. FilesHaveDocuments
  BY DEF Serving, Kept, Uploads, FilesHaveDocuments
<1>3. QED
  BY <1>1, <1>2 DEF FilesMatchDocuments

(* Requests that neither hold a row nor let one go. *)
LEMMA SameHolding ==
  ASSUME Holding,
         \A s \in Requests, i \in Ids : Holds(s, i)' => Holds(s, i),
         \A s \in Requests, i \in Ids : Holds(s, i)' => Live(i)'
  PROVE  Holding'
BY DEF Holding

LEMMA GoesOnServing ==
  ASSUME TypeOK, Versions, Serving, NEW r \in Requests, NEW q \in Task, GoesOn(r, q)
  PROVE  Serving'
<1>1. /\ rows' = rows /\ files' = files /\ leaked' = leaked
      /\ \A s \in Requests : req'[s] = IF s = r THEN q ELSE req[s]
      /\ req[r].pc \in {"idle", "look", "delete"}
  BY DEF GoesOn, Turn, TypeOK
<1>2. Holding'
  <2>1. ASSUME NEW i \in Ids, Holds(r, i)'
        PROVE  Live(i) /\ \A s \in Requests : ~Holds(s, i)
    BY <1>1, <2>1 DEF GoesOn, Held, Holds
  <2>2. \A s \in Requests, i \in Ids : s # r => (Holds(s, i)' <=> Holds(s, i))
    BY <1>1 DEF Holds
  <2>3. \A i \in Ids : Live(i)' <=> Live(i)
    BY <1>1 DEF Live
  <2>4. QED
    BY <2>1, <2>2, <2>3 DEF Serving, Holding
<1>3. Served'
  BY <1>1 DEF Serving, Served, Removing, Live
<1>4. ASSUME NEW k \in Keys, files'[k] # "none"
      PROVE  Kept(k)'
  <2>1. Kept(k)
    BY <1>1, <1>4 DEF Serving
  <2>2. \A s \in Requests : Uploads(s, k) => Uploads(s, k)'
    BY <1>1 DEF Uploads
  <2>3. QED
    BY <1>1, <2>1, <2>2 DEF Kept, Live
<1>5. QED
  BY <1>2, <1>3, <1>4 DEF Serving

LEMMA UploadingServing ==
  ASSUME TypeOK, Serving, NEW r \in Requests, NEW q \in Task, Turn(r, q), NEW k \in Keys,
         UNCHANGED <<rows, leaked>>, q.row.key = k, q.pc \in {"upload", "insert"},
         req[r].pc = "idle" \/ Uploads(r, k),
         \A l \in Keys : l # k => files'[l] = files[l],
         \A i \in Ids : rows[i].key # k
  PROVE  Serving'
<1>1. \A s \in Requests : req'[s] = IF s = r THEN q ELSE req[s]
  BY DEF Turn, TypeOK
<1>2. Holding'
  <2>1. \A s \in Requests, i \in Ids : Holds(s, i)' => Holds(s, i)
    BY <1>1 DEF Holds
  <2>2. \A i \in Ids : Live(i)' <=> Live(i)
    BY DEF Live
  <2>3. QED
    BY <2>1, <2>2, SameHolding DEF Serving, Holding
<1>3. ASSUME NEW i \in Ids, NEW l \in Keys, Live(i)', rows'[i].key = l, files'[l] # "kept"
      PROVE  rows'[i].broken \/ Removing(i, l)'
  <2>1. l # k /\ Live(i) /\ files[l] # "kept"
    BY <1>3 DEF Live
  <2>2. rows[i].broken \/ Removing(i, l)
    BY <1>3, <2>1 DEF Serving, Served
  <2>3. Removing(i, l) => Removing(i, l)'
    BY <1>1 DEF Removing, Uploads
  <2>4. QED
    BY <2>2, <2>3
<1>4. ASSUME NEW l \in Keys, files'[l] # "none"
      PROVE  Kept(l)'
  <2>1. CASE l = k
    <3>1. Uploads(r, k)'
      BY <1>1 DEF Uploads
    <3>2. QED
      BY <2>1, <3>1 DEF Kept
  <2>2. CASE l # k
    <3>1. Kept(l)
      BY <1>4, <2>2 DEF Serving
    <3>2. \A s \in Requests : Uploads(s, l) => Uploads(s, l)'
      BY <1>1, <2>2 DEF Uploads
    <3>3. QED
      BY <3>1, <3>2 DEF Kept, Live
  <2>3. QED
    BY <2>1, <2>2
<1>5. QED
  BY <1>2, <1>3, <1>4 DEF Serving, Served

LEMMA UploadServing ==
  ASSUME TypeOK, Serving, NEW r \in Requests, Upload(r)
  PROVE  Serving'
<1>1. PICK q \in Task, k \in Keys :
        Turn(r, q) /\ Fresh(k) /\ Open(k) /\ q.pc = "upload" /\ q.row.key = k
  BY UploadTurn
<1>2. \A l \in Keys : l # k => files'[l] = files[l]
  BY <1>1, FilesStep
<1>3. UNCHANGED <<rows, leaked>> /\ req[r].pc = "idle"
  BY DEF Upload, Start
<1>4. QED
  BY <1>1, <1>2, <1>3, FreshKeys, UploadingServing

LEMMA StoreServing ==
  ASSUME TypeOK, Keying, Serving, NEW r \in Requests, Store(r)
  PROVE  Serving'
<1>1. PICK q \in Task : Turn(r, q) /\ q.pc = "insert" /\ q.row.key = req[r].row.key
  BY StoreTurn
<1>2. PICK k \in Keys : k = req[r].row.key /\ Rename(k)
  BY DEF Store, Keying, Uploading
<1>3. \A l \in Keys : l # k => files'[l] = files[l]
  BY <1>2, FilesStep
<1>4. UNCHANGED <<rows, leaked>> /\ Uploads(r, k)
  BY <1>2 DEF Store, Uploads
<1>5. \A i \in Ids : rows[i].key # k
  BY <1>4 DEF Keying, Uploading, Bound
<1>6. QED
  BY <1>1, <1>2, <1>3, <1>4, <1>5, UploadingServing

LEMMA EndsServing ==
  ASSUME TypeOK, Keying, Serving, NEW r \in Requests, Ends(r)
  PROVE  Serving'
<1>1. /\ rows' = rows
      /\ \A s \in Requests : req'[s] = IF s = r THEN Idle ELSE req[s]
  BY EndTask DEF Ends
<1>2. Holding'
  <2>1. \A s \in Requests, i \in Ids : Holds(s, i)' => Holds(s, i)
    BY <1>1, IdleTask DEF Holds
  <2>2. \A i \in Ids : Live(i)' <=> Live(i)
    BY <1>1 DEF Live
  <2>3. QED
    BY <2>1, <2>2, SameHolding DEF Serving, Holding
<1>3. ASSUME NEW i \in Ids, NEW l \in Keys, Live(i)', rows'[i].key = l, files'[l] # "kept"
      PROVE  rows'[i].broken \/ Removing(i, l)'
  <2>1. Bound(i, l)
    BY <1>1, <1>3 DEF Bound
  <2>2. ~Uploads(r, l)
    BY <2>1 DEF Keying, Uploading
  <2>3. files'[l] = files[l]
    BY <2>2, FilesStep DEF Ends, Uploads
  <2>4. rows[i].broken \/ Removing(i, l)
    BY <1>1, <1>3, <2>3 DEF Serving, Served, Live
  <2>5. Removing(i, l) => Removing(i, l)'
    <3>1. ~(req[r].pc = "removed" /\ req[r].row.key = l)
      BY DEF Ends
    <3>2. QED
      BY <1>1, <3>1 DEF Removing
  <2>6. QED
    BY <1>1, <2>4, <2>5
<1>4. ASSUME NEW l \in Keys, files'[l] # "none"
      PROVE  Kept(l)'
  <2>1. CASE Uploads(r, l)
    <3>1. l \in leaked'
      BY <1>4, <2>1, FilesStep, IdleTask DEF Ends, Uploads, Keying, Uploading
    <3>2. QED
      BY <3>1 DEF Kept
  <2>2. CASE ~Uploads(r, l)
    <3>1. files'[l] = files[l]
      BY <2>2, FilesStep DEF Ends, Uploads
    <3>2. Kept(l)
      BY <1>4, <3>1 DEF Serving
    <3>3. \A s \in Requests : Uploads(s, l) => Uploads(s, l)'
      BY <1>1, <2>2 DEF Uploads
    <3>4. leaked \subseteq leaked'
      BY DEF Ends
    <3>5. QED
      BY <1>1, <3>2, <3>3, <3>4 DEF Kept, Live
  <2>3. QED
    BY <2>1, <2>2
<1>5. QED
  BY <1>2, <1>3, <1>4 DEF Serving, Served

LEMMA RemoveFileServing ==
  ASSUME TypeOK, Versions, Keying, Serving, NEW r \in Requests, RemoveFile(r)
  PROVE  Serving'
<1>1. PICK q \in Task : Turn(r, q) /\ q.pc = "removed" /\ q.id = req[r].id /\ q.row = req[r].row
  BY RemoveFileTurn
<1>2. rows' = rows /\ leaked' = leaked /\ req[r].pc = "deleted"
  BY DEF RemoveFile
<1>3. \A s \in Requests : req'[s] = IF s = r THEN q ELSE req[s]
  BY <1>1 DEF Turn, TypeOK
<1>4. ASSUME NEW l \in Keys
      PROVE  files'[l] = files[l] \/ (files'[l] = "none" /\ req[r].row.key = l)
  BY FilesStep, KeyTypes DEF RemoveFile
<1>5. Holding'
  <2>1. \A s \in Requests, i \in Ids : Holds(s, i)' => Holds(s, i)
    BY <1>1, <1>2, <1>3 DEF Holds
  <2>2. \A i \in Ids : Live(i)' <=> Live(i)
    BY <1>2 DEF Live
  <2>3. QED
    BY <2>1, <2>2, SameHolding DEF Serving, Holding
<1>6. ASSUME NEW i \in Ids, NEW l \in Keys, Live(i)', rows'[i].key = l, files'[l] # "kept"
      PROVE  rows'[i].broken \/ Removing(i, l)'
  <2>1. CASE files'[l] = files[l]
    <3>1. rows[i].broken \/ Removing(i, l)
      BY <1>2, <1>6, <2>1 DEF Serving, Served, Live
    <3>2. Removing(i, l) => Removing(i, l)'
      BY <1>2, <1>3 DEF Removing
    <3>3. QED
      BY <1>2, <3>1, <3>2
  <2>2. CASE req[r].row.key = l
    <3>1. req[r].id \in Ids /\ Bound(req[r].id, l) /\ Bound(i, l)
      BY <1>2, <1>6, <2>2, EditingIds DEF Bound, Editing
    <3>2. req[r].id = i
      BY <3>1 DEF Keying
    <3>3. QED
      BY <1>1, <1>3, <2>2, <3>2 DEF Removing
  <2>3. QED
    BY <1>4, <2>1, <2>2
<1>7. ASSUME NEW l \in Keys, files'[l] # "none"
      PROVE  Kept(l)'
  <2>1. Kept(l)
    BY <1>4, <1>7 DEF Serving
  <2>2. \A s \in Requests : Uploads(s, l) => Uploads(s, l)'
    BY <1>2, <1>3 DEF Uploads
  <2>3. QED
    BY <1>2, <2>1, <2>2 DEF Kept, Live
<1>8. QED
  BY <1>5, <1>6, <1>7 DEF Serving, Served

LEMMA InsertServing ==
  ASSUME TypeOK, Versions, Keying, Serving, NEW r \in Requests, Insert(r)
  PROVE  Serving'
<1>1. PICK i \in Ids : i = req[r].id
  BY DEF Insert, Versions, Versioned
<1>2. PICK new \in Row :
        /\ rows' = [rows EXCEPT ![i] = new]
        /\ new.key = req[r].row.key /\ new.live = req[r].row.live
  BY <1>1, InsertRow
<1>3. req[r].pc = "insert" /\ ~Exists(i) /\ ~Live(i) /\ UNCHANGED <<files, leaked>> /\ new.live
  BY <1>1, <1>2 DEF Insert, Versions, Versioned
<1>4. \A s \in Requests : req'[s] = IF s = r THEN Idle ELSE req[s]
  BY EndTask DEF Insert
<1>5. rows'[i] = new /\ \A j \in Ids : j # i => rows'[j] = rows[j]
  BY <1>2 DEF TypeOK
<1>6. Live(i)' /\ \A j \in Ids : j # i => (Live(j)' <=> Live(j))
  BY <1>3, <1>5 DEF Live
<1>7. Holding'
  <2>1. \A s \in Requests, j \in Ids : Holds(s, j)' => Holds(s, j)
    BY <1>4, IdleTask DEF Holds
  <2>2. QED
    BY <1>6, <2>1, SameHolding DEF Serving, Holding
<1>8. ASSUME NEW j \in Ids, NEW l \in Keys, Live(j)', rows'[j].key = l, files'[l] # "kept"
      PROVE  rows'[j].broken \/ Removing(j, l)'
  <2>1. j # i
    <3> SUFFICES ASSUME j = i PROVE FALSE
      OBVIOUS
    <3>1. Uploads(r, l)
      BY <1>2, <1>3, <1>5, <1>8 DEF Uploads
    <3>2. files[l] = "kept"
      BY <1>3, <3>1 DEF Keying, Uploading
    <3>3. QED
      BY <1>3, <1>8, <3>2
  <2>2. rows[j].broken \/ Removing(j, l)
    BY <1>3, <1>5, <1>6, <1>8, <2>1 DEF Serving, Served
  <2>3. Removing(j, l) => Removing(j, l)'
    BY <1>3, <1>4 DEF Removing
  <2>4. QED
    BY <1>5, <2>1, <2>2, <2>3
<1>9. ASSUME NEW l \in Keys, files'[l] # "none"
      PROVE  Kept(l)'
  <2>1. Kept(l)
    BY <1>3, <1>9 DEF Serving
  <2>2. CASE Uploads(r, l)
    BY <1>2, <1>5, <1>6, <2>2 DEF Kept, Uploads
  <2>3. CASE ~Uploads(r, l)
    <3>1. \A s \in Requests : Uploads(s, l) => Uploads(s, l)'
      BY <1>4, <2>3 DEF Uploads
    <3>2. \A j \in Ids : Live(j) /\ rows[j].key = l => Live(j)' /\ rows'[j].key = l
      BY <1>3, <1>5, <1>6
    <3>3. QED
      BY <1>3, <2>1, <3>1, <3>2 DEF Kept
  <2>4. QED
    BY <2>2, <2>3
<1>10. QED
  BY <1>7, <1>8, <1>9 DEF Serving, Served

LEMMA WriteServing ==
  ASSUME TypeOK, Versions, Keying, Serving, NEW r \in Requests, Write(r)
  PROVE  Serving'
<1>1. PICK i \in Ids : i = req[r].id
  BY WriteRow
<1>2. PICK new \in Row :
        /\ rows' = [rows EXCEPT ![i] = new]
        /\ new.live = TRUE /\ new.key = req[r].row.key
        /\ ~new.broken /\ new.key # None => Live(i) /\ new.key = rows[i].key /\ ~rows[i].broken
  BY <1>1, WriteRow
<1>3. req[r].pc = "write" /\ UNCHANGED <<files, leaked>> /\ \A s \in Requests : ~Holds(s, i)
  BY <1>1 DEF Write, Held, Holds
<1>4. \A s \in Requests : req'[s] = IF s = r THEN Idle ELSE req[s]
  BY EndTask DEF Write
<1>5. rows'[i] = new /\ \A j \in Ids : j # i => rows'[j] = rows[j]
  BY <1>2 DEF TypeOK
<1>6. Live(i)' /\ \A j \in Ids : j # i => (Live(j)' <=> Live(j))
  BY <1>2, <1>5 DEF Live
<1>7. Holding'
  <2>1. \A s \in Requests, j \in Ids : Holds(s, j)' => Holds(s, j)
    BY <1>4, IdleTask DEF Holds
  <2>2. QED
    BY <1>6, <2>1, SameHolding DEF Serving, Holding
<1>8. ASSUME NEW j \in Ids, NEW l \in Keys, Live(j)', rows'[j].key = l, files'[l] # "kept"
      PROVE  rows'[j].broken \/ Removing(j, l)'
  <2>1. CASE j = i
    <3> SUFFICES ASSUME ~new.broken PROVE FALSE
      BY <1>5, <2>1
    <3>1. Live(i) /\ rows[i].key = l /\ ~rows[i].broken
      BY <1>2, <1>5, <1>8, <2>1, KeyTypes
    <3>2. Removing(i, l)
      BY <1>3, <1>8, <3>1 DEF Serving, Served
    <3>3. QED
      BY <1>3, <3>2 DEF Removing, Holds
  <2>2. CASE j # i
    <3>1. rows[j].broken \/ Removing(j, l)
      BY <1>3, <1>5, <1>6, <1>8, <2>2 DEF Serving, Served
    <3>2. Removing(j, l) => Removing(j, l)'
      BY <1>3, <1>4 DEF Removing
    <3>3. QED
      BY <1>5, <2>2, <3>1, <3>2
  <2>3. QED
    BY <2>1, <2>2
<1>9. ASSUME NEW l \in Keys, files'[l] # "none"
      PROVE  Kept(l)'
  <2>1. Kept(l)
    BY <1>3, <1>9 DEF Serving
  <2>2. CASE Live(i) /\ rows[i].key = l
    <3>1. Bound(i, l)
      BY <2>2 DEF Bound
    <3>2. CASE new.key = l
      BY <1>5, <1>6, <3>2 DEF Kept
    <3>3. CASE new.key # l
      <4>1. new.key \notin Keys
        <5> SUFFICES ASSUME new.key \in Keys PROVE FALSE
          OBVIOUS
        <5>1. Bound(i, new.key)
          BY <1>1, <1>2, <1>3 DEF Bound, Editing
        <5>2. QED
          BY <3>1, <3>3, <5>1 DEF Keying
      <4>2. new.key = None
        BY <1>2, <4>1, KeyTypes
      <4>3. Loose(i)
        BY <1>1, <1>2, <1>3, <4>2 DEF Loose
      <4>4. l \in leaked
        BY <1>3, <1>9, <3>1, <4>3 DEF Keying, Binding
      <4>5. QED
        BY <1>3, <4>4 DEF Kept
    <3>4. QED
      BY <3>2, <3>3
  <2>3. CASE ~(Live(i) /\ rows[i].key = l)
    <3>1. \A s \in Requests : Uploads(s, l) => Uploads(s, l)'
      BY <1>3, <1>4 DEF Uploads
    <3>2. \A j \in Ids : Live(j) /\ rows[j].key = l => Live(j)' /\ rows'[j].key = l
      BY <1>5, <1>6, <2>3
    <3>3. QED
      BY <1>3, <2>1, <3>1, <3>2 DEF Kept
  <2>4. QED
    BY <2>2, <2>3
<1>10. QED
  BY <1>7, <1>8, <1>9 DEF Serving, Served

LEMMA RemovesServing ==
  ASSUME TypeOK, Versions, Keying, Serving, NEW i \in Ids, Removes(i)
  PROVE  Serving'
<1>1. PICK new \in Row : rows' = [rows EXCEPT ![i] = new] /\ new.live = FALSE /\ new.key = rows[i].key
  BY RemovedRow
<1>2. /\ files' = files /\ leaked' = leaked \union LeftBehind(i)
      /\ \A s \in Requests : req'[s] = req[s] \/ (req'[s] = Idle /\ Holds(s, i))
      /\ \A s \in Requests : req'[s] = req[s] => ~Holds(s, i)
  BY DEF Removes
<1>3. rows'[i] = new /\ \A j \in Ids : j # i => rows'[j] = rows[j]
  BY <1>1 DEF TypeOK
<1>4. ~Live(i)' /\ \A j \in Ids : j # i => (Live(j)' <=> Live(j))
  BY <1>1, <1>3 DEF Live
<1>5. Holding'
  <2>1. \A s \in Requests, j \in Ids : Holds(s, j)' => Holds(s, j) /\ j # i
    BY <1>2, IdleTask DEF Holds
  <2>2. QED
    BY <1>4, <2>1, SameHolding DEF Serving, Holding
<1>6. ASSUME NEW j \in Ids, NEW l \in Keys, Live(j)', rows'[j].key = l, files'[l] # "kept"
      PROVE  rows'[j].broken \/ Removing(j, l)'
  <2>1. j # i
    BY <1>4, <1>6
  <2>2. rows[j].broken \/ Removing(j, l)
    BY <1>2, <1>3, <1>4, <1>6, <2>1 DEF Serving, Served
  <2>3. Removing(j, l) => Removing(j, l)'
    BY <1>2, <2>1 DEF Removing, Holds
  <2>4. QED
    BY <1>3, <2>1, <2>2, <2>3
<1>7. ASSUME NEW l \in Keys, files'[l] # "none"
      PROVE  Kept(l)'
  <2>1. Kept(l)
    BY <1>2, <1>7 DEF Serving
  <2>2. CASE rows[i].key = l
    <3>1. files[l] \in {"none", "kept"}
      BY <2>2 DEF Keying, Binding, Bound, TypeOK, FilesTypeOK
    <3>2. l \in leaked'
      BY <1>2, <1>7, <2>2, <3>1 DEF LeftBehind
    <3>3. QED
      BY <3>2 DEF Kept
  <2>3. CASE rows[i].key # l
    <3>1. \A s \in Requests : Uploads(s, l) => Uploads(s, l)'
      BY <1>2 DEF Uploads, Holds
    <3>2. \A j \in Ids : Live(j) /\ rows[j].key = l => Live(j)' /\ rows'[j].key = l
      BY <1>3, <1>4, <2>3
    <3>3. QED
      BY <1>2, <2>1, <3>1, <3>2 DEF Kept
  <2>4. QED
    BY <2>2, <2>3
<1>8. QED
  BY <1>5, <1>6, <1>7 DEF Serving, Served

LEMMA BreaksServing ==
  ASSUME TypeOK, Versions, Keying, Serving, NEW r \in Requests, Breaks(r)
  PROVE  Serving'
<1>1. PICK i \in Ids : i = req[r].id
  BY BrokenRow
<1>2. PICK new \in Row :
        /\ rows' = [rows EXCEPT ![i] = new]
        /\ new.live = rows[i].live /\ new.key = rows[i].key
        /\ new.broken <=> rows[i].broken \/ files[req[r].row.key] # "kept"
  BY <1>1, BrokenRow
<1>3. req[r].pc = "removed" /\ UNCHANGED <<files, leaked>>
  BY DEF Breaks
<1>4. \A s \in Requests : req'[s] = IF s = r THEN Idle ELSE req[s]
  BY EndTask DEF Breaks
<1>5. rows'[i] = new /\ \A j \in Ids : j # i => rows'[j] = rows[j]
  BY <1>2 DEF TypeOK
<1>6. \A j \in Ids : (Live(j)' <=> Live(j)) /\ rows'[j].key = rows[j].key
  BY <1>2, <1>5 DEF Live
<1>7. Holding'
  <2>1. \A s \in Requests, j \in Ids : Holds(s, j)' => Holds(s, j)
    BY <1>4, IdleTask DEF Holds
  <2>2. QED
    BY <1>6, <2>1, SameHolding DEF Serving, Holding
<1>8. ASSUME NEW j \in Ids, NEW l \in Keys, Live(j)', rows'[j].key = l, files'[l] # "kept"
      PROVE  rows'[j].broken \/ Removing(j, l)'
  <2>1. rows[j].broken \/ Removing(j, l)
    BY <1>3, <1>6, <1>8 DEF Serving, Served
  <2>2. CASE j = i /\ req[r].row.key = l
    BY <1>2, <1>3, <1>5, <1>8, <2>2
  <2>3. CASE ~(j = i /\ req[r].row.key = l)
    <3>1. Removing(j, l) => Removing(j, l)'
      BY <1>1, <1>4, <2>3 DEF Removing
    <3>2. rows[j].broken => rows'[j].broken
      BY <1>2, <1>5
    <3>3. QED
      BY <2>1, <3>1, <3>2
  <2>4. QED
    BY <2>2, <2>3
<1>9. ASSUME NEW l \in Keys, files'[l] # "none"
      PROVE  Kept(l)'
  <2>1. Kept(l)
    BY <1>3, <1>9 DEF Serving
  <2>2. \A s \in Requests : Uploads(s, l) => Uploads(s, l)'
    BY <1>3, <1>4 DEF Uploads
  <2>3. QED
    BY <1>3, <1>6, <2>1, <2>2 DEF Kept
<1>10. QED
  BY <1>7, <1>8, <1>9 DEF Serving, Served

-----------------------------------------------------------------------------
(* All steps together. *)
LEMMA KindsOfStep ==
  ASSUME IInv, Next
  PROVE  \/ \E r \in Requests : \/ \E q \in Task : GoesOn(r, q)
                                \/ Upload(r) \/ Store(r) \/ RemoveFile(r) \/ Insert(r) \/ Write(r)
                                \/ Ends(r) \/ Breaks(r)
         \/ \E i \in Ids : Removes(i)
<1>1. TypeOK /\ Versions /\ Times /\ Keying /\ Serving
  BY DEF IInv
<1>2. CASE DeleteAny
  BY <1>1, <1>2, DeleteAnyRemoves
<1>3. ASSUME NEW r \in Requests, CommitDelete(r)
      PROVE  \E i \in Ids : Removes(i)
  BY <1>1, <1>3, CommitDeleteRemoves DEF Removes
<1>4. ASSUME NEW r \in Requests,
             FindOrCreate(r) \/ LookAgain(r) \/ Post(r) \/ EditMine(r) \/ EditAny(r) \/ DeleteMine(r) \/ SoftDelete(r)
      PROVE  \E q \in Task : GoesOn(r, q)
  BY <1>1, <1>4, FindOrCreateGoesOn, LookAgainGoesOn, PostGoesOn, EditGoesOn, DeleteMineGoesOn, SoftDeleteGoesOn
<1>5. ASSUME NEW r \in Requests, UploadFails(r) \/ InsertFails(r) \/ Lose(r)
      PROVE  Ends(r) \/ Breaks(r)
  BY <1>1, <1>5, UploadFailsEnds, InsertFailsEnds, LoseEnds
<1>6. QED
  BY <1>2, <1>3, <1>4, <1>5 DEF Next

LEMMA InitIInv == Init => IInv
<1> SUFFICES ASSUME Init PROVE IInv
  OBVIOUS
<1>1. /\ \A i \in Ids : rows[i] = NoRow
      /\ \A r \in Requests : req[r] = Idle
      /\ clock = 0 /\ leaked = {} /\ \A k \in Keys : files[k] = "none"
  BY DEF Init, NoFiles
<1>2. NoRow \in Row /\ NoRow.key = None /\ NoRow.version = 0 /\ ~NoRow.live /\ NoRow.by = "none"
      /\ NoRow.seen = 0 /\ NoRow.born = 0
  BY DEF NoRow, Row, Urls
<1>3. TypeOK
  BY <1>2, IdleTask, DocumentsConstants DEF Init, NoFiles, TypeOK, FilesTypeOK
<1>4. Versions
  BY <1>1, <1>2, IdleTask DEF Versions, Versioned, Editing, Exists, Live
<1>5. Times
  BY <1>1, <1>2, IdleTask DEF Times, Timed, DuplicatesOnlyByOverlap, Live
<1>6. Keying
  BY <1>1, <1>2, IdleTask, KeyTypes, <1>3 DEF Keying, Bound, Uploading, Uploads, Editing
<1>7. Serving
  BY <1>1, <1>2, IdleTask DEF Serving, Holding, Holds, Served, Live
<1>8. QED
  BY <1>3, <1>4, <1>5, <1>6, <1>7 DEF IInv

LEMMA StepIInv == IInv /\ [Next]_vars => IInv'
<1> SUFFICES ASSUME IInv, [Next]_vars PROVE IInv'
  OBVIOUS
<1>1. TypeOK /\ Versions /\ Times /\ Keying /\ Serving
  BY DEF IInv
<1>2. ops' \in 0..MaxOps
  BY <1>1, OpsStep
<1>3. ASSUME NEW r \in Requests, NEW q \in Task, GoesOn(r, q)
      PROVE  IInv'
  BY <1>1, <1>2, <1>3, GoesOnFirst, GoesOnKeying, GoesOnServing DEF IInv
<1>4. ASSUME NEW r \in Requests, Upload(r)
      PROVE  IInv'
  BY <1>1, <1>2, <1>4, UploadFirst, UploadKeying, UploadServing DEF IInv
<1>5. ASSUME NEW r \in Requests, Store(r)
      PROVE  IInv'
  BY <1>1, <1>2, <1>5, StoreFirst, StoreKeying, StoreServing DEF IInv
<1>6. ASSUME NEW r \in Requests, RemoveFile(r)
      PROVE  IInv'
  BY <1>1, <1>2, <1>6, RemoveFileFirst, RemoveFileKeying, RemoveFileServing DEF IInv
<1>7. ASSUME NEW r \in Requests, Insert(r)
      PROVE  IInv'
  BY <1>1, <1>2, <1>7, InsertFirst, InsertKeying, InsertServing DEF IInv
<1>8. ASSUME NEW r \in Requests, Write(r)
      PROVE  IInv'
  BY <1>1, <1>2, <1>8, WriteFirst, WriteKeying, WriteServing DEF IInv
<1>9. ASSUME NEW r \in Requests, Ends(r)
      PROVE  IInv'
  BY <1>1, <1>2, <1>9, EndsFirst, EndsKeying, EndsServing DEF IInv
<1>10. ASSUME NEW r \in Requests, Breaks(r)
      PROVE  IInv'
  BY <1>1, <1>2, <1>10, BreaksFirst, BreaksKeying, BreaksServing DEF IInv
<1>11. ASSUME NEW i \in Ids, Removes(i)
      PROVE  IInv'
  BY <1>1, <1>2, <1>11, RemovesFirst, RemovesKeying, RemovesServing DEF IInv
<1>12. CASE UNCHANGED vars
  BY <1>1, <1>12 DEF vars, IInv, TypeOK, FilesTypeOK, Versions, Versioned, Times, Timed, DuplicatesOnlyByOverlap,
       Keying, Bound, Binding, Loose, Uploading, Uploads, Serving, Holding, Holds, Served, Removing, Kept, Exists, Live
<1>13. QED
  BY <1>3, <1>4, <1>5, <1>6, <1>7, <1>8, <1>9, <1>10, <1>11, <1>12, KindsOfStep

(* The invariant of find-or-create, creation, upload, edits and deletions. *)
THEOREM Invariance == Spec => []IInv
BY InitIInv, StepIInv, PTL DEF Spec

(* Every variable keeps its type. *)
THEOREM TypeCorrect == Spec => []TypeOK
<1>1. IInv => TypeOK
  BY DEF IInv
<1>2. QED
  BY <1>1, Invariance, PTL

(* HandleUpload, HandleContent and HandleDeleteMyDocument: the file of a   *)
(* document can be read, and every file is some document's, but for the    *)
(* exceptions FilesMatchDocuments names.                                   *)
THEOREM FilesStayInStep == Spec => []FilesMatchDocuments
<1>1. IInv => FilesMatchDocuments
  BY ServingMatches DEF IInv
<1>2. QED
  BY <1>1, Invariance, PTL

(* FindOrCreateDocument: two documents of one URL, both made by            *)
(* find-or-create, were made by requests that overlapped.                  *)
THEOREM DuplicatesOverlap == Spec => []DuplicatesOnlyByOverlap
<1>1. IInv => DuplicatesOnlyByOverlap
  BY DEF IInv, Times
<1>2. QED
  BY <1>1, Invariance, PTL

-----------------------------------------------------------------------------
(* A field that changed was asked to, or the update did not see the row    *)
(* it wrote over.                                                          *)
Asked(i, f) ==
  \E r \in Requests :
    /\ req[r].pc = "write" /\ req[r].id = i /\ req'[r] = Idle
    /\ req[r].field = f \/ ~Live(i) \/ req[r].row.version # rows[i].version

Survives(i) ==
  /\ rows'[i].owner = rows[i].owner
  /\ rows'[i].mode # rows[i].mode => Asked(i, "mode")
  /\ rows'[i].url # rows[i].url => Asked(i, "url")
  /\ rows'[i].key # rows[i].key => Asked(i, "key")

LEMMA WriteSurvives ==
  ASSUME TypeOK, Versions, NEW r \in Requests, Write(r), NEW i \in Ids, Exists(i)
  PROVE  Survives(i)
<1>1. PICK j \in Ids : j = req[r].id
  BY WriteRow
<1>2. PICK new \in Row :
        /\ rows' = [rows EXCEPT ![j] = new]
        /\ new.mode = req[r].row.mode /\ new.url = req[r].row.url /\ new.key = req[r].row.key
        /\ Exists(j) => new.owner = rows[j].owner
  BY <1>1, WriteRow
<1>3. rows'[j] = new /\ \A m \in Ids : m # j => rows'[m] = rows[m]
  BY <1>2 DEF TypeOK
<1>4. CASE i # j
  BY <1>3, <1>4 DEF Survives
<1>5. CASE i = j
  <2>1. req'[r] = Idle /\ req[r].pc = "write"
    BY EndTask DEF Write
  <2>2. CASE Live(i) /\ req[r].row.version = rows[i].version
    <3>1. /\ req[r].field # "mode" => req[r].row.mode = rows[i].mode
          /\ req[r].field # "url" => req[r].row.url = rows[i].url
          /\ req[r].row.key = rows[i].key
      BY <1>1, <1>5, <2>1, <2>2 DEF Versions, Versioned
    <3>2. QED
      BY <1>1, <1>2, <1>3, <1>5, <2>1, <3>1 DEF Survives, Asked
  <2>3. CASE ~(Live(i) /\ req[r].row.version = rows[i].version)
    BY <1>1, <1>2, <1>3, <1>5, <2>1, <2>3 DEF Survives, Asked
  <2>4. QED
    BY <2>2, <2>3
<1>6. QED
  BY <1>4, <1>5

LEMMA OneRowSurvives ==
  ASSUME TypeOK, NEW j \in Ids, NEW new \in Row, rows' = [rows EXCEPT ![j] = new],
         ~Exists(j) \/ (/\ new.owner = rows[j].owner /\ new.mode = rows[j].mode
                        /\ new.url = rows[j].url /\ new.key = rows[j].key),
         NEW i \in Ids, Exists(i)
  PROVE  Survives(i)
<1>1. rows'[j] = new /\ \A m \in Ids : m # j => rows'[m] = rows[m]
  BY DEF TypeOK
<1>2. QED
  BY <1>1 DEF Survives

LEMMA StepSurvives ==
  ASSUME IInv, [Next]_vars, NEW i \in Ids, Exists(i)
  PROVE  Survives(i)
<1>1. TypeOK /\ Versions
  BY DEF IInv
<1>2. CASE rows' = rows
  BY <1>2 DEF Survives
<1>3. ASSUME NEW r \in Requests, Write(r)
      PROVE  Survives(i)
  BY <1>1, <1>3, WriteSurvives
<1>4. ASSUME NEW r \in Requests, Insert(r)
      PROVE  Survives(i)
  <2>1. req[r].id \in Ids /\ ~Exists(req[r].id)
    BY <1>1, <1>4 DEF Insert, Versions, Versioned
  <2>2. PICK new \in Row : rows' = [rows EXCEPT ![req[r].id] = new]
    BY <1>1, <1>4, InsertRow
  <2>3. QED
    BY <1>1, <2>1, <2>2, OneRowSurvives
<1>5. ASSUME NEW r \in Requests, Breaks(r)
      PROVE  Survives(i)
  <2>1. PICK j \in Ids : j = req[r].id
    BY <1>1, <1>5, BrokenRow
  <2>2. PICK new \in Row :
          /\ rows' = [rows EXCEPT ![j] = new]
          /\ new.owner = rows[j].owner /\ new.mode = rows[j].mode /\ new.url = rows[j].url /\ new.key = rows[j].key
    BY <1>1, <1>5, <2>1, BrokenRow
  <2>3. QED
    BY <1>1, <2>2, OneRowSurvives
<1>6. ASSUME NEW j \in Ids, Removes(j)
      PROVE  Survives(i)
  <2>1. PICK new \in Row :
          /\ rows' = [rows EXCEPT ![j] = new]
          /\ new.owner = rows[j].owner /\ new.mode = rows[j].mode /\ new.url = rows[j].url /\ new.key = rows[j].key
    BY <1>1, <1>6, RemovedRow
  <2>2. QED
    BY <1>1, <2>1, OneRowSurvives
<1>7. CASE Next
  <2>1. ASSUME NEW r \in Requests, (\E q \in Task : GoesOn(r, q)) \/ Upload(r) \/ Store(r) \/ RemoveFile(r) \/ Ends(r)
        PROVE  rows' = rows
    BY <2>1 DEF GoesOn, Upload, Store, RemoveFile, Ends
  <2>2. QED
    BY <1>2, <1>3, <1>4, <1>5, <1>6, <1>7, <2>1, KindsOfStep
<1>8. QED
  BY <1>2, <1>7 DEF vars

(* HandleUpdateMyDocumentMetadata and UpdateDocumentMetadata: a field      *)
(* keeps its value unless a request asked to change it, or had read the    *)
(* row before another write; the creator never changes.                    *)
THEOREM EditsAreKept == Spec => EditsSurvive
<1>1. ASSUME IInv, [Next]_vars
      PROVE  \A id \in Ids : Exists(id) =>
               /\ rows'[id].owner = rows[id].owner
               /\ \A f \in {"mode", "url", "key"} : rows'[id][f] # rows[id][f] =>
                    \E r \in Requests :
                      /\ req[r].pc = "write" /\ req[r].id = id /\ req'[r] = Idle
                      /\ req[r].field = f \/ ~Live(id) \/ req[r].row.version # rows[id].version
  <2> SUFFICES ASSUME NEW id \in Ids, Exists(id)
               PROVE  /\ rows'[id].owner = rows[id].owner
                      /\ \A f \in {"mode", "url", "key"} : rows'[id][f] # rows[id][f] => Asked(id, f)
    BY DEF Asked
  <2>1. Survives(id)
    BY <1>1, StepSurvives
  <2>2. QED
    BY <2>1 DEF Survives
<1>2. QED
  BY <1>1, Invariance, PTL DEF Spec, EditsSurvive
=============================================================================
