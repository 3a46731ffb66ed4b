------------------------------ MODULE Documents ------------------------------
(***************************************************************************)
(* Documents and their stored files: find-or-create, creation, upload,     *)
(* edits and deletions by requests that overlap.                           *)
(*                                                                         *)
(* Every request runs in a transaction of its own that commits after the   *)
(* handler has answered.  A write and its commit are one step here, for    *)
(* the row lock makes another writer wait and a lost transaction leaves    *)
(* nothing; only the owner's deletion, which removes the file between the  *)
(* two, holds its lock over several steps.                                 *)
(***************************************************************************)
EXTENDS Integers, FileStore

CONSTANTS
  Requests,   \* requests in progress at a time
  Users, Admins,
  OnlyAdminCanCreate,  \* general setting only_admin_can_create
  Outsiders,  \* whose email is not of general.organisation_domain, if it is set
  Name,       \* a plain reference, which becomes the doc_id
  Gen,        \* generated doc_ids
  Url, Path,  \* references of the two other types
  None,
  MaxOps      \* bound: how many requests are made

Ids == {Name} \union Gen
Refs == {Name, Url, Path}

ASSUME DocumentsConstants ==
  /\ Admins \subseteq Users /\ OnlyAdminCanCreate \in BOOLEAN /\ MaxOps \in Nat
  /\ Outsiders \subseteq Users \union {None}
  /\ None \notin Keys \union Users \union Refs \union Ids /\ Name \notin Gen

VARIABLES
  rows,    \* documents by doc_id, soft-deleted ones included
  req,     \* per request: what it is doing
  ops,     \* requests made so far
  clock,   \* (history) documents created so far
  leaked   \* (history) keys whose file no code path will remove any more

vars == <<files, rows, req, ops, clock, leaked>>

-----------------------------------------------------------------------------
Modes == {"integrated", "external"}
Urls == {None, Url, Path}
Editable == [mode |-> Modes, url |-> Urls]

(* version, by, seen, born and broken are history: how often the row was   *)
(* written, what made it, the clock at its request's last lookup and at    *)
(* its creation, and whether its file was lost (see ContentIsServed).      *)
NoRow == [live |-> FALSE, owner |-> None, mode |-> None, url |-> None, key |-> None,
          version |-> 0, by |-> "none", seen |-> 0, born |-> 0, broken |-> FALSE]
Idle == [pc |-> "idle", id |-> None, user |-> None, ref |-> None, row |-> NoRow, field |-> "none"]

Row == [live : BOOLEAN, owner : Users \union {None}, mode : Modes \union {None}, url : Urls,
        key : Keys \union {None}, version : Nat, by : {"none", "found", "posted", "uploaded", "put"},
        seen : Nat, born : Nat, broken : BOOLEAN]

Task == [pc : {"idle", "look", "upload", "insert", "write", "delete", "deleted", "removed"},
         id : Ids \union {None}, user : Users \union {None}, ref : Refs \union {None},
         row : Row, field : DOMAIN Editable \union {"none"}]

TypeOK ==
  /\ FilesTypeOK
  /\ rows \in [Ids -> Row]
  /\ req \in [Requests -> Task]
  /\ ops \in 0..MaxOps /\ clock \in Nat /\ leaked \subseteq Keys

Exists(id) == rows[id].by # "none"
Live(id) == rows[id].live

(* IsAdmin, CanCreateDocument and CanManageDocument. *)
CanCreate(u) == u \in Admins \/ (~OnlyAdminCanCreate /\ u \notin Outsiders)
CanManage(u, owner) == u \in Admins \/ (u \in Users /\ u = owner)

Init ==
  /\ NoFiles
  /\ rows = [id \in Ids |-> NoRow]
  /\ req = [r \in Requests |-> Idle]
  /\ ops = 0 /\ clock = 0
  /\ leaked = {}

Start(r) == req[r].pc = "idle" /\ ops < MaxOps /\ ops' = ops + 1
Become(r, q) == req' = [req EXCEPT ![r] = q]
End(r) == Become(r, Idle)

(* A deletion that has not committed holds its row. *)
Held(id) == \E r \in Requests : req[r].pc \in {"deleted", "removed"} /\ req[r].id = id

-----------------------------------------------------------------------------
(* What the web server of a URL may do, and ComputeRemoteChecksum's answer *)
(* to it: whether there is a checksum.                                     *)
Sites == [blocked : BOOLEAN, head : BOOLEAN, get : BOOLEAN, type : {"none", "allowed", "other"},
          length : {"unknown", "fits", "large"}, body : {"fits", "large", "broken"}]
WithinLimit(s) == s.body = "fits"
StreamedGet(s) == s.get /\ s.type # "other" /\ WithinLimit(s)
Checksummed(s) ==
  /\ ~s.blocked
  /\ IF ~s.head THEN StreamedGet(s)
     ELSE s.type # "other" /\ s.length # "large"
          /\ IF s.length = "unknown" THEN StreamedGet(s) ELSE s.get /\ WithinLimit(s)
Reachable == {Checksummed(s) : s \in Sites}

(* CreateDocument: a URL the server cannot load is never read in the       *)
(* integrated viewer, which might block signing for ever.                  *)
Metadata(ref, key, reachable) ==
  [mode |-> IF (ref = Url /\ reachable) \/ key # None THEN "integrated" ELSE "external",
   url |-> IF ref = Url THEN ref ELSE None,
   key |-> key]

(* The row of a document, made in this way by this user. *)
NewRow(m, owner, by) ==
  [live |-> TRUE, owner |-> owner, mode |-> m.mode, url |-> m.url, key |-> m.key,
   version |-> 1, by |-> by, seen |-> clock, born |-> 0, broken |-> FALSE]

(* Mutant: documents are looked for by doc_id alone. *)
FoundById(ref) == {id \in Ids : Live(id) /\ id = ref}

(* FindByReference: by doc_id, or by url for URLs and paths, among the     *)
(* documents that are not deleted.  Only an update stores a path as url.   *)
Found(ref) == {id \in Ids : Live(id) /\ (id = ref \/ rows[id].url = ref)}

(* The handler looks for the document and answers it; if there is none, an *)
(* authenticated user who may create documents gets a new one.             *)
FindOrCreate(r) ==
  /\ Start(r)
  /\ \E u \in Users, ref \in Refs :
       /\ Found(ref) = {} /\ CanCreate(u)
       /\ Become(r, [Idle EXCEPT !.pc = "look", !.user = u, !.ref = ref])
  /\ UNCHANGED <<files, rows, clock, leaked>>

(* The service looks again, and may refuse a URL (ValidateDocumentURL);    *)
(* then it fetches it, twice, before it inserts.  A plain reference is     *)
(* inserted under its own name, without a read mode, which the repository  *)
(* takes as integrated.                                                    *)
LookAgain(r) ==
  LET ref == req[r].ref IN
  /\ req[r].pc = "look"
  /\ \/ (Found(ref) # {} \/ ref = Url) /\ End(r)
     \/ /\ Found(ref) = {}
        /\ IF ref = Name
           THEN Become(r, [req[r] EXCEPT !.pc = "insert", !.id = Name,
                  !.row = NewRow([Metadata(ref, None, FALSE) EXCEPT !.mode = "integrated"], req[r].user, "found")])
           ELSE \E id \in Gen, reachable \in Reachable :
                  Become(r, [req[r] EXCEPT !.pc = "insert", !.id = id,
                    !.row = NewRow(Metadata(ref, None, reachable), req[r].user, "found")])
  /\ UNCHANGED <<files, rows, ops, clock, leaked>>

(* HandleCreateDocument: never looks for the reference, and the route has  *)
(* no authenticated user, so nobody owns the document.                     *)
Post(r) ==
  /\ Start(r) /\ CanCreate(None)
  /\ \E ref \in Refs, id \in Gen, reachable \in Reachable :
       Become(r, [Idle EXCEPT !.pc = "insert", !.id = id, !.ref = ref,
                    !.row = NewRow(Metadata(ref, None, reachable), None, "posted")])
  /\ UNCHANGED <<files, rows, clock, leaked>>

(* generateStorageKey never draws a key again. *)
Fresh(k) ==
  /\ k \notin leaked
  /\ \A id \in Ids : rows[id].key # k
  /\ \A q \in Requests : req[q].row.key # k

(* HandleUpload writes the file first... *)
Upload(r) ==
  /\ Start(r)
  /\ \E u \in Users, k \in Keys :
       /\ Fresh(k)
       /\ Open(k)
       /\ Become(r, [Idle EXCEPT !.pc = "upload", !.user = u, !.row = [NoRow EXCEPT !.key = k]])
  /\ UNCHANGED <<rows, clock, leaked>>

UploadFails(r) ==
  /\ req[r].pc = "upload"
  /\ Discard(req[r].row.key)
  /\ End(r)
  /\ UNCHANGED <<rows, ops, clock, leaked>>

(* ... and creates the document, in the read mode the form asks for, when  *)
(* it is in place.                                                         *)
Store(r) ==
  /\ req[r].pc = "upload"
  /\ Rename(req[r].row.key)
  /\ \E id \in Gen, mode \in Modes :
       Become(r, [req[r] EXCEPT !.pc = "insert", !.id = id,
                    !.row = NewRow([Metadata(None, req[r].row.key, FALSE) EXCEPT !.mode = mode], req[r].user, "uploaded")])
  /\ UNCHANGED <<rows, ops, clock, leaked>>

(* The INSERT finds no row under its doc_id, and commits. *)
Insert(r) ==
  LET id == req[r].id IN
  /\ req[r].pc = "insert" /\ ~Exists(id)
  /\ rows' = [rows EXCEPT ![id] = [req[r].row EXCEPT !.born = clock + 1]]
  /\ clock' = clock + 1
  /\ End(r)
  /\ UNCHANGED <<files, ops, leaked>>

(* Mutant: the uploaded file is not cleaned up. *)
InsertFailsOnly(r) ==
  /\ req[r].pc = "insert" /\ Exists(req[r].id)
  /\ files' = files /\ leaked' = leaked
  /\ End(r)
  /\ UNCHANGED <<rows, ops, clock>>

(* The doc_id is taken, perhaps by a deleted document or, after the check  *)
(* of a generated one, by another request: no document, and an uploaded    *)
(* file is removed again, if it can be.                                    *)
InsertFails(r) ==
  LET k == req[r].row.key IN
  /\ req[r].pc = "insert" /\ Exists(req[r].id)
  /\ IF k = None THEN files' = files ELSE Delete(k)
  /\ leaked' = IF k # None /\ files'[k] = "kept" THEN leaked \union {k} ELSE leaked
  /\ End(r)
  /\ UNCHANGED <<rows, ops, clock>>

-----------------------------------------------------------------------------
(* checkDocumentOwnership: an existing document of which u is the owner or *)
(* an administrator.                                                       *)
Owned(u, id) == Live(id) /\ CanCreate(u) /\ CanManage(u, rows[id].owner)

(* An update reads the whole row, and asks for a new value of a field. *)
Edit(r, id, row) ==
  \E f \in DOMAIN Editable : \E v \in Editable[f] :
    /\ row[f] # v
    /\ Become(r, [Idle EXCEPT !.pc = "write", !.id = id, !.row = [row EXCEPT ![f] = v], !.field = f])

(* HandleUpdateMyDocumentMetadata. *)
EditMine(r) ==
  /\ Start(r)
  /\ \E u \in Users, id \in Ids : Owned(u, id) /\ Edit(r, id, rows[id])
  /\ UNCHANGED <<files, rows, clock, leaked>>

(* The administrators' update of a document that does not exist, or is     *)
(* deleted, starts from an empty one.  Nobody guesses a generated doc_id.  *)
EditAny(r) ==
  /\ Start(r)
  /\ \E u \in Admins, id \in Ids :
       /\ Exists(id) \/ id = Name
       /\ Edit(r, id, IF Live(id) THEN rows[id] ELSE [NoRow EXCEPT !.owner = u, !.mode = "integrated"])
  /\ UNCHANGED <<files, rows, clock, leaked>>

(* Mutant: the storage fields are not among the fields of the input. *)
UpsertMetadata(old, new) ==
  [old EXCEPT !.mode = new.mode, !.url = new.url, !.key = None, !.live = TRUE,
              !.broken = @ \/ (new.key # None /\ (~old.live \/ new.key # old.key)),
              !.by = IF ~old.live \/ old.url # new.url THEN "put" ELSE @]

(* CreateOrUpdate, ON CONFLICT DO UPDATE: every field but the creator's,   *)
(* and the document is not deleted any more.                               *)
Upsert(old, new) ==
  [old EXCEPT !.mode = new.mode, !.url = new.url, !.key = new.key, !.live = TRUE,
              !.broken = @ \/ (new.key # None /\ (~old.live \/ new.key # old.key)),
              !.by = IF ~old.live \/ old.url # new.url THEN "put" ELSE @]

(* UpdateDocumentMetadata, and the commit. *)
Write(r) ==
  LET id == req[r].id
      old == IF Exists(id) THEN rows[id] ELSE [NoRow EXCEPT !.owner = req[r].row.owner] IN
  /\ req[r].pc = "write" /\ ~Held(id)
  /\ rows' = [rows EXCEPT ![id] = [Upsert(old, req[r].row) EXCEPT !.version = @ + 1]]
  /\ End(r)
  /\ UNCHANGED <<files, ops, clock, leaked>>

-----------------------------------------------------------------------------
(* HandleDeleteMyDocument reads the row... *)
DeleteMine(r) ==
  /\ Start(r)
  /\ \E u \in Users, id \in Ids :
       /\ Owned(u, id)
       /\ Become(r, [Idle EXCEPT !.pc = "delete", !.id = id, !.row = rows[id]])
  /\ UNCHANGED <<files, rows, clock, leaked>>

(* Delete: UPDATE ... WHERE deleted_at IS NULL. *)
SoftDelete(r) ==
  /\ req[r].pc = "delete" /\ ~Held(req[r].id)
  /\ IF Live(req[r].id) THEN Become(r, [req[r] EXCEPT !.pc = "deleted"]) ELSE End(r)
  /\ UNCHANGED <<files, rows, ops, clock, leaked>>

(* ... and removes the file of the row it read, before the commit. *)
RemoveFile(r) ==
  LET k == req[r].row.key IN
  /\ req[r].pc = "deleted"
  /\ IF k = None THEN files' = files ELSE Delete(k)
  /\ Become(r, [req[r] EXCEPT !.pc = "removed"])
  /\ UNCHANGED <<rows, ops, clock, leaked>>

(* deleted_at is set; the row stays as it is. *)
Deleted(row) == [row EXCEPT !.live = FALSE, !.version = @ + 1]

(* The keys a deleted row leaves behind in the store. *)
LeftBehind(id) == {k \in Keys : k = rows[id].key /\ files[k] = "kept"}

CommitDelete(r) ==
  LET id == req[r].id IN
  /\ req[r].pc = "removed"
  /\ rows' = [rows EXCEPT ![id] = Deleted(@)]
  /\ leaked' = leaked \union LeftBehind(id)
  /\ End(r)
  /\ UNCHANGED <<files, ops, clock>>

(* The administrators' HandleDeleteDocument does not touch the file. *)
DeleteAny ==
  /\ ops < MaxOps /\ ops' = ops + 1
  /\ \E id \in Ids :
       /\ Live(id) /\ ~Held(id)
       /\ rows' = [rows EXCEPT ![id] = Deleted(@)]
       /\ leaked' = leaked \union LeftBehind(id)
  /\ UNCHANGED <<files, req, clock>>

(* A request is lost: its connection or its process dies, or its commit    *)
(* fails.  Its transaction has never been; what it did to the files has.   *)
Lose(r) ==
  LET q == req[r]  k == q.row.key IN
  /\ q.pc # "idle"
  /\ \/ q.pc = "upload" /\ Discard(k) /\ leaked' = leaked
     \/ files' = files /\ leaked' = IF q.pc \in {"upload", "insert"} /\ k # None THEN leaked \union {k} ELSE leaked
  /\ rows' = IF q.pc = "removed" /\ k # None THEN [rows EXCEPT ![q.id].broken = @ \/ ~Downloadable(k)] ELSE rows
  /\ End(r)
  /\ UNCHANGED <<ops, clock>>

Next ==
  \/ \E r \in Requests :
       \/ FindOrCreate(r) \/ LookAgain(r) \/ Post(r) \/ Upload(r) \/ UploadFails(r) \/ Store(r)
       \/ Insert(r) \/ InsertFails(r) \/ EditMine(r) \/ EditAny(r) \/ Write(r)
       \/ DeleteMine(r) \/ SoftDelete(r) \/ RemoveFile(r) \/ CommitDelete(r) \/ Lose(r)
  \/ DeleteAny

Spec == Init /\ [][Next]_vars
-----------------------------------------------------------------------------
(* HandleContent: what a reader of the document's file gets. *)
Content(id) ==
  IF ~Live(id) \/ rows[id].key = None THEN "not found"
  ELSE IF Downloadable(rows[id].key) THEN "file" ELSE "error"

(* The file of an uploaded document can be read for as long as the         *)
(* document is there.  It cannot while its deletion is about to commit,    *)
(* after that deletion was rolled back, and when an update that had read   *)
(* the document before it was deleted brought it back.                     *)
ContentIsServed ==
  \A id \in Ids : Content(id) = "error" =>
    rows[id].broken \/ \E r \in Requests : req[r].pc = "removed" /\ req[r].id = id

(* A file in the store is that of a document, or of an upload in progress, *)
(* unless the request was lost or the document deleted without its file.   *)
FilesHaveDocuments ==
  \A k \in Keys : files[k] # "none" =>
    \/ \E id \in Ids : Live(id) /\ rows[id].key = k
    \/ \E r \in Requests : req[r].pc \in {"upload", "insert"} /\ req[r].row.key = k
    \/ k \in leaked

(* HandleUpload, HandleContent, HandleDeleteMyDocument: the store and the  *)
(* database, which no transaction ties together, stay in step.             *)
FilesMatchDocuments == ContentIsServed /\ FilesHaveDocuments

(* FindOrCreateDocument: two documents for one URL, both made by           *)
(* find-or-create, were made by requests neither of which could see the    *)
(* other's document; no unique index stops them.                           *)
DuplicatesOnlyByOverlap ==
  \A i, j \in Ids :
    (i # j /\ Live(i) /\ Live(j) /\ rows[i].by = "found" /\ rows[j].by = "found"
       /\ rows[i].url = Url /\ rows[j].url = Url)
    => rows[i].seen < rows[j].born /\ rows[j].seen < rows[i].born

(* Both update handlers read, modify and write back the whole row: a field *)
(* nobody asked to change keeps its value, unless another write came       *)
(* between the read and the write or the document was deleted.  The        *)
(* creator never changes.                                                  *)
EditsSurvive ==
  [][\A id \in Ids : Exists(id) =>
       /\ rows'[id].owner = rows[id].owner
       /\ \A f \in {"mode", "url", "key"} : rows'[id][f] # rows[id][f] =>
            \E r \in Requests :
              /\ req[r].pc = "write" /\ req[r].id = id /\ req'[r] = Idle
              /\ req[r].field = f \/ ~Live(id) \/ req[r].row.version # rows[id].version]_vars
=============================================================================
