# Ackify in TLA+

Ackify collects proof-of-read signatures: a signed-in user signs a document, the
signature is chained to the previous one, expected signers are reminded by mail,
and webhooks hear of it. The server is one Go program (`src/backend`) over one
PostgreSQL database; several processes may share the database. All of its hard
state is in tables, and all of its concurrency is between requests (one goroutine
and one transaction each), background workers (one autocommitted claim, then one
transaction per item) and other processes.

Run a check inside this directory with
`tlc -workers 2 -config SigChain.cfg MCSignatureChain.tla`, and proofs with
`tlapm SignatureChainProofs.tla`. `PROJECT.json` maps each definition to its lines.

## Inventory

| Component | State | Operations | Hard behaviour | What makes it correct |
|---|---|---|---|---|
| Request transactions (`shared/rls_middleware.go`, `tenant/context.go`) | one transaction per request | commit on 2xx/3xx, else roll back | errors that handlers ignore abort the transaction; COMMIT may fail after the answer | effects of a request are kept together or lost together |
| Signatures (`services/signature.go`, `signature_repository.go`) | `signatures`, a sequence | sign, list, check | races on check-then-insert and on the last signature; lost requests | one signature per user and document; chains point backwards; append only |
| Chain maintenance (called by tests alone) | `prev_hash` | verify, rebuild | rebuild beside signing | rebuild repairs and harms nothing |
| Email queue and worker (`email/worker.go`) | `email_queue` | enqueue, claim, send, mark, retry, clean up | several workers, stop, crash, ignored errors | sent once, bounded tries, truthful status, progress |
| Webhooks (`services/webhook.go`, `webhook/worker.go`) | `webhooks`, `webhook_deliveries` | publish, deliver, administer | fan-out inside foreign transactions; deletion while posting | all or nothing, bounded posts, no orphans, progress |
| Expected signers and completion | `expected_signers` | add, remove, statistics | the last signers overlap; several accounts per person | announced when, and only when, complete |
| Magic links | `magic_link_tokens`, `magic_link_auth_attempts` | request, remind, consume, clean up | two visits at once; mail and session escape a rollback | single use; rate limits |
| Reminders (`reminder_async.go`) | `reminder_logs` | queue tokens, mails and logs | many inserts in one transaction, a log that fails, signatures meanwhile | a log for each mail queued, no mail to who had signed |
| Admin import (`csv_parser.go`, `HandleImportSigners`) | `expected_signers` | preview, import | counts read before the insert | truthful counts |
| Documents (`document_service.go`) | `documents` | find or create, create, update, delete | check then insert; read, modify, write back; soft deletion | no duplicate and no lost edit without an overlap |
| File storage (`storage/handler.go`, `pkg/storage`) | files | upload, read, delete | no transaction ties files to rows | no document without its file, no file without its document |
| Remote checksum | none | fetch a URL | servers that answer anything | what cannot be loaded is not read in the viewer |
| Tenant configuration (`config_service.go`) | `tenant_config`, a copy in memory | seed, update a section, reset, reload | copy against table; uncommitted reloads | the copy is what is stored; somebody can sign in; secrets survive |
| Sessions, OAuth (`dynamic_provider.go`, `session_service.go`) | cookies, `oauth_sessions` | start, callback, log out, clean up | provider replaced in the middle of a flow; answers of two tabs | a session comes from a flow of its own browser |
| Rate limiters, proxy, cryptography, presentation, web application | little or none | | | |

How they meet: a request runs in one transaction; services publish events *in
that transaction* as rows of `webhook_deliveries`, and queue mails in it as rows of
`email_queue`. Workers poll both tables. The email worker publishes `reminder.sent`
and `reminder.failed` itself, in the transaction of the mail's result. Reminder
mails carry reminder tokens, which sign the reader in. Signing decides on
`document.completed` from expected signers and signatures. Every request reads the
settings from the copy in memory, which requests of administrators replace.

## Modules

| Module | Models |
|---|---|
| `SignatureLedger` | abstract: an append-only ledger with one entry per user and document |
| `SignatureChain` | `POST /signatures`, a step per SQL statement, with its transaction; document changes beside it |
| `ChainMaintenance` | extends `SignatureChain` with `RebuildChain` and `VerifyChainIntegrity` |
| `WorkQueue` | abstract: jobs with bounded retries |
| `EmailQueue` | the email table, its workers and processes; implements `WorkQueue` |
| `WebhookQueue` | publishing, deliveries, administration; implements `WorkQueue` |
| `Completion` | expected signers, the statistics that decide, `document.completed` |
| `Signers` | extends `Completion` with the import of signers and rounds of reminders |
| `FileStore` | the local storage provider |
| `Documents` | extends `FileStore` with documents: find-or-create, upload, edits, deletions |
| `TenantConfig` | the stored settings and the copy in memory |
| `SignIn` | extends `TenantConfig` with OIDC flows, cookies and stored refresh tokens |
| `MagicLink` | sign-in links, reminder tokens, rate limits, cleanup |
| `MC*` | model values, symmetry and initial data for TLC |
| `*Proofs` | the inductive invariant of the module (`SignInProofs`: and of `TenantConfig`; `SignersProofs`: and of `Completion`) and its theorems |

Operators named as a mutant in their comment are not part of the model. Each is a
plausible wrong version of the definition that follows it, there to show that
the properties notice.

### How PostgreSQL is modelled

READ COMMITTED, the default, which the code never changes. A statement sees the
committed rows and those of its own transaction, so a transaction is a program
counter with a private part that becomes visible in one commit step. A failed
statement dooms the transaction (`doomed`): later statements of it fail and COMMIT
rolls back, whatever the handler makes of the error. Unique indexes, foreign keys
and updated rows hold locks until the transaction ends (`Holds`, `Referring`,
`Locked`): whoever needs them waits. `FOR UPDATE SKIP LOCKED` passes over locked rows. A
sequence is not transactional: ids of lost rows are never used again.

### State and actions

*SignatureChain.* `sigs` and `docs` are the committed tables, `outbox` the committed
`signature.created` deliveries. A request (`pc`, `row`, `doomed`, `answer`) goes through
`Begin` (middleware), `CheckExists` (`ExistsByDocAndUser`), `ReadDocument` (`GetByDocID` and
`verifyDocumentIntegrity`), `ReadLast` (`GetLastSignature` and the hash), `DrawId` and
`Store` (the INSERT: the id, then the unique index, where it may wait), `PublishCreated`,
`Answer` and `Commit`. `StatementFails` and `Lost` are the ways out. A hash is represented
by the id of the row: it covers every column that never changes. `seen`, `at` and
`commits` are history.

*ChainMaintenance.* `StartRebuild` reads all rows, each `Visit` is one turn of the loop
whose update may fail, `FinishRebuild` ends it. `Earlier` holds rows of a previous life.

*EmailQueue.* `LockRows` and `Claim` are the two halves of the claiming statement, so that
two workers can be inside it at once. `Begin`, `Send`, `Mark`, `Publish` and `Commit` are a
goroutine; `Halt` is `Stop` or a crash, `Restart` a new process. What a transaction did
to the row is written down at `Commit` by `Settled`. "Accepted" means that `Send` returned no
error. A timeout after the server took the mail counts as refused, as it does in the
code, which may then send it again.

*WebhookQueue.* `List`, `Queue` (once per webhook) and `EndPublish` are `Publish` in its
transaction; `CreateHook`, `SetActive` and `DeleteHook` the administration; `Claim`, `Post`,
`Settle` and `GiveUp` the worker.

*Completion.* `Sign`, `Count` and `Commit` are the part of a signature request that decides
on the event, by the join `SignedCount`; `Unsigned` is the join reminders go by.

*Signers.* One administrator's request at a time (`admin`), beside everything of
`Completion`. `Import` is the check of the entries against the list, `InsertSigners` the
INSERT and its commit; its entries are a `Preview` of one of the `Files`, or one of the
`Bodies` that no preview gave, where an email may have spaces around it. `Remind` reads
the list, `QueueReminder` is a turn of the loop, `CommitReminders` the commit. A log row
locks its signer's row through the foreign key, so `RemoveSigner` waits for it; the log
of a signer removed before it fails and dooms the transaction.

*Documents.* `rows` is the table, `files` the store of `FileStore`. A request goes through
`FindOrCreate` (the handler's lookup), `LookAgain` (the service's, and the fetch) and
`Insert`; or `Upload`, `Store` and `Insert`; or `EditMine`/`EditAny` (the read) and `Write`
(the upsert and the commit); or `DeleteMine`, `SoftDelete`, `RemoveFile` and `CommitDelete`.
`Lose` may end it anywhere. `leaked`, `version`, `by`, `seen`, `born` and `broken` are history.
`Sites` are all answers of a web server that `ComputeRemoteChecksum` tells apart.

*TenantConfig.* `stored` is `tenant_config`, `cache` is `currentConfig`. A request is `Update`
(checks against the copy; decoding over the live list of domains is `InPlace`; the value
checked and the value stored differ where the input leaves the field out) or
`RefuseSection`, then `Upsert`, `ReadRows`, `StoreCache` and `Commit`; `GetSettings` and `Reset` share the steps, and so does
`Initialize` at start. `Restart` empties the memory. `clean` says whether anything has
overlapped, been lost or been refused after changing the copy.

*SignIn.* `cookie` is what a browser holds, `visit` its request with the cookie it `sent`.
`StartOIDC`/`Redirect` begin a flow, `Callback` verifies the state, `SignedIn` or `Reject`
answers. `sessions` are the rows of refresh tokens, which `Age` and `Cleanup` concern alone.

*MagicLink.* `CheckEmail`, `CheckIp`, `SendLink` and `CommitAsk` are a request of a link;
`Present`, `Mark`, `OpenSession` and `CommitVisit` the consumption of a token at either endpoint.

## Runs

| Run | Bounds | Shows |
|---|---|---|
| `sig_chain` | 3 requests, 2 documents, 2 users, no checksums | one signature per user, chains, forks, events, conflicts, append only, ledger |
| `chain_maintenance` | 2 requests, 1 document, 1 user, 1 checksum, 2 earlier rows of others | rebuild repairs and keeps; the wait on the unique index ends |
| `email_queue` | 2 mails, 2 workers, 2 retries, batches of 2, 1 slot, 2 halts | one holder, never resent, truthful, bounded, events, progress |
| `webhook_queue` | 1 event, 2 webhooks, 2 retries, batches of 2, 2 faults | all or nothing, bounded, no orphans, progress |
| `completion` | 3 accounts, two with one email; 3 emails, one malformed and one nobody's; 2 changes of the list; 5 files, 2 other bodies, limit 2; 1 import or round of reminders | announced early only by twins, missed only by twins or overlap, reminders with logs and to pending signers, counts true |
| `magic_link` | 3 requests, 1 reminder, 2 visits, limits of 1, 1 loss | single use, limits, sessions, used for ever |
| `documents` | 2 requests at a time, 4 in all; an owner and an administrator; a name and 2 generated ids; a URL, a path; 1 file | files and rows in step, duplicates and lost edits only by overlap |
| `accounts` | 2 administrators' requests, 2 browsers, 2 flows, 3 requests in all; 2 values of each setting, 2 secrets | copy current, somebody can sign in, secrets survive, own flows |
| `sig_commit` | 2 requests, 1 document, 2 users | violation: 201 without a signature |
| `webhook_row_security` | as `webhook_queue` | violation: deliveries claimed for nobody |
| `completion_shared` | as `completion`, without imports and reminders | violation: announced while a signer is pending |
| `accounts_partial` | 1 update, magic links the only method | violation: an update leaves no way to sign in |

Why the bounds are enough. Three requests let two race while a third has
committed or is lost, which is every way a chain can fork or an index entry be
fought over; two documents show that chains are apart. Two mails and two workers
fight over one row while another waits for the single slot; two retries separate
the first, a middle and the last try. Two webhooks let one fail or vanish while
the other is queued. Limits of one make the second request the interesting one.
`MaxHalts`, `MaxFaults`, `MaxChanges` and `MaxLost` bound how often the environment
interferes; each allows at least one interference beyond the first where recovery
from a recovery matters. In `sig_chain` no document has a checksum: the integrity
check only adds a refusal, and `chain_maintenance` has it with one checksum.
In `documents` four requests are an upload or creation, an edit and a deletion that
overlap it, and one more that meets what they left; two of them run at once, which
is every overlap of two. A third generated id would only add room. In `accounts` each
refused, lost or overlapping update takes one of the three requests, a restart
another; a flow of a browser takes two, and the third is a log-out or a change of
provider in between.
The sample files of `completion` have a signer twice, more rows than the limit, blank
rows, and both kinds of header; its bodies have a known signer with spaces around the
email, and one signer with and without them. In `accounts` the environment has both ways
to sign in and in
`accounts_partial` magic links alone. Symmetry
is used only in runs without liveness. Deadlock is not checked because each
system may rest: all requests done, all queues empty.

Fairness. `ChainMaintenance`: a served request keeps running, and PostgreSQL wakes a
waiter. `EmailQueue`: tickers fire and goroutines run (weak fairness of `Poll` and `Process`), time
passes, a process that is down is restarted by its supervisor, and a claim that is
tried again and again does not fail each time (strong fairness of `Claim`, as
`ClaimFails` disables it). `WebhookQueue`: some worker polls, its goroutines run, time
passes. Nothing is assumed of outcomes: every send, post and commit may always fail.

## Proofs

Every safety property that a passing run checks, state or action property, is
proved for all values of the constants, and so are the refinements: `SignatureChain`
implements `SignatureLedger`, both queues implement `WorkQueue`, and `Signers`
implements `Completion`. In each module `IInv` is the inductive invariant, `Invariance`
proves it, and the named theorems (listed in `PROJECT.json`) follow from it. There is
one lemma for each action and each part of the invariant it disturbs, and one for
each kind of step that many actions share.

Assumed are the named assumptions on the constants, which TLC evaluates in every run:
markers such as "no checksum" and `None` are not values (`ChainConstants`,
`DocumentsConstants`, `TenantConfigConstants`, `SignInConstants`, `SignersConstants`), limits are naturals and a batch
takes at least one row (`QueueConstants`, `WebhookConstants`, `MagicLinkConstants`),
generated ids are not names, the emails are finitely many (`CompletionConstants`:
the counts are of finite sets), and rows stored earlier have ids 1 to n and hang on
rows of their document (`EarlierRows`). Nothing is assumed of how accounts and emails go
together: a person has an account for each way of signing in.

Why the properties need more than themselves:

- `SignatureChain`. Ids of stored rows and of rows in flight are below `nextId` and belong to
  one row each; the predecessor a request has read stays stored and is older than the
  id it draws; a row in flight whose transaction is alive has an index entry that no
  other row has, which keeps `OneSignaturePerUser` at `Commit`; whoever read the last
  signature after a commit saw that commit's row or a later one of its document, which is
  what `ForksOnlyBetweenOverlapping` needs.
- `ChainMaintenance`. `RebuildRepairs` holds because at each turn of the loop every row of the
  table is linked to its predecessor, or still waits in the snapshot with the link it has
  in the table, or an update has failed (`Repairing`), as long as nothing was committed
  since. What is written is the greatest older id, which a finite initial part of the
  naturals has (`GreatestBelow`). It needs nothing of the earlier links: the rebuild
  repairs any table.
- `EmailQueue`. What a goroutine knows of its row and what happened to the mail (`Handled`),
  and what a row says of the mail when nobody has it (`Counted`): tries, acceptance,
  events and the count of retries are tied to the status and to how far the goroutine is.
  `NeverResent`, `StatusTruthful`, `TriesBeforeFailing` and `EventsMatchRows` are then read off.
- `WebhookQueue`. A publishing transaction that is not doomed has queued all of its list but
  the webhooks still to come, and its foreign keys keep the queued ones from deletion
  (`Publishing`); rows, goroutines and posts are of committed events only (`Delivering`).
- `MagicLink`. At most one visit has marked a token and not ended (`Visiting`), and a token that
  is fresh, with no visit that opened a session with it, has opened no more than were
  lost (`Opening`). The limit counts the requests that *may still* be mailed, and compares
  them with the peak of overlapping ones (`Mailing`).
- `Completion`. A request counted what the commits it saw had made of the list and the
  signatures (`Counting`); a signature whose request saw everybody sign published the
  event (`Announcing`). As long as no two accounts share an expected email the pairs of
  the join are as many as the expected signers who have signed (a bijection); where two do,
  the properties say so (`Twins`). `Signers` adds no step that `Completion`
  does not allow, so its theorems hold beside imports and reminders.
- `Documents`. A storage key belongs to one document for ever (`Keying`), deletion holds the row
  (`Holding`), a file that is missing or left over has somebody who is responsible
  (`Serving`), an update that waits knows the row of the version it read
  (`Versions`), and documents another request found or could not see are told by the
  clock (`Times`).
- `TenantConfig` and `SignIn`. An update in progress that names its field has passed the check
  against the copy it was made from, or the check is switched off (`Asking`); a transaction that is alone reloads what it will have stored
  (`Reloading`); every flow that a cookie, or a request in progress, knows was started by
  that browser (`Owning`).

Proving them changed the model in four places. `KeepsAuthMethod` was not true of every
environment: seeds and resets are not checked, `config.go:304` enables magic links
for a mail host without a sender, and `IsConfigured` (`tenant_config.go:110`) wants both;
the run has a usable environment. `None` had to be no flow and no browser, and no
generated id is a name, which the program's ids cannot be. `ExpectedPrev` and the list
of CSV rows were stated in forms that can be reasoned about (over ids; as a recursive
function). That a recursive function is defined everywhere (`ParseIsEmails`) is proved
by the least element of a set of numbers (`LeastNumber`).

Only model-checked: liveness (`EveryRequestSettles`, `EveryMailSettles`,
`EveryDeliverySettles`), which is out of the prover's reach, and the four runs that
expect a violation. The type invariants other than `SignatureChain`'s are listed by
no run: they are proved.

## What the code does not keep

Found while modelling, each with a run:

- `CommitsOnSuccess` (`sig_commit`): a failed INSERT for a webhook aborts the transaction;
  its error is ignored, the answer is 201 and the signature is gone.
- `EveryDeliverySettles` with `RowSecurity` (`webhook_row_security`): the claim joins `webhooks`,
  whose policy was not relaxed for workers. `compose.yml` connects as a role that is subject to it.
- `AnnouncedWhenComplete` with a shared email (`completion_shared`): two accounts of one
  person count as two expected signers. `EarlyOnlyByTwins` says that nothing else brings the
  event early; where the count then exceeds the list (the list was shortened meanwhile, or
  both sign) the event can be missed as well, which `MissedOnlyByOverlap` leaves out.
- `AuthMethodRemains` (`accounts_partial`): an update of the magic-link section that leaves
  `enabled` out is checked with the value in memory and stored without it, so that with
  magic links the only method nobody can sign in. `KeepsAuthMethod` says that an update
  which names its field, checked against what is stored, never does that.

Seen in the source, without a run:

- `VerifyChainIntegrity` expects one chain over all documents in the order of id (lines
  300-332 of `services/signature.go`), while signatures are chained to the last one of their
  document (line 143): the untampered signatures of two documents do not verify. Neither
  it nor `RebuildChain` has a caller outside the tests, so nothing meets this in the
  running program; what `ChainMaintenance` shows is what they would do there.
- Rows left in `processing` by a crash, a stop or a broken connection are never put back,
  although migration 0006 speaks of "reliable email delivery". `log.lost` marks them.
- The cleanup of both queues sets no tenant, so under row security it deletes nothing
  (`docs/en/database.md` promises 7 days of retention).
- `MarkDelivered` cuts the response body at a byte; inside a character the update fails.
- `admin/handler.go:816` says that deletion cascades to signatures; it is a soft deletion.
- Migration 0007 says that `doc_deleted_at` NULL means the document exists; the marks stay
  when the document is created again.
- Settings are checked against the copy in memory, and the `version` column is never used:
  two overlapping updates, one that switches OIDC off and one that switches magic links
  off, can leave no way to sign in. `KeepsAuthMethod` states what remains true.
- Seeds and resets (`config_service.go:405`) store the environment unchecked, also one that
  enables magic links with a mail host and no sender and has no other way to sign in.
- `applyUpdateToConfig` decodes `allowed_domains` over the elements of the live list, so that
  an update which is then refused, or lost, has changed what the program reads.
- The mark "seeded" commits on a connection of its own (`MarkSeeded`): if the seeds are lost
  the settings stay empty at every later start, and the warning "using ENV config"
  (`server.go:441`) is not true of what is then used.
- `configMatches` leaves out the scopes: a change of scopes alone waits for a restart.
- `SetUser` decodes the cookie of the request anew: the state and the code verifier that
  were just removed are in the answer again, and the link to the stored refresh token is
  lost. `StartOIDC` renews a cookie for 30 days while the row, never touched, is cleaned
  up after 37; nothing reads the rows, and a log-out leaves them.
- `POST /documents` runs without authentication (`router.go:346`): its documents have no
  owner, and with `only_admin_can_create` administrators are refused as well.
- Owners' deletions remove the file before the commit, administrators' leave it for ever.
  An update that overlaps the deletion, or a later one by an administrator, revives the
  document without its file.
- Nothing keeps two documents from one URL, and a path is not found again
  (`FindByReference` looks for it in `url`, where only an update stores it). Updates do not
  validate URLs.
- Reminders: "failed" logs can never commit, and the counts of reminders look for the
  status "sent" while only "queued" is written, so they are always zero.
- The import looks an email up with the spaces around it and inserts it without: a known
  signer written so is counted as imported. It does not validate emails; a limit of zero is "no limit" to the parser and
  refuses every import; a header with a name column alone leaves every row without email.
- `docs/en/features/expected-signers.md` says reminders are sent synchronously; they are queued.
- `reminder_async.go:287` calls a failed INSERT non-critical; it aborts the transaction.

## Not modelled, and why

Cryptography, network I/O, templates, translation and static files have no
state a model could tell apart. Tenants: the program has one unless extended, so the
policies matter only for background statements without a tenant (`RowSecurity`).
`FindPendingForEmail`, `GetAggregateDocumentStats` and `GetReminderStats` count for pages that
show it; that they leave out deleted documents is of no consequence for the event.
Priorities of the queues: a claim may take any due rows, which includes the order
the code asks for. Migrations run before the server does. Lists, searches and status
pages only read. The rate limiters are windows of time stamps in memory: that of the
proxy is a critical section, and that of the middleware loads and stores in two steps,
so that overlapping requests are counted once. CSRF tokens are a set with expiry. The
S3 provider is a client of the interface `FileStore` models. The storage section of
the settings and the connection tests behave as the sections and requests that are
modelled. Quotas, audit and telemetry are hooks that do nothing in this program.

## Plan

Done: signatures, chain maintenance, both queues, completion with imports and
reminders, magic links, documents and files, settings and sign-in; proofs of all
their safety properties and of the four refinements.

Left: that `OneSignaturePerUser`, `EventIffSigned` and `ConflictMeansSigned` hold also while a
rebuild runs (their invariant does not look at `prev_hash`, but the lemmas of
`SignatureChainProofs` are stated with the one that does); a specification of the
settings as one variable that `TenantConfig` implements when updates do not overlap.
