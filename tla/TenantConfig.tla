---------------------------- MODULE TenantConfig ----------------------------
(***************************************************************************)
(* The settings of the instance: the sections stored in tenant_config, the *)
(* copy of them in memory that the whole program reads, and the requests   *)
(* of administrators that change, reset or show them.                      *)
(*                                                                         *)
(* Each request has a transaction.  It checks its change against the copy  *)
(* in memory, writes its section, and reloads the copy from what its own   *)
(* transaction sees, all before it commits.                                *)
(***************************************************************************)
EXTENDS Integers

CONSTANTS
  Requests, Main,   \* requests in progress; the goroutine that starts the server
  Domains,          \* values of general.allowed_domains
  Providers,        \* OIDC providers
  Secrets, Mask,    \* client secrets, and the mask shown instead of one
  Env,              \* the configuration in the environment
  DisableAuthMethodCheck,   \* set by extensions that sign users in by themselves
  None,
  MaxOps            \* bound: how many requests are made, restarts included

Procs == Requests \union {Main}
Config == [general : Domains \union {None}, oidc : Providers \union {None}, secret : Secrets \union {None},
           magic : BOOLEAN, smtp : BOOLEAN]
Fields == {"general", "oidc", "secret", "magic", "smtp"}
Sections == {"general", "oidc", "magiclink", "smtp"}

ASSUME TenantConfigConstants ==
  /\ Env \in Config /\ DisableAuthMethodCheck \in BOOLEAN /\ MaxOps \in Nat
  /\ Main \notin Requests /\ Mask \notin Secrets /\ None \notin Domains \union Providers \union Secrets \union {Mask}

VARIABLES
  stored,   \* the committed rows of tenant_config (oidc None: not enabled)
  seeded,   \* instance_metadata.config_seeded_at is set
  cache,    \* ConfigService.currentConfig
  req,      \* per process: its transaction
  ops,      \* requests made so far
  clean     \* (history) nothing since the last reload has overlapped or been lost

configVars == <<stored, seeded, cache, req, ops, clean>>

-----------------------------------------------------------------------------
Empty == [general |-> None, oidc |-> None, secret |-> None, magic |-> FALSE, smtp |-> FALSE]

(* base, kind, typed, omitted and alone are history: the copy in memory    *)
(* the change was checked against, what was asked, whether it left the     *)
(* field out, and whether no other request ran.                            *)
Idle == [pc |-> "idle", sections |-> {}, touched |-> {}, new |-> Empty, view |-> Empty,
         kind |-> "none", base |-> Empty, typed |-> None, omitted |-> FALSE, alone |-> FALSE]

Transaction ==
  [pc : {"idle", "boot", "upsert", "read", "store", "commit"}, sections : SUBSET Sections,
   touched : SUBSET Fields, new : Config, view : Config, kind : {"none", "seed", "load", "update"},
   base : Config, typed : Secrets \union {Mask, None}, omitted : BOOLEAN, alone : BOOLEAN]

TypeOK ==
  /\ stored \in Config /\ seeded \in BOOLEAN /\ cache \in Config
  /\ req \in [Procs -> Transaction]
  /\ ops \in 0..MaxOps /\ clean \in BOOLEAN

(* ON CONFLICT DO UPDATE: the columns that were written; COALESCE keeps    *)
(* the secrets when there are no new ones.                                 *)
Merge(c, new, touched) == [f \in Fields |-> IF f \in touched THEN new[f] ELSE c[f]]

(* Mutant: an authentication method is only asked of the section itself. *)
ValidAlone(c) == DisableAuthMethodCheck \/ (c.magic => c.smtp)

(* validateCrossCategory: HasAtLeastOneAuthMethod, MagicLinkRequiresSMTP. *)
HasAuthMethod(c) == c.oidc # None \/ c.magic
MagicLinkHasSMTP(c) == c.magic => c.smtp
Valid(c) == DisableAuthMethodCheck \/ (HasAuthMethod(c) /\ MagicLinkHasSMTP(c))

(* Mutant: whatever the form holds is the secret. *)
StoredSecretVerbatim(typed) == typed

(* processSecrets: the mask stands for the secret in memory. *)
StoredSecret(typed) == IF typed = Mask THEN cache.secret ELSE typed

(* A row of a section that a transaction has written and not committed. *)
Writing(p) == req[p].pc \in {"read", "store", "commit"}
Blocked(p) == \E q \in Procs \ {p} : Writing(q) /\ req[q].sections \cap req[p].sections # {}

Init ==
  /\ stored = Empty /\ seeded = FALSE /\ cache = Empty
  /\ req = [p \in Procs |-> IF p = Main THEN [Idle EXCEPT !.pc = "boot"] ELSE Idle]
  /\ ops = 0 /\ clean = FALSE

(* A request arrives; those in progress are not alone any more. *)
Arrive(r, q) ==
  /\ req[Main].pc = "idle" /\ req[r].pc = "idle"
  /\ ops < MaxOps /\ ops' = ops + 1
  /\ req' = [p \in Procs |-> IF p = r THEN [q EXCEPT !.alone = \A o \in Procs : req[o].pc = "idle"]
                             ELSE [req[p] EXCEPT !.alone = FALSE]]

-----------------------------------------------------------------------------
(* seedFromENV: every section, with its secrets. *)
Seeds == [Idle EXCEPT !.pc = "upsert", !.kind = "seed", !.sections = Sections, !.touched = Fields, !.new = Env]

(* Initialize asks outside its transaction whether the rows were seeded.   *)
Initialize ==
  /\ req[Main].pc = "boot"
  /\ req' = [req EXCEPT ![Main] =
       IF seeded THEN [Idle EXCEPT !.pc = "read", !.kind = "load", !.alone = TRUE]
       ELSE [Seeds EXCEPT !.alone = TRUE]]
  /\ UNCHANGED <<stored, seeded, cache, ops, clean>>

(* applyUpdateToConfig decodes a list of domains over the elements of the  *)
(* list in memory, before anything is checked; no list leaves it alone.    *)
InPlace(f, v) == IF f = "general" /\ None \notin {v, cache.general} THEN [cache EXCEPT !.general = v] ELSE cache

(* UpdateSection: the section as it would be is checked together with the  *)
(* other sections in memory.  An empty secret is none: COALESCE keeps the  *)
(* stored one.  What is stored is the input, which Reload decodes afresh,  *)
(* to v; the check decodes it over the section in memory, so that a field  *)
(* it leaves out has the value there.                                      *)
Update(r, section, f, v, checked, typed) ==
  LET new == [cache EXCEPT ![f] = v, !.secret = StoredSecret(typed)] IN
  /\ cache' = InPlace(f, v)
  /\ IF Valid([cache EXCEPT ![f] = checked])
     THEN /\ Arrive(r, [Idle EXCEPT !.pc = "upsert", !.kind = "update", !.sections = {section}, !.new = new,
                          !.touched = {f} \union (IF typed = None THEN {} ELSE {"secret"}),
                          !.base = cache, !.typed = typed, !.omitted = checked # v])
          /\ clean' = clean
     ELSE /\ Arrive(r, Idle) /\ clean' = (clean /\ f # "general")
  /\ UNCHANGED <<stored, seeded>>

(* applyUpdateToConfig starts anew for OIDC and SMTP: a section without    *)
(* "enabled" is off for the check, too.                                    *)
UpdateSection(r) ==
  \/ \E v \in Domains \union {None} : Update(r, "general", "general", v, v, None)
  \/ \E v \in Providers \union {None}, typed \in Secrets \union {None, Mask} : Update(r, "oidc", "oidc", v, v, typed)
  \/ \E v \in BOOLEAN : Update(r, "magiclink", "magic", v, v, None) \/ Update(r, "smtp", "smtp", v, v, None)
  \/ Update(r, "magiclink", "magic", FALSE, cache.magic, None)

(* validateSection: an unknown section, input that does not decode, or a   *)
(* provider without its URLs.                                              *)
RefuseSection(r) ==
  /\ Arrive(r, Idle)
  /\ UNCHANGED <<stored, seeded, cache, clean>>

(* HandleGetSettings reloads, and shows the secrets masked. *)
GetSettings(r) ==
  /\ Arrive(r, [Idle EXCEPT !.pc = "read", !.kind = "load"])
  /\ UNCHANGED <<stored, seeded, cache, clean>>

(* ResetFromENV: DELETE, then the seeds. *)
Reset(r) ==
  /\ Arrive(r, Seeds)
  /\ UNCHANGED <<stored, seeded, cache, clean>>

(* MarkSeeded, after the seeds, has a connection of its own: the mark      *)
(* stays if the seeds are lost.                                            *)
MarkSeeded(p) == seeded' = (seeded \/ req[p].kind = "seed")

(* Mutant: the update does not reload. *)
UpsertOnly(p) ==
  /\ req[p].pc = "upsert" /\ ~Blocked(p)
  /\ req' = [req EXCEPT ![p].pc = "commit"]
  /\ MarkSeeded(p)
  /\ UNCHANGED <<stored, cache, ops, clean>>

(* upsertSection waits for another transaction on the row. *)
Upsert(p) ==
  /\ req[p].pc = "upsert" /\ ~Blocked(p)
  /\ req' = [req EXCEPT ![p].pc = "read"]
  /\ MarkSeeded(p)
  /\ UNCHANGED <<stored, cache, ops, clean>>

(* Reload reads the committed rows and those of its own transaction... *)
ReadRows(p) ==
  /\ req[p].pc = "read"
  /\ req' = [req EXCEPT ![p].pc = "store", ![p].view = Merge(stored, req[p].new, req[p].touched)]
  /\ UNCHANGED <<stored, seeded, cache, ops, clean>>

(* ... and swaps the copy. *)
StoreCache(p) ==
  /\ req[p].pc = "store"
  /\ cache' = req[p].view
  /\ req' = [req EXCEPT ![p].pc = "commit"]
  /\ UNCHANGED <<stored, seeded, ops, clean>>

Commit(p) ==
  /\ req[p].pc = "commit"
  /\ stored' = Merge(stored, req[p].new, req[p].touched)
  /\ clean' = req[p].alone
  /\ req' = [req EXCEPT ![p] = Idle]
  /\ UNCHANGED <<seeded, cache, ops>>

(* The transaction is lost; what it stored in memory stays.  At start this *)
(* is only warned about.                                                   *)
Lose(p) ==
  /\ req[p].pc \in {"upsert", "read", "store", "commit"}
  /\ req' = [req EXCEPT ![p] = Idle]
  /\ clean' = FALSE
  /\ UNCHANGED <<stored, seeded, cache, ops>>

(* The process dies and is started again. *)
Restart ==
  /\ ops < MaxOps /\ ops' = ops + 1
  /\ req' = [p \in Procs |-> IF p = Main THEN [Idle EXCEPT !.pc = "boot"] ELSE Idle]
  /\ cache' = Empty /\ clean' = FALSE
  /\ UNCHANGED <<stored, seeded>>

ConfigStep ==
  \/ Initialize
  \/ \E r \in Requests : UpdateSection(r) \/ RefuseSection(r) \/ GetSettings(r) \/ Reset(r)
  \/ \E p \in Procs : Upsert(p) \/ ReadRows(p) \/ StoreCache(p) \/ Commit(p) \/ Lose(p)

-----------------------------------------------------------------------------
Committing(p) == req[p].pc = "commit" /\ req'[p] = Idle
Usable(c) == (c.oidc # None \/ c.magic) /\ (c.magic => c.smtp)

(* Transactions that may lock everybody out: seeds, which nothing checks   *)
(* (the environment may enable magic links with a mail host and no         *)
(* sender), and updates checked against a copy in memory that is not what  *)
(* is stored when they commit.                                             *)
Unchecked(p) ==
  \/ req[p].kind = "seed" /\ ~Usable(Env)
  \/ req[p].kind = "update" /\ \E f \in {"oidc", "magic", "smtp"} : req[p].base[f] # stored[f]

(* "at least one authentication method must be enabled": settings from     *)
(* which users can sign in stay such, when they were checked against what  *)
(* is stored.  Input that leaves out a field breaks it.                    *)
AuthMethodRemains ==
  [][Usable(stored) /\ ~Usable(stored') =>
       DisableAuthMethodCheck \/ \E p \in Procs : Committing(p) /\ Unchecked(p)]_configVars

(* Nothing else breaks it: the other sections may change meanwhile, copies *)
(* be swapped and transactions lost, an update that names its field and is *)
(* checked against what is stored leaves a way to sign in, with SMTP for   *)
(* magic links.                                                            *)
KeepsAuthMethod ==
  [][Usable(stored) /\ ~Usable(stored') =>
       DisableAuthMethodCheck \/ \E p \in Procs : Committing(p) /\ (Unchecked(p) \/ req[p].omitted)]_configVars

(* processSecrets and COALESCE: the mask that stands for a secret in the   *)
(* forms is never stored, and a secret nobody typed anew survives every    *)
(* update, unless the copy in memory had another one.                      *)
SecretsSurvive ==
  [][stored'.secret # stored.secret =>
       /\ stored'.secret # Mask
       /\ \E p \in Procs : Committing(p) /\
            \/ req[p].kind = "seed"
            \/ req[p].typed = stored'.secret
            \/ req[p].typed = Mask /\ req[p].base.secret # stored.secret]_configVars

(* UpdateSection, "hot-reload": when nothing is in progress the copy in    *)
(* memory is what is stored, if the last reload ran alone, and no request  *)
(* since was lost or refused after it had changed the copy.                *)
CacheIsCurrent ==
  clean /\ (\A p \in Procs : req[p].pc = "idle") => cache = stored
=============================================================================
