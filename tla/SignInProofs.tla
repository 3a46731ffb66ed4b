----------------------------- MODULE SignInProofs -----------------------------
(***************************************************************************)
(* Proofs about SignIn and the settings under it, TenantConfig.            *)
(***************************************************************************)
EXTENDS SignIn, TLAPS

(* What a transaction that writes was asked, and what it was checked       *)
(* against.                                                                *)
Checked(t) ==
  /\ DisableAuthMethodCheck \/ t.omitted \/ Usable(Merge(t.base, t.new, t.touched))
  /\ "secret" \in t.touched <=> t.typed # None
  /\ t.new.secret = IF t.typed = Mask THEN t.base.secret ELSE t.typed

Asked(t) ==
  /\ t.pc \notin {"idle", "boot"} => t.kind # "none"
  /\ t.kind = "seed" => t.new = Env /\ t.touched = Fields
  /\ t.kind = "load" => t.touched = {}
  /\ t.kind = "update" => Checked(t)

Asking == \A p \in Procs : Asked(req[p])

(* A transaction that has been alone reloads what it will have stored.     *)
Alone(p) ==
  /\ \A q \in Procs \ {p} : req[q].pc = "idle"
  /\ req[p].pc = "store" => req[p].view = Merge(stored, req[p].new, req[p].touched)
  /\ req[p].pc = "commit" => cache = Merge(stored, req[p].new, req[p].touched)

Reloading ==
  /\ req[Main].pc # "idle" => \A r \in Requests : req[r].pc = "idle"
  /\ \A p \in Procs : req[p].pc # "idle" /\ req[p].alone => Alone(p)
  /\ CacheIsCurrent

(* A browser that knows of a flow has started it.                          *)
Knows(b, f) ==
  f \in {cookie[b].state, cookie[b].user, visit[b].flow, visit[b].sent.state, visit[b].sent.user}

Owning ==
  /\ \A b \in Browsers, f \in Flows : Knows(b, f) => flow[f].by = b /\ (flow[f].left => overlap[b])
  /\ \A f \in Flows : flow[f].by = None => ~flow[f].left
  /\ \A b \in Browsers : visit[b].pc = "idle" =>
       visit[b].flow = None /\ visit[b].sent.state = None /\ visit[b].sent.user = None

IInv == SignInTypeOK /\ Asking /\ Reloading /\ Owning

-----------------------------------------------------------------------------
(* Settings, section by section. *)
LEMMA MergeConfig ==
  ASSUME NEW c \in Config, NEW new \in Config, NEW touched \in SUBSET Fields
  PROVE  /\ Merge(c, new, touched) \in Config
         /\ Merge(c, new, touched).oidc = IF "oidc" \in touched THEN new.oidc ELSE c.oidc
         /\ Merge(c, new, touched).magic = IF "magic" \in touched THEN new.magic ELSE c.magic
         /\ Merge(c, new, touched).smtp = IF "smtp" \in touched THEN new.smtp ELSE c.smtp
         /\ Merge(c, new, touched).secret = IF "secret" \in touched THEN new.secret ELSE c.secret
BY DEF Merge, Config, Fields

LEMMA IdleTransaction ==
  /\ Empty \in Config /\ Idle \in Transaction
  /\ Idle.pc = "idle" /\ Idle.kind = "none" /\ Idle.alone = FALSE
BY DEF Empty, Config, Idle, Transaction, Sections, Fields

(* The values of a section that UpdateSection takes. *)
Values(f) == CASE f = "general" -> Domains \union {None} [] f = "oidc" -> Providers \union {None} [] OTHER -> BOOLEAN

(* m is c with another value of f, and n has another secret as well.       *)
IsChanged(c, f, v, s, m, n) == m = [c EXCEPT ![f] = v] /\ n = [c EXCEPT ![f] = v, !.secret = s]

ChangesOnly(c, f, s, m, n) ==
  /\ m.oidc = n.oidc /\ m.magic = n.magic /\ m.smtp = n.smtp /\ n.secret = s
  /\ f # "oidc" => m.oidc = c.oidc
  /\ f # "magic" => m.magic = c.magic
  /\ f # "smtp" => m.smtp = c.smtp

LEMMA ChangedConfig ==
  ASSUME NEW c \in Config, NEW f \in {"general", "oidc", "magic", "smtp"}, NEW v \in Values(f),
         NEW s \in Secrets \union {None}
  PROVE  \E m \in Config, n \in Config :
           IsChanged(c, f, v, s, m, n) /\ ChangesOnly(c, f, s, m, n)
<1>1. CASE f = "general"
  <2> DEFINE m == [c EXCEPT !.general = v]  n == [c EXCEPT !.general = v, !.secret = s]
  <2>1. v \in Domains \union {None}
    BY <1>1 DEF Values
  <2>2. /\ m \in Config /\ n \in Config
        /\ m.oidc = n.oidc /\ m.magic = n.magic /\ m.smtp = n.smtp /\ n.secret = s
        /\ m.oidc = c.oidc /\ m.magic = c.magic /\ m.smtp = c.smtp
    BY <2>1 DEF Config
  <2>3. IsChanged(c, f, v, s, m, n)
    BY <1>1 DEF IsChanged
  <2> HIDE DEF m, n
  <2>4. QED
    BY <1>1, <2>2, <2>3 DEF ChangesOnly
<1>2. CASE f = "oidc"
  <2> DEFINE m == [c EXCEPT !.oidc = v]  n == [c EXCEPT !.oidc = v, !.secret = s]
  <2>1. v \in Providers \union {None}
    BY <1>2 DEF Values
  <2>2. /\ m \in Config /\ n \in Config
        /\ m.oidc = n.oidc /\ m.magic = n.magic /\ m.smtp = n.smtp /\ n.secret = s
        /\ m.magic = c.magic /\ m.smtp = c.smtp
    BY <2>1 DEF Config
  <2>3. IsChanged(c, f, v, s, m, n)
    BY <1>2 DEF IsChanged
  <2> HIDE DEF m, n
  <2>4. QED
    BY <1>2, <2>2, <2>3 DEF ChangesOnly
<1>3. CASE f = "magic"
  <2> DEFINE m == [c EXCEPT !.magic = v]  n == [c EXCEPT !.magic = v, !.secret = s]
  <2>1. v \in BOOLEAN
    BY <1>3 DEF Values
  <2>2. /\ m \in Config /\ n \in Config
        /\ m.oidc = n.oidc /\ m.magic = n.magic /\ m.smtp = n.smtp /\ n.secret = s
        /\ m.oidc = c.oidc /\ m.smtp = c.smtp
    BY <2>1 DEF Config
  <2>3. IsChanged(c, f, v, s, m, n)
    BY <1>3 DEF IsChanged
  <2> HIDE DEF m, n
  <2>4. QED
    BY <1>3, <2>2, <2>3 DEF ChangesOnly
<1>4. CASE f = "smtp"
  <2> DEFINE m == [c EXCEPT !.smtp = v]  n == [c EXCEPT !.smtp = v, !.secret = s]
  <2>1. v \in BOOLEAN
    BY <1>4 DEF Values
  <2>2. /\ m \in Config /\ n \in Config
        /\ m.oidc = n.oidc /\ m.magic = n.magic /\ m.smtp = n.smtp /\ n.secret = s
        /\ m.oidc = c.oidc /\ m.magic = c.magic
    BY <2>1 DEF Config
  <2>3. IsChanged(c, f, v, s, m, n)
    BY <1>4 DEF IsChanged
  <2> HIDE DEF m, n
  <2>4. QED
    BY <1>4, <2>2, <2>3 DEF ChangesOnly
<1>5. QED
  BY <1>1, <1>2, <1>3, <1>4

-----------------------------------------------------------------------------
(* What the actions make of the transactions. *)
Same(t, u) ==
  /\ t.new = u.new /\ t.touched = u.touched /\ t.kind = u.kind /\ t.base = u.base /\ t.typed = u.typed
  /\ t.omitted = u.omitted

LEMMA ArriveTurn ==
  ASSUME TypeOK, NEW r \in Requests, NEW t \in Transaction, Arrive(r, t)
  PROVE  /\ req' \in [Procs -> Transaction] /\ ops' \in 0..MaxOps
         /\ req[Main].pc = "idle" /\ req[r].pc = "idle"
         /\ req'[r].pc = t.pc /\ Same(req'[r], t)
         /\ req'[r].alone => \A p \in Procs : req[p].pc = "idle"
         /\ \A p \in Procs \ {r} : req'[p].pc = req[p].pc /\ req'[p].alone = FALSE /\ Same(req'[p], req[p])
<1>1. r \in Procs
  BY DEF Procs
<1> DEFINE a == \A o \in Procs : req[o].pc = "idle"
<1>2. PICK u \in Transaction :
        /\ u = [t EXCEPT !.alone = a] /\ u.pc = t.pc /\ u.alone = a /\ Same(u, t)
  <2>1. PICK v \in BOOLEAN : v = a
    OBVIOUS
  <2> DEFINE x == [t EXCEPT !.alone = v]
  <2>2. x \in Transaction /\ x.pc = t.pc /\ x.alone = v /\ Same(x, t)
    BY DEF Transaction, Same
  <2>3. QED
    BY <2>1, <2>2
<1>3. req'[r] = u
  BY <1>1, <1>2 DEF Arrive
<1>4. ASSUME NEW p \in Procs, p # r
      PROVE  req'[p] \in Transaction /\ req'[p].pc = req[p].pc /\ req'[p].alone = FALSE /\ Same(req'[p], req[p])
  <2>1. PICK w \in Transaction : w = req[p]
    BY DEF TypeOK
  <2> DEFINE x == [w EXCEPT !.alone = FALSE]
  <2>2. x \in Transaction /\ x.pc = w.pc /\ x.alone = FALSE /\ Same(x, w)
    BY DEF Transaction, Same
  <2>3. req'[p] = x
    BY <1>4, <2>1 DEF Arrive
  <2> HIDE DEF x
  <2>4. QED
    BY <2>1, <2>2, <2>3
<1>5. req' = [p \in Procs |-> req'[p]]
  BY DEF Arrive
<1>6. req' \in [Procs -> Transaction]
  BY <1>2, <1>3, <1>4, <1>5
<1>7. ops' \in 0..MaxOps
  BY TenantConfigConstants DEF Arrive, TypeOK
<1>8. QED
  BY <1>2, <1>3, <1>4, <1>6, <1>7 DEF Arrive

(* What an update asks: its field, the value stored, the one checked.      *)
IsUpdate(r, section, f, v, checked, typed) ==
  (checked = v \/ f = "magic") /\ Update(r, section, f, v, checked, typed)

LEMMA UpdateForms ==
  ASSUME TypeOK, NEW r \in Requests, UpdateSection(r)
  PROVE  \E section \in Sections, f \in {"general", "oidc", "magic", "smtp"} :
         \E v \in Values(f), checked \in Values(f), typed \in Secrets \union {None, Mask} :
           IsUpdate(r, section, f, v, checked, typed)
<1>1. ASSUME NEW section \in Sections, NEW f \in {"general", "oidc", "magic", "smtp"}, NEW v \in Values(f),
             NEW typed \in Secrets \union {None, Mask}, Update(r, section, f, v, v, typed)
      PROVE  IsUpdate(r, section, f, v, v, typed)
  BY <1>1 DEF IsUpdate
<1>2. CASE Update(r, "magiclink", "magic", FALSE, cache.magic, None)
  <2>1. FALSE \in Values("magic") /\ cache.magic \in Values("magic")
    BY DEF Values, TypeOK, Config
  <2>2. IsUpdate(r, "magiclink", "magic", FALSE, cache.magic, None)
    BY <1>2 DEF IsUpdate
  <2>3. QED
    BY <2>1, <2>2 DEF Sections
<1>3. CASE \E v \in Domains \union {None} : Update(r, "general", "general", v, v, None)
  BY <1>1, <1>3 DEF Values, Sections
<1>4. CASE \E v \in Providers \union {None}, typed \in Secrets \union {None, Mask} : Update(r, "oidc", "oidc", v, v, typed)
  BY <1>1, <1>4 DEF Values, Sections
<1>5. CASE \E v \in BOOLEAN : Update(r, "magiclink", "magic", v, v, None) \/ Update(r, "smtp", "smtp", v, v, None)
  BY <1>1, <1>5 DEF Values, Sections
<1>6. QED
  BY <1>2, <1>3, <1>4, <1>5 DEF UpdateSection

LEMMA UpdateArrives ==
  ASSUME TypeOK, NEW r \in Requests, UpdateSection(r)
  PROVE  \E t \in Transaction :
           /\ Arrive(r, t) /\ Asked(t) /\ t.pc \in {"idle", "upsert"}
           /\ cache' \in Config /\ UNCHANGED <<stored, seeded>>
           /\ t.pc = "upsert" => clean' = clean
           /\ t.pc = "idle" => clean' \in BOOLEAN /\ (clean' => clean /\ cache' = cache)
<1>1. PICK section \in Sections, f \in {"general", "oidc", "magic", "smtp"} :
        \E v \in Values(f), checked \in Values(f), typed \in Secrets \union {None, Mask} :
          IsUpdate(r, section, f, v, checked, typed)
  BY UpdateForms
<1>0. PICK v \in Values(f), checked \in Values(f), typed \in Secrets \union {None, Mask} :
        (checked = v \/ f = "magic") /\ Update(r, section, f, v, checked, typed)
  BY <1>1 DEF IsUpdate
<1>2. PICK s \in Secrets \union {None} : s = StoredSecret(typed) /\ s = IF typed = Mask THEN cache.secret ELSE typed
  BY DEF StoredSecret, TypeOK, Config
<1>3. PICK c \in Config : c = cache
  BY DEF TypeOK
<1>4. PICK m \in Config, n \in Config : IsChanged(c, f, v, s, m, n) /\ ChangesOnly(c, f, s, m, n)
  BY ChangedConfig
<1>9. PICK k \in Config, l \in Config : IsChanged(c, f, checked, s, k, l)
  BY ChangedConfig
<1>5. cache' \in Config /\ (f # "general" => cache' = cache)
  <2>1. CASE f = "general" /\ None \notin {v, cache.general}
    <3>1. v \in Domains \union {None}
      BY <2>1 DEF Values
    <3>2. [c EXCEPT !.general = v] \in Config
      BY <3>1 DEF Config
    <3>3. QED
      BY <1>0, <1>3, <2>1, <3>2 DEF Update, InPlace
  <2>2. CASE ~(f = "general" /\ None \notin {v, cache.general})
    BY <1>0, <2>2 DEF Update, InPlace, TypeOK
  <2>3. QED
    BY <2>1, <2>2
<1>6. CASE Valid(k)
  <2>1. PICK u \in SUBSET Fields : u = {f} \union (IF typed = None THEN {} ELSE {"secret"})
    BY DEF Fields
  <2>6. PICK w \in BOOLEAN : w = (checked # v)
    OBVIOUS
  <2>2. PICK t \in Transaction :
          /\ t = [Idle EXCEPT !.pc = "upsert", !.kind = "update", !.sections = {section}, !.new = n,
                    !.touched = u, !.base = c, !.typed = typed, !.omitted = w]
          /\ t.pc = "upsert" /\ t.kind = "update" /\ t.new = n /\ t.touched = u /\ t.base = c /\ t.typed = typed
          /\ t.omitted = w
    <3> DEFINE x == [Idle EXCEPT !.pc = "upsert", !.kind = "update", !.sections = {section}, !.new = n,
                       !.touched = u, !.base = c, !.typed = typed, !.omitted = w]
    <3>1. x \in Transaction
      BY IdleTransaction DEF Idle, Transaction
    <3>2. x.pc = "upsert" /\ x.kind = "update" /\ x.new = n /\ x.touched = u /\ x.base = c /\ x.typed = typed
          /\ x.omitted = w
      BY DEF Idle
    <3> HIDE DEF x
    <3>3. QED
      BY <3>1, <3>2 DEF x
  <2>3. Arrive(r, t) /\ clean' = clean
    <3>1. Valid([cache EXCEPT ![f] = checked])
      BY <1>3, <1>9, <1>6 DEF IsChanged
    <3>2. n = [cache EXCEPT ![f] = v, !.secret = StoredSecret(typed)]
      BY <1>2, <1>3, <1>4 DEF IsChanged
    <3>3. QED
      BY <1>0, <1>3, <2>1, <2>2, <2>6, <3>1, <3>2 DEF Update
  <2>4. Checked(t)
    <3>1. DisableAuthMethodCheck \/ w \/ Usable(Merge(c, n, u))
      <4>1. /\ Merge(c, n, u).oidc = m.oidc
            /\ Merge(c, n, u).magic = m.magic
            /\ Merge(c, n, u).smtp = m.smtp
        BY <1>4, <2>1, MergeConfig DEF ChangesOnly
      <4>2. ~w => m = k
        BY <1>4, <1>9, <2>6 DEF IsChanged
      <4>3. QED
        BY <1>6, <4>1, <4>2 DEF Valid, HasAuthMethod, MagicLinkHasSMTP, Usable
    <3>2. "secret" \in u <=> typed # None
      BY <2>1
    <3>3. n.secret = IF typed = Mask THEN c.secret ELSE typed
      BY <1>2, <1>3, <1>4 DEF ChangesOnly
    <3>4. QED
      BY <2>2, <3>1, <3>2, <3>3 DEF Checked
  <2>5. QED
    BY <1>0, <1>5, <2>2, <2>3, <2>4 DEF Asked, Update
<1>7. CASE ~Valid(k)
  <2>1. ~Valid([cache EXCEPT ![f] = checked])
    BY <1>3, <1>9, <1>7 DEF IsChanged
  <2>2. Arrive(r, Idle) /\ clean' = (clean /\ f # "general")
    BY <1>0, <2>1 DEF Update
  <2>3. Asked(Idle)
    BY IdleTransaction DEF Asked
  <2>4. QED
    BY <1>0, <1>5, <2>2, <2>3, IdleTransaction DEF Update, TypeOK
<1>8. QED
  BY <1>6, <1>7

(* RefuseSection, GetSettings and Reset. *)
LEMMA OthersArrive ==
  ASSUME TypeOK, NEW r \in Requests, RefuseSection(r) \/ GetSettings(r) \/ Reset(r)
  PROVE  \E t \in Transaction :
           /\ Arrive(r, t) /\ Asked(t) /\ t.pc \in {"idle", "read", "upsert"}
           /\ UNCHANGED <<stored, seeded, cache, clean>>
<1>1. CASE GetSettings(r)
  <2> DEFINE x == [Idle EXCEPT !.pc = "read", !.kind = "load"]
  <2>1. x \in Transaction /\ x.pc = "read" /\ x.kind = "load" /\ x.touched = {}
    BY IdleTransaction DEF Idle, Transaction
  <2>2. Arrive(r, x) /\ UNCHANGED <<stored, seeded, cache, clean>>
    BY <1>1 DEF GetSettings
  <2> HIDE DEF x
  <2>3. QED
    BY <2>1, <2>2 DEF Asked
<1>2. CASE Reset(r)
  <2>1. Seeds \in Transaction /\ Seeds.pc = "upsert" /\ Seeds.kind = "seed" /\ Seeds.new = Env /\ Seeds.touched = Fields
    BY IdleTransaction, TenantConfigConstants DEF Idle, Transaction, Seeds
  <2>2. QED
    BY <1>2, <2>1 DEF Asked, Reset
<1>3. CASE RefuseSection(r)
  BY <1>3, IdleTransaction DEF Asked, RefuseSection
<1>4. QED
  BY <1>1, <1>2, <1>3

(* A transaction goes on by one step. *)
LEMMA MovesTurn ==
  ASSUME TypeOK, NEW p \in Procs, Upsert(p) \/ ReadRows(p) \/ StoreCache(p)
  PROVE  /\ req' \in [Procs -> Transaction]
         /\ Same(req'[p], req[p]) /\ req'[p].alone = req[p].alone
         /\ \A q \in Procs \ {p} : req'[q] = req[q]
         /\ Upsert(p) => req[p].pc = "upsert" /\ req'[p].pc = "read"
         /\ ReadRows(p) => req[p].pc = "read" /\ req'[p].pc = "store"
                           /\ req'[p].view = Merge(stored, req[p].new, req[p].touched)
         /\ StoreCache(p) => req[p].pc = "store" /\ req'[p].pc = "commit" /\ req'[p].view = req[p].view
<1>1. PICK w \in Transaction : w = req[p]
  BY DEF TypeOK
<1>2. CASE ReadRows(p)
  <2>1. PICK c \in Config : c = Merge(stored, w.new, w.touched)
    BY MergeConfig DEF TypeOK, Transaction
  <2> DEFINE x == [w EXCEPT !.pc = "store", !.view = c]
  <2>2. x \in Transaction /\ x.pc = "store" /\ x.view = c /\ Same(x, w) /\ x.alone = w.alone
    BY DEF Transaction, Same
  <2>3. req' = [req EXCEPT ![p] = x]
    BY <1>1, <1>2, <2>1 DEF ReadRows
  <2> HIDE DEF x
  <2>4. req' \in [Procs -> Transaction] /\ req'[p] = x /\ \A q \in Procs \ {p} : req'[q] = req[q]
    BY <2>2, <2>3 DEF TypeOK
  <2>5. QED
    BY <1>1, <1>2, <2>1, <2>2, <2>4 DEF ReadRows, Upsert, StoreCache
<1>3. ASSUME NEW s \in {"read", "commit"}, req' = [req EXCEPT ![p].pc = s]
      PROVE  /\ req' \in [Procs -> Transaction]
             /\ Same(req'[p], req[p]) /\ req'[p].alone = req[p].alone
             /\ \A q \in Procs \ {p} : req'[q] = req[q]
             /\ req'[p].pc = s /\ req'[p].view = req[p].view
  <2> DEFINE x == [w EXCEPT !.pc = s]
  <2>1. x \in Transaction /\ x.pc = s /\ x.view = w.view /\ Same(x, w) /\ x.alone = w.alone
    BY DEF Transaction, Same
  <2>2. req' = [req EXCEPT ![p] = x]
    BY <1>1, <1>3
  <2> HIDE DEF x
  <2>3. req' \in [Procs -> Transaction] /\ req'[p] = x /\ \A q \in Procs \ {p} : req'[q] = req[q]
    BY <2>1, <2>2 DEF TypeOK
  <2>4. QED
    BY <1>1, <2>1, <2>3
<1>4. CASE Upsert(p)
  BY <1>3, <1>4 DEF Upsert, ReadRows, StoreCache
<1>5. CASE StoreCache(p)
  BY <1>3, <1>5 DEF Upsert, ReadRows, StoreCache
<1>6. QED
  BY <1>2, <1>4, <1>5

LEMMA IdleTurn ==
  ASSUME TypeOK, NEW p \in Procs, req' = [req EXCEPT ![p] = Idle]
  PROVE  /\ req' \in [Procs -> Transaction] /\ req'[p] = Idle /\ \A q \in Procs \ {p} : req'[q] = req[q]
BY IdleTransaction DEF TypeOK

LEMMA InitializeTurn ==
  ASSUME TypeOK, Initialize
  PROVE  \E t \in Transaction :
           /\ req' = [req EXCEPT ![Main] = t] /\ Asked(t) /\ t.pc \in {"read", "upsert"}
<1>1. CASE seeded
  <2> DEFINE x == [Idle EXCEPT !.pc = "read", !.kind = "load", !.alone = TRUE]
  <2>1. x \in Transaction /\ x.pc = "read" /\ x.kind = "load" /\ x.touched = {}
    BY IdleTransaction DEF Idle, Transaction
  <2>2. req' = [req EXCEPT ![Main] = x]
    BY <1>1 DEF Initialize
  <2> HIDE DEF x
  <2>3. QED
    BY <2>1, <2>2 DEF Asked
<1>2. CASE ~seeded
  <2> DEFINE x == [Seeds EXCEPT !.alone = TRUE]
  <2>1. x \in Transaction /\ x.pc = "upsert" /\ x.kind = "seed" /\ x.new = Env /\ x.touched = Fields
    BY IdleTransaction, TenantConfigConstants DEF Idle, Transaction, Seeds
  <2>2. req' = [req EXCEPT ![Main] = x]
    BY <1>2 DEF Initialize
  <2> HIDE DEF x
  <2>3. QED
    BY <2>1, <2>2 DEF Asked
<1>3. QED
  BY <1>1, <1>2

(* The server starts. *)
LEMMA BootTurn ==
  ASSUME req' = [p \in Procs |-> IF p = Main THEN [Idle EXCEPT !.pc = "boot"] ELSE Idle]
  PROVE  /\ req' \in [Procs -> Transaction]
         /\ req'[Main].pc = "boot" /\ req'[Main].kind = "none" /\ req'[Main].alone = FALSE
         /\ \A r \in Requests : req'[r] = Idle
<1> DEFINE x == [Idle EXCEPT !.pc = "boot"]
<1>1. x \in Transaction /\ x.pc = "boot" /\ x.kind = "none" /\ x.alone = FALSE
  BY IdleTransaction DEF Idle, Transaction
<1>2. req' = [p \in Procs |-> IF p = Main THEN x ELSE Idle]
  OBVIOUS
<1> HIDE DEF x
<1>3. QED
  BY <1>1, <1>2, IdleTransaction, TenantConfigConstants DEF Procs

-----------------------------------------------------------------------------
(* The settings, step by step. *)
ConfigInv == TypeOK /\ Asking /\ Reloading

LEMMA SameAsked ==
  ASSUME NEW t, NEW u, Same(t, u), Asked(u), t.pc \in {"idle", "boot"} \/ u.pc \notin {"idle", "boot"}
  PROVE  Asked(t)
BY DEF Same, Asked, Checked

LEMMA ArriveKeeps ==
  ASSUME ConfigInv, NEW r \in Requests, NEW t \in Transaction, Arrive(r, t), Asked(t),
         t.pc \in {"idle", "read", "upsert"}, UNCHANGED <<stored, seeded>>, cache' \in Config, clean' \in BOOLEAN,
         t.pc = "idle" => (clean' => clean /\ cache' = cache)
  PROVE  ConfigInv'
<1>1. /\ req' \in [Procs -> Transaction] /\ ops' \in 0..MaxOps
      /\ req[Main].pc = "idle" /\ req[r].pc = "idle"
      /\ req'[r].pc = t.pc /\ Same(req'[r], t)
      /\ req'[r].alone => \A p \in Procs : req[p].pc = "idle"
      /\ \A p \in Procs \ {r} : req'[p].pc = req[p].pc /\ req'[p].alone = FALSE /\ Same(req'[p], req[p])
  BY ArriveTurn DEF ConfigInv
<1>2. r \in Procs /\ Main \in Procs /\ Main # r
  BY TenantConfigConstants DEF Procs
<1>3. TypeOK'
  BY <1>1 DEF TypeOK, ConfigInv
<1>4. Asking'
  <2> SUFFICES ASSUME NEW p \in Procs PROVE Asked(req'[p])
    BY DEF Asking
  <2>1. CASE p = r
    BY <1>1, <2>1, SameAsked
  <2>2. CASE p # r
    <3>1. Asked(req[p]) /\ req'[p].pc = req[p].pc /\ Same(req'[p], req[p])
      BY <1>1, <2>2 DEF ConfigInv, Asking
    <3>2. QED
      BY <3>1, SameAsked
  <2>3. QED
    BY <2>1, <2>2
<1>5. ASSUME NEW p \in Procs, req'[p].pc # "idle", req'[p].alone
      PROVE  Alone(p)'
  <2>1. p = r
    BY <1>1, <1>5
  <2>2. \A q \in Procs \ {p} : req'[q].pc = "idle"
    BY <1>1, <1>5, <2>1
  <2>3. req'[p].pc \notin {"store", "commit"}
    BY <1>1, <2>1
  <2>4. QED
    BY <2>2, <2>3 DEF Alone
<1>6. CacheIsCurrent'
  <2> SUFFICES ASSUME clean', \A p \in Procs : req'[p].pc = "idle" PROVE cache' = stored'
    BY DEF CacheIsCurrent
  <2>1. \A p \in Procs : req[p].pc = "idle"
    BY <1>1
  <2>2. clean /\ cache' = cache
    BY <1>1, <1>2
  <2>3. QED
    BY <2>1, <2>2 DEF ConfigInv, Reloading, CacheIsCurrent
<1>7. req'[Main].pc = "idle"
  BY <1>1, <1>2
<1>8. QED
  BY <1>3, <1>4, <1>5, <1>6, <1>7 DEF ConfigInv, Reloading

LEMMA MovesKeeps ==
  ASSUME ConfigInv, NEW p \in Procs, Upsert(p) \/ ReadRows(p) \/ StoreCache(p)
  PROVE  ConfigInv'
<1>1. /\ req' \in [Procs -> Transaction]
      /\ Same(req'[p], req[p]) /\ req'[p].alone = req[p].alone
      /\ \A q \in Procs \ {p} : req'[q] = req[q]
      /\ Upsert(p) => req[p].pc = "upsert" /\ req'[p].pc = "read"
      /\ ReadRows(p) => req[p].pc = "read" /\ req'[p].pc = "store"
                        /\ req'[p].view = Merge(stored, req[p].new, req[p].touched)
      /\ StoreCache(p) => req[p].pc = "store" /\ req'[p].pc = "commit" /\ req'[p].view = req[p].view
  BY MovesTurn DEF ConfigInv
<1>2. /\ stored' = stored /\ ops' = ops /\ clean' = clean /\ seeded' \in BOOLEAN
      /\ cache' = IF StoreCache(p) THEN req[p].view ELSE cache
  BY <1>1 DEF Upsert, ReadRows, StoreCache, MarkSeeded, ConfigInv, TypeOK
<1>3. cache' \in Config
  BY <1>2 DEF ConfigInv, TypeOK, Transaction
<1>4. TypeOK'
  BY <1>1, <1>2, <1>3 DEF TypeOK, ConfigInv
<1>5. Asking'
  <2> SUFFICES ASSUME NEW q \in Procs PROVE Asked(req'[q])
    BY DEF Asking
  <2>1. CASE q = p
    <3>1. Asked(req[p]) /\ req[p].pc \notin {"idle", "boot"}
      BY <1>1 DEF ConfigInv, Asking
    <3>2. QED
      BY <1>1, <2>1, <3>1, SameAsked
  <2>2. CASE q # p
    BY <1>1, <2>2 DEF ConfigInv, Asking
  <2>3. QED
    BY <2>1, <2>2
<1>6. ASSUME NEW q \in Procs, req'[q].pc # "idle", req'[q].alone
      PROVE  Alone(q)'
  <2>1. req[q].pc # "idle" /\ req[q].alone
    BY <1>1, <1>6
  <2>2. Alone(q)
    BY <2>1 DEF ConfigInv, Reloading
  <2>3. q = p
    BY <1>1, <2>2 DEF Alone
  <2>4. \A o \in Procs \ {q} : req'[o].pc = "idle"
    BY <1>1, <2>2, <2>3 DEF Alone
  <2>5. req'[q].pc = "store" => req'[q].view = Merge(stored', req'[q].new, req'[q].touched)
    BY <1>1, <1>2, <2>3 DEF Same
  <2>6. req'[q].pc = "commit" => cache' = Merge(stored', req'[q].new, req'[q].touched)
    BY <1>1, <1>2, <2>2, <2>3 DEF Same, Alone
  <2>7. QED
    BY <2>4, <2>5, <2>6 DEF Alone
<1>7. CacheIsCurrent'
  BY <1>1 DEF CacheIsCurrent
<1>8. req'[Main].pc # "idle" => \A r \in Requests : req'[r].pc = "idle"
  <2>1. Main \in Procs /\ \A r \in Requests : r \in Procs /\ r # Main
    BY TenantConfigConstants DEF Procs
  <2>2. \A q \in Procs : req'[q].pc = "idle" <=> req[q].pc = "idle"
    BY <1>1
  <2>3. QED
    BY <2>1, <2>2 DEF ConfigInv, Reloading
<1>9. QED
  BY <1>4, <1>5, <1>6, <1>7, <1>8 DEF ConfigInv, Reloading

(* A transaction ends, and leaves what it has done. *)
LEMMA EndKeeps ==
  ASSUME ConfigInv, NEW p \in Procs, req' = [req EXCEPT ![p] = Idle], req[p].pc \notin {"idle", "boot"},
         UNCHANGED <<seeded, cache, ops>>, stored' \in Config, clean' \in BOOLEAN,
         clean' => req[p].alone /\ stored' = cache
  PROVE  ConfigInv'
<1>1. req' \in [Procs -> Transaction] /\ req'[p] = Idle /\ \A q \in Procs \ {p} : req'[q] = req[q]
  BY IdleTurn DEF ConfigInv
<1>2. TypeOK'
  BY <1>1 DEF TypeOK, ConfigInv
<1>3. Asking'
  <2>1. Asked(Idle)
    BY IdleTransaction DEF Asked
  <2>2. QED
    BY <1>1, <2>1 DEF ConfigInv, Asking
<1>4. ASSUME NEW q \in Procs, req'[q].pc # "idle", req'[q].alone
      PROVE  Alone(q)'
  <2>1. q # p /\ req'[q] = req[q]
    BY <1>1, <1>4, IdleTransaction
  <2>2. Alone(q)
    BY <1>4, <2>1 DEF ConfigInv, Reloading
  <2>3. QED
    BY <2>1, <2>2 DEF Alone
<1>5. CacheIsCurrent'
  BY DEF CacheIsCurrent
<1>6. req'[Main].pc # "idle" => \A r \in Requests : req'[r].pc = "idle"
  <2>1. Main \in Procs /\ \A r \in Requests : r \in Procs /\ r # Main
    BY TenantConfigConstants DEF Procs
  <2>2. \A q \in Procs : req[q].pc = "idle" => req'[q].pc = "idle"
    BY <1>1, IdleTransaction
  <2>3. req'[Main].pc # "idle" => req[Main].pc # "idle"
    BY <2>1, <2>2
  <2>4. QED
    BY <2>1, <2>2, <2>3 DEF ConfigInv, Reloading
<1>7. QED
  BY <1>2, <1>3, <1>4, <1>5, <1>6 DEF ConfigInv, Reloading

LEMMA CommitKeeps ==
  ASSUME ConfigInv, NEW p \in Procs, Commit(p)
  PROVE  ConfigInv'
<1>1. /\ req' = [req EXCEPT ![p] = Idle] /\ req[p].pc = "commit" /\ UNCHANGED <<seeded, cache, ops>>
      /\ stored' = Merge(stored, req[p].new, req[p].touched) /\ clean' = req[p].alone
  BY DEF Commit
<1>2. stored' \in Config /\ clean' \in BOOLEAN
  BY <1>1, MergeConfig DEF ConfigInv, TypeOK, Transaction
<1>3. clean' => req[p].alone /\ stored' = cache
  BY <1>1 DEF ConfigInv, Reloading, Alone
<1>4. QED
  BY <1>1, <1>2, <1>3, EndKeeps

LEMMA LoseKeeps ==
  ASSUME ConfigInv, NEW p \in Procs, Lose(p)
  PROVE  ConfigInv'
BY EndKeeps DEF Lose, ConfigInv, TypeOK

LEMMA InitializeKeeps ==
  ASSUME ConfigInv, Initialize
  PROVE  ConfigInv'
<1>1. PICK t \in Transaction :
        req' = [req EXCEPT ![Main] = t] /\ Asked(t) /\ t.pc \in {"read", "upsert"}
  BY InitializeTurn DEF ConfigInv
<1>2. Main \in Procs /\ \A p \in Procs \ {Main} : p \in Requests
  BY DEF Procs
<1>3. req' \in [Procs -> Transaction] /\ req'[Main] = t /\ \A p \in Procs \ {Main} : req'[p] = req[p]
  BY <1>1, <1>2 DEF ConfigInv, TypeOK
<1>4. req[Main].pc = "boot" /\ UNCHANGED <<stored, seeded, cache, ops, clean>>
  BY DEF Initialize
<1>5. \A p \in Procs \ {Main} : req'[p].pc = "idle"
  BY <1>2, <1>3, <1>4 DEF ConfigInv, Reloading
<1>6. TypeOK'
  BY <1>3, <1>4 DEF TypeOK, ConfigInv
<1>7. Asking'
  BY <1>1, <1>3 DEF ConfigInv, Asking
<1>8. ASSUME NEW p \in Procs, req'[p].pc # "idle"
      PROVE  Alone(p)'
  <2>1. p = Main
    BY <1>5, <1>8
  <2>2. QED
    BY <1>1, <1>3, <1>5, <2>1 DEF Alone
<1>9. CacheIsCurrent'
  BY <1>1, <1>2, <1>3 DEF CacheIsCurrent
<1>10. \A r \in Requests : req'[r].pc = "idle"
  BY <1>5, TenantConfigConstants DEF Procs
<1>11. QED
  BY <1>6, <1>7, <1>8, <1>9, <1>10 DEF ConfigInv, Reloading

LEMMA RestartKeeps ==
  ASSUME ConfigInv, Restart
  PROVE  ConfigInv'
<1>1. req' = [p \in Procs |-> IF p = Main THEN [Idle EXCEPT !.pc = "boot"] ELSE Idle]
  BY DEF Restart
<1>2. /\ req' \in [Procs -> Transaction]
      /\ req'[Main].pc = "boot" /\ req'[Main].kind = "none" /\ req'[Main].alone = FALSE
      /\ \A r \in Requests : req'[r] = Idle
  BY <1>1, BootTurn
<1>3. TypeOK'
  <2>1. ops' \in 0..MaxOps
    BY TenantConfigConstants DEF Restart, ConfigInv, TypeOK
  <2>2. cache' \in Config /\ clean' \in BOOLEAN /\ stored' \in Config /\ seeded' \in BOOLEAN
    BY IdleTransaction DEF Restart, ConfigInv, TypeOK
  <2>3. QED
    BY <1>2, <2>1, <2>2 DEF TypeOK
<1>4. Asking'
  BY <1>2, IdleTransaction DEF Asking, Asked, Procs
<1>5. Reloading'
  BY <1>2, IdleTransaction DEF Restart, Reloading, CacheIsCurrent, Procs
<1>6. QED
  BY <1>3, <1>4, <1>5 DEF ConfigInv

(* Signing in leaves the settings as they are. *)
LEMMA StayKeeps ==
  ASSUME ConfigInv, SettingsStay, ops' \in 0..MaxOps
  PROVE  ConfigInv'
BY DEF ConfigInv, SettingsStay, TypeOK, Asking, Reloading, Alone, CacheIsCurrent

LEMMA ConfigStepKeeps ==
  ASSUME ConfigInv, ConfigStep
  PROVE  ConfigInv'
<1>1. ASSUME NEW r \in Requests, UpdateSection(r)
      PROVE  ConfigInv'
  <2>1. PICK t \in Transaction :
          /\ Arrive(r, t) /\ Asked(t) /\ t.pc \in {"idle", "upsert"}
          /\ cache' \in Config /\ UNCHANGED <<stored, seeded>>
          /\ t.pc = "upsert" => clean' = clean
          /\ t.pc = "idle" => clean' \in BOOLEAN /\ (clean' => clean /\ cache' = cache)
    BY <1>1, UpdateArrives DEF ConfigInv
  <2>2. clean' \in BOOLEAN
    BY <2>1 DEF ConfigInv, TypeOK
  <2>3. QED
    BY <2>1, <2>2, ArriveKeeps
<1>2. ASSUME NEW r \in Requests, RefuseSection(r) \/ GetSettings(r) \/ Reset(r)
      PROVE  ConfigInv'
  <2>1. PICK t \in Transaction :
          /\ Arrive(r, t) /\ Asked(t) /\ t.pc \in {"idle", "read", "upsert"}
          /\ UNCHANGED <<stored, seeded, cache, clean>>
    BY <1>2, OthersArrive DEF ConfigInv
  <2>2. clean' \in BOOLEAN /\ cache' \in Config
    BY <2>1 DEF ConfigInv, TypeOK
  <2>3. QED
    BY <2>1, <2>2, ArriveKeeps
<1>3. QED
  BY <1>1, <1>2, InitializeKeeps, MovesKeeps, CommitKeeps, LoseKeeps DEF ConfigStep

-----------------------------------------------------------------------------
(* Signing in, step by step. *)
SignTypes ==
  /\ cookie \in [Browsers -> Cookie] /\ flow \in [Flows -> Flow] /\ visit \in [Browsers -> Visit]
  /\ sessions \in [Flows -> {"none", "new", "aged"}] /\ overlap \in [Browsers -> BOOLEAN]

Signing == SignTypes /\ Owning

LEMMA NoneKnown ==
  /\ NoCookie \in Cookie /\ NoCookie.state = None /\ NoCookie.user = None
  /\ NoVisit \in Visit /\ NoVisit.pc = "idle" /\ NoVisit.flow = None /\ NoVisit.sent = NoCookie
  /\ None \notin Flows /\ None \notin Browsers
BY SignInConstants DEF NoCookie, Cookie, NoVisit, Visit

LEMMA SameFlows ==
  ASSUME Signing, SignTypes', flow' = flow, overlap' = overlap,
         \A b \in Browsers, f \in Flows : Knows(b, f)' => Knows(b, f),
         \A b \in Browsers : visit'[b] = visit[b] \/ visit'[b] = NoVisit \/ visit'[b].pc # "idle"
  PROVE  Signing'
<1>1. \A b \in Browsers, f \in Flows : Knows(b, f)' => flow'[f].by = b /\ (flow'[f].left => overlap'[b])
  BY DEF Signing, Owning
<1>2. \A b \in Browsers : visit'[b].pc = "idle" =>
        visit'[b].flow = None /\ visit'[b].sent.state = None /\ visit'[b].sent.user = None
  BY NoneKnown DEF Signing, Owning
<1>3. \A f \in Flows : flow'[f].by = None => ~flow'[f].left
  BY DEF Signing, Owning
<1>4. QED
  BY <1>1, <1>2, <1>3 DEF Signing, Owning

LEMMA AnswerKeeps ==
  ASSUME Signing, NEW b \in Browsers, NEW c \in Cookie, Answer(b, c),
         flow' = flow, overlap' = overlap, sessions' \in [Flows -> {"none", "new", "aged"}],
         \A f \in Flows : f \in {c.state, c.user} => Knows(b, f)
  PROVE  Signing'
<1>1. /\ cookie' \in [Browsers -> Cookie] /\ visit' \in [Browsers -> Visit]
      /\ \A d \in Browsers : /\ cookie'[d] = IF d = b THEN c ELSE cookie[d]
                             /\ visit'[d] = IF d = b THEN NoVisit ELSE visit[d]
  BY NoneKnown DEF Answer, Signing, SignTypes
<1>2. SignTypes'
  BY <1>1 DEF Signing, SignTypes
<1>3. ASSUME NEW d \in Browsers, NEW f \in Flows, Knows(d, f)'
      PROVE  Knows(d, f)
  <2>1. CASE d = b
    <3>1. f \in {c.state, c.user, None}
      BY <1>1, <1>3, <2>1, NoneKnown DEF Knows
    <3>2. QED
      BY <2>1, <3>1, NoneKnown
  <2>2. CASE d # b
    BY <1>1, <1>3, <2>2 DEF Knows
  <2>3. QED
    BY <2>1, <2>2
<1>4. QED
  BY <1>1, <1>2, <1>3, SameFlows

LEMMA RedirectKeeps ==
  ASSUME Signing, NEW b \in Browsers, Redirect(b)
  PROVE  Signing'
<1>1. PICK v \in Visit : v = visit[b]
  BY DEF Signing, SignTypes
<1>2. PICK s \in Cookie : s = v.sent
  BY DEF Visit
<1> DEFINE c == [s EXCEPT !.state = v.flow]
<1>3. c \in Cookie /\ c.state = v.flow /\ c.user = s.user
  BY DEF Visit, Cookie
<1>4. Answer(b, c)
  BY <1>1, <1>2 DEF Redirect
<1> HIDE DEF c
<1>5. \A f \in Flows : f \in {c.state, c.user} => Knows(b, f)
  BY <1>1, <1>2, <1>3 DEF Knows
<1>6. flow' = flow /\ overlap' = overlap /\ sessions' \in [Flows -> {"none", "new", "aged"}]
  BY DEF Redirect, Signing, SignTypes
<1>7. QED
  BY <1>3, <1>4, <1>5, <1>6, AnswerKeeps

LEMMA RejectKeeps ==
  ASSUME Signing, NEW b \in Browsers, Reject(b)
  PROVE  Signing'
<1>1. PICK v \in Visit : v = visit[b]
  BY DEF Signing, SignTypes
<1>2. PICK s \in Cookie : s = v.sent
  BY DEF Visit
<1> DEFINE c == [s EXCEPT !.state = None]
<1>3. c \in Cookie /\ c.state = None /\ c.user = s.user
  BY DEF Cookie
<1>4. Answer(b, c)
  BY <1>1, <1>2 DEF Reject
<1> HIDE DEF c
<1>5. \A f \in Flows : f \in {c.state, c.user} => Knows(b, f)
  BY <1>1, <1>2, <1>3, NoneKnown DEF Knows
<1>6. flow' = flow /\ overlap' = overlap /\ sessions' \in [Flows -> {"none", "new", "aged"}]
  BY DEF Reject, Signing, SignTypes
<1>7. QED
  BY <1>3, <1>4, <1>5, <1>6, AnswerKeeps

LEMMA SignedInKeeps ==
  ASSUME Signing, NEW b \in Browsers, SignedIn(b)
  PROVE  Signing'
<1>1. PICK v \in Visit : v = visit[b]
  BY DEF Signing, SignTypes
<1>2. PICK s \in Cookie : s = v.sent
  BY DEF Visit
<1> DEFINE c == [s EXCEPT !.user = v.flow]
<1>3. c \in Cookie /\ c.state = s.state /\ c.user = v.flow
  BY DEF Visit, Cookie
<1>4. Answer(b, c)
  BY <1>1, <1>2 DEF SignedIn
<1> HIDE DEF c
<1>5. \A f \in Flows : f \in {c.state, c.user} => Knows(b, f)
  BY <1>1, <1>2, <1>3 DEF Knows
<1>6. flow' = flow /\ overlap' = overlap /\ sessions' \in [Flows -> {"none", "new", "aged"}]
  BY DEF SignedIn, StoreRefreshToken, Signing, SignTypes
<1>7. QED
  BY <1>3, <1>4, <1>5, <1>6, AnswerKeeps

LEMMA CallbackKeeps ==
  ASSUME Signing, cache \in Config, NEW b \in Browsers, Callback(b)
  PROVE  Signing'
<1>1. PICK f \in Flows :
        /\ cookie[b].state = f
        /\ visit' = [visit EXCEPT ![b] = [pc |-> "exchange", flow |-> f, sent |-> cookie[b], provider |-> OAuthConfig]]
  BY DEF Callback, VerifyState
<1> DEFINE v == [pc |-> "exchange", flow |-> f, sent |-> cookie[b], provider |-> OAuthConfig]
<1>2. v \in Visit /\ v.pc = "exchange" /\ v.flow = f /\ v.sent = cookie[b]
  BY DEF Visit, OAuthConfig, Config, Signing, SignTypes
<1>3. visit' = [visit EXCEPT ![b] = v] /\ UNCHANGED <<cookie, flow, sessions, overlap>>
  BY <1>1 DEF Callback
<1> HIDE DEF v
<1>4. visit' \in [Browsers -> Visit] /\ \A d \in Browsers : visit'[d] = IF d = b THEN v ELSE visit[d]
  BY <1>2, <1>3 DEF Signing, SignTypes
<1>5. SignTypes'
  BY <1>3, <1>4 DEF Signing, SignTypes
<1>6. \A d \in Browsers, g \in Flows : Knows(d, g)' => Knows(d, g)
  BY <1>1, <1>2, <1>3, <1>4 DEF Knows
<1>7. QED
  BY <1>2, <1>3, <1>4, <1>5, <1>6, SameFlows

(* A flow that no browser knows of is started. *)
LEMMA StartOIDCKeeps ==
  ASSUME Signing, cache \in Config, NEW b \in Browsers, StartOIDC(b)
  PROVE  Signing'
<1>1. PICK f \in Flows :
        /\ flow[f].by = None
        /\ flow' = [flow EXCEPT ![f].by = b, ![f].provider = OAuthConfig]
        /\ visit' = [visit EXCEPT ![b] = [NoVisit EXCEPT !.pc = "start", !.flow = f, !.sent = cookie[b]]]
  BY DEF StartOIDC
<1>2. PICK old \in Flow : old = flow[f]
  BY DEF Signing, SignTypes
<1>3. OAuthConfig \in Providers \union {None}
  BY DEF OAuthConfig, Config
<1> DEFINE w == [old EXCEPT !.by = b, !.provider = OAuthConfig]
           v == [NoVisit EXCEPT !.pc = "start", !.flow = f, !.sent = cookie[b]]
<1>4. w \in Flow /\ w.by = b /\ w.left = old.left
  BY <1>3 DEF Flow
<1>5. v \in Visit /\ v.pc = "start" /\ v.flow = f /\ v.sent = cookie[b]
  BY NoneKnown DEF Visit, NoVisit, Signing, SignTypes
<1>6. flow' = [flow EXCEPT ![f] = w]
  BY <1>1, <1>2 DEF Signing, SignTypes
<1>7. visit' = [visit EXCEPT ![b] = v]
  BY <1>1
<1>8. UNCHANGED <<cookie, sessions, overlap>>
  BY DEF StartOIDC
<1> HIDE DEF w, v
<1>9. /\ flow' \in [Flows -> Flow] /\ visit' \in [Browsers -> Visit]
      /\ \A g \in Flows : flow'[g] = IF g = f THEN w ELSE flow[g]
      /\ \A d \in Browsers : visit'[d] = IF d = b THEN v ELSE visit[d]
  BY <1>4, <1>5, <1>6, <1>7 DEF Signing, SignTypes
<1>10. SignTypes'
  BY <1>8, <1>9 DEF Signing, SignTypes
<1>11. ~w.left
  BY <1>1, <1>2, <1>4 DEF Signing, Owning
<1>12. ASSUME NEW d \in Browsers, NEW g \in Flows, Knows(d, g)'
       PROVE  flow'[g].by = d /\ (flow'[g].left => overlap'[d])
  <2>1. CASE g = f /\ d = b
    BY <1>4, <1>9, <1>11, <2>1
  <2>2. CASE ~(g = f /\ d = b)
    <3>1. Knows(d, g)
      BY <1>5, <1>8, <1>9, <1>12, <2>2 DEF Knows
    <3>2. flow[g].by = d /\ (flow[g].left => overlap[d])
      BY <3>1 DEF Signing, Owning
    <3>3. g # f
      BY <1>1, <3>2, NoneKnown
    <3>4. QED
      BY <1>8, <1>9, <3>2, <3>3
  <2>3. QED
    BY <2>1, <2>2
<1>13. \A g \in Flows : flow'[g].by = None => ~flow'[g].left
  BY <1>9, <1>11 DEF Signing, Owning
<1>14. \A d \in Browsers : visit'[d].pc = "idle" =>
         visit'[d].flow = None /\ visit'[d].sent.state = None /\ visit'[d].sent.user = None
  BY <1>5, <1>9 DEF Signing, Owning
<1>15. QED
  BY <1>10, <1>12, <1>13, <1>14 DEF Signing, Owning

(* Only a visit in progress remembers what the cookie was. *)
LEMMA LogoutKeeps ==
  ASSUME Signing, NEW b \in Browsers, Logout(b)
  PROVE  Signing'
<1>1. UNCHANGED <<visit, sessions>>
  BY DEF Logout
<1>2. /\ cookie' \in [Browsers -> Cookie] /\ overlap' \in [Browsers -> BOOLEAN]
      /\ \A d \in Browsers : /\ cookie'[d] = IF d = b THEN NoCookie ELSE cookie[d]
                             /\ overlap'[d] = IF d = b THEN visit[b].pc # "idle" ELSE overlap[d]
  BY NoneKnown DEF Logout, Signing, SignTypes
<1>3. ASSUME NEW g \in Flows
      PROVE  /\ flow'[g] \in Flow /\ flow'[g].by = flow[g].by
             /\ flow'[g].left <=> flow[g].left \/ flow[g].by = b
  <2>1. PICK old \in Flow : old = flow[g]
    BY DEF Signing, SignTypes
  <2>2. PICK l \in BOOLEAN : l <=> old.left \/ old.by = b
    OBVIOUS
  <2> DEFINE x == [old EXCEPT !.left = l]
  <2>3. x \in Flow /\ x.by = old.by /\ x.left = l
    BY DEF Flow
  <2>4. flow'[g] = x
    BY <2>1, <2>2 DEF Logout, Flow
  <2> HIDE DEF x
  <2>5. QED
    BY <2>1, <2>2, <2>3, <2>4
<1>4. flow' \in [Flows -> Flow]
  <2>1. flow' = [g \in Flows |-> flow'[g]]
    BY DEF Logout
  <2>2. QED
    BY <1>3, <2>1
<1>5. SignTypes'
  BY <1>1, <1>2, <1>4 DEF Signing, SignTypes
<1>6. ASSUME NEW d \in Browsers, NEW g \in Flows, Knows(d, g)'
      PROVE  flow'[g].by = d /\ (flow'[g].left => overlap'[d])
  <2>1. Knows(d, g)
    BY <1>1, <1>2, <1>6, NoneKnown DEF Knows
  <2>2. flow[g].by = d /\ (flow[g].left => overlap[d])
    BY <2>1 DEF Signing, Owning
  <2>3. CASE d = b
    <3>1. g \in {visit[d].flow, visit[d].sent.state, visit[d].sent.user}
      BY <1>1, <1>2, <1>6, <2>3, NoneKnown DEF Knows
    <3>2. visit[d].pc # "idle"
      BY <3>1, NoneKnown DEF Signing, Owning
    <3>3. QED
      BY <1>2, <1>3, <2>2, <2>3, <3>2
  <2>4. CASE d # b
    BY <1>2, <1>3, <2>2, <2>4
  <2>5. QED
    BY <2>3, <2>4
<1>7. \A g \in Flows : flow'[g].by = None => ~flow'[g].left
  BY <1>3, NoneKnown DEF Signing, Owning
<1>8. QED
  BY <1>1, <1>5, <1>6, <1>7 DEF Signing, Owning

LEMMA ExpireKeeps ==
  ASSUME Signing, NEW b \in Browsers, Expire(b)
  PROVE  Signing'
<1>1. UNCHANGED <<flow, visit, sessions, overlap>>
  BY DEF Expire
<1>2. /\ cookie' \in [Browsers -> Cookie]
      /\ \A d \in Browsers : cookie'[d] = IF d = b THEN NoCookie ELSE cookie[d]
  BY NoneKnown DEF Expire, Signing, SignTypes
<1>3. SignTypes'
  BY <1>1, <1>2 DEF Signing, SignTypes
<1>4. \A d \in Browsers, g \in Flows : Knows(d, g)' => Knows(d, g)
  BY <1>1, <1>2, NoneKnown DEF Knows
<1>5. QED
  BY <1>1, <1>3, <1>4, SameFlows

LEMMA RowsKeep ==
  ASSUME Signing, (\E f \in Flows : Age(f)) \/ Cleanup
  PROVE  Signing'
<1>1. UNCHANGED <<cookie, flow, visit, overlap>>
  BY DEF Age, Cleanup
<1>2. sessions' \in [Flows -> {"none", "new", "aged"}]
  BY DEF Age, Cleanup, Signing, SignTypes
<1>3. SignTypes'
  BY <1>1, <1>2 DEF Signing, SignTypes
<1>4. \A d \in Browsers, g \in Flows : Knows(d, g)' => Knows(d, g)
  BY <1>1 DEF Knows
<1>5. QED
  BY <1>1, <1>3, <1>4, SameFlows

LEMMA RestartServerKeeps ==
  ASSUME Signing, RestartServer
  PROVE  Signing'
<1>1. UNCHANGED <<cookie, flow, sessions, overlap>>
  BY DEF RestartServer
<1>2. visit' \in [Browsers -> Visit] /\ \A d \in Browsers : visit'[d] = NoVisit
  BY NoneKnown DEF RestartServer
<1>3. SignTypes'
  BY <1>1, <1>2 DEF Signing, SignTypes
<1>4. \A d \in Browsers, g \in Flows : Knows(d, g)' => Knows(d, g)
  BY <1>1, <1>2, NoneKnown DEF Knows
<1>5. QED
  BY <1>1, <1>2, <1>3, <1>4, SameFlows

LEMMA SettingsOnly ==
  ASSUME Signing, UNCHANGED signInVars
  PROVE  Signing'
BY DEF signInVars, Signing, SignTypes, Owning, Knows

-----------------------------------------------------------------------------
(* All steps together. *)
LEMMA InvariantParts == IInv <=> ConfigInv /\ Signing
BY DEF IInv, ConfigInv, Signing, SignInTypeOK, SignTypes

LEMMA InitIInv == SignInInit => IInv
<1> SUFFICES ASSUME SignInInit PROVE IInv
  OBVIOUS
<1>1. /\ req \in [Procs -> Transaction]
      /\ req[Main].pc = "boot" /\ req[Main].kind = "none" /\ req[Main].alone = FALSE
      /\ \A r \in Requests : req[r] = Idle
  <2> DEFINE x == [Idle EXCEPT !.pc = "boot"]
  <2>1. x \in Transaction /\ x.pc = "boot" /\ x.kind = "none" /\ x.alone = FALSE
    BY IdleTransaction DEF Idle, Transaction
  <2>2. req = [p \in Procs |-> IF p = Main THEN x ELSE Idle]
    BY DEF SignInInit, Init
  <2> HIDE DEF x
  <2>3. QED
    BY <2>1, <2>2, IdleTransaction, TenantConfigConstants DEF Procs
<1>2. TypeOK
  <2>1. stored \in Config /\ cache \in Config /\ seeded \in BOOLEAN /\ clean \in BOOLEAN
    BY IdleTransaction DEF SignInInit, Init
  <2>2. ops \in 0..MaxOps
    BY TenantConfigConstants DEF SignInInit, Init
  <2>3. QED
    BY <1>1, <2>1, <2>2 DEF TypeOK
<1>3. Asking
  BY <1>1, IdleTransaction DEF Asking, Asked, Procs
<1>4. Reloading
  BY <1>1, IdleTransaction DEF SignInInit, Init, Reloading, CacheIsCurrent, Procs
<1>5. ConfigInv
  BY <1>2, <1>3, <1>4 DEF ConfigInv
<1>6. /\ \A b \in Browsers : cookie[b] = NoCookie /\ visit[b] = NoVisit
      /\ \A f \in Flows : flow[f].left = FALSE
      /\ cookie \in [Browsers -> Cookie] /\ visit \in [Browsers -> Visit]
      /\ sessions \in [Flows -> {"none", "new", "aged"}] /\ overlap \in [Browsers -> BOOLEAN]
  BY NoneKnown DEF SignInInit
<1>7. flow \in [Flows -> Flow]
  BY DEF SignInInit, Flow
<1>8. Signing
  BY <1>6, <1>7, NoneKnown DEF Signing, SignTypes, Owning, Knows
<1>9. QED
  BY <1>5, <1>8, InvariantParts

LEMMA ConfigParts ==
  ASSUME ConfigInv, [Next]_vars
  PROVE  ConfigInv'
<1>1. CASE UNCHANGED configVars
  <2>1. ops' \in 0..MaxOps /\ SettingsStay
    BY <1>1 DEF configVars, SettingsStay, ConfigInv, TypeOK
  <2>2. QED
    BY <2>1, StayKeeps
<1>2. CASE ConfigStep
  BY <1>2, ConfigStepKeeps
<1>3. CASE RestartServer
  BY <1>3, RestartKeeps DEF RestartServer
<1>4. ASSUME NEW b \in Browsers, StartOIDC(b) \/ Callback(b) \/ Logout(b)
      PROVE  ConfigInv'
  <2>1. SettingsStay /\ Request
    BY <1>4 DEF StartOIDC, Callback, Logout
  <2>2. ops' \in 0..MaxOps
    BY <2>1, TenantConfigConstants DEF Request, ConfigInv, TypeOK
  <2>3. QED
    BY <2>1, <2>2, StayKeeps
<1>5. ASSUME ~UNCHANGED configVars
      PROVE  \/ ConfigStep \/ RestartServer
             \/ \E b \in Browsers : StartOIDC(b) \/ Callback(b) \/ Logout(b)
  BY <1>5 DEF Next, vars, Cleanup, Redirect, Reject, SignedIn, Expire, Age
<1>6. QED
  BY <1>1, <1>2, <1>3, <1>4, <1>5

LEMMA SigningParts ==
  ASSUME ConfigInv, Signing, [Next]_vars
  PROVE  Signing'
<1>1. cache \in Config
  BY DEF ConfigInv, TypeOK
<1>2. CASE UNCHANGED signInVars
  BY <1>2, SettingsOnly
<1>3. CASE RestartServer \/ Cleanup \/ \E f \in Flows : Age(f)
  BY <1>3, RestartServerKeeps, RowsKeep
<1>4. ASSUME NEW b \in Browsers,
             StartOIDC(b) \/ Redirect(b) \/ Callback(b) \/ Reject(b) \/ SignedIn(b) \/ Logout(b) \/ Expire(b)
      PROVE  Signing'
  BY <1>1, <1>4, StartOIDCKeeps, RedirectKeeps, CallbackKeeps, RejectKeeps, SignedInKeeps, LogoutKeeps, ExpireKeeps
<1>5. QED
  BY <1>2, <1>3, <1>4 DEF Next, vars

(* The invariant of the settings and of signing in. *)
THEOREM Invariance == Spec => []IInv
<1>1. IInv /\ [Next]_vars => IInv'
  <2> SUFFICES ASSUME IInv, [Next]_vars PROVE IInv'
    OBVIOUS
  <2>1. ConfigInv /\ Signing
    BY InvariantParts
  <2>2. ConfigInv' /\ Signing'
    BY <2>1, ConfigParts, SigningParts
  <2>3. QED
    BY <2>2 DEF IInv, ConfigInv, Signing, SignInTypeOK, SignTypes
<1>2. QED
  BY <1>1, InitIInv, PTL DEF Spec

(* Every variable keeps its type. *)
THEOREM TypeCorrect == Spec => []SignInTypeOK
<1>1. IInv => SignInTypeOK
  BY DEF IInv
<1>2. QED
  BY <1>1, Invariance, PTL

(* UpdateSection and Reload: the copy of the settings in memory is what is *)
(* stored when the last transaction ran alone.                             *)
THEOREM CacheStaysCurrent == Spec => []CacheIsCurrent
<1>1. IInv => CacheIsCurrent
  BY DEF IInv, Reloading
<1>2. QED
  BY <1>1, Invariance, PTL

(* VerifyOIDCState and Logout: a browser is signed in by a flow of its own *)
(* that is younger than its last logout, but for an overlapping request.   *)
THEOREM OwnFlowsSignIn == Spec => []SignedInByOwnFlow
<1>1. IInv => SignedInByOwnFlow
  BY DEF IInv, Owning, Knows, SignedInByOwnFlow
<1>2. QED
  BY <1>1, Invariance, PTL

-----------------------------------------------------------------------------
(* Only a commit changes what is stored. *)
LEMMA OnlyCommits ==
  ASSUME [Next]_vars, stored' # stored
  PROVE  \E p \in Procs : Commit(p)
<1>1. CASE ConfigStep
  BY <1>1 DEF ConfigStep, Initialize, UpdateSection, Update, RefuseSection, GetSettings, Reset, Upsert, ReadRows, StoreCache, Lose
<1>2. CASE ~ConfigStep
  BY <1>2 DEF Next, vars, configVars, RestartServer, Restart, Cleanup, StartOIDC, Redirect, Callback, Reject, SignedIn,
       Logout, Expire, Age, SettingsStay
<1>3. QED
  BY <1>1, <1>2

LEMMA CommitMerges ==
  ASSUME ConfigInv, NEW p \in Procs, Commit(p)
  PROVE  /\ Committing(p) /\ Asked(req[p]) /\ req[p].kind \in {"seed", "load", "update"}
         /\ req[p].new \in Config /\ req[p].touched \in SUBSET Fields /\ req[p].base \in Config
         /\ req[p].typed \in Secrets \union {Mask, None}
         /\ stored' = Merge(stored, req[p].new, req[p].touched) /\ stored' \in Config
<1>1. req[p] \in Transaction /\ stored \in Config /\ req[p].pc = "commit"
  BY DEF ConfigInv, TypeOK, Commit
<1>2. /\ req[p].kind \in {"none", "seed", "load", "update"}
      /\ req[p].new \in Config /\ req[p].touched \in SUBSET Fields /\ req[p].base \in Config
      /\ req[p].typed \in Secrets \union {Mask, None}
  BY <1>1 DEF Transaction
<1>3. Asked(req[p])
  BY DEF ConfigInv, Asking
<1>4. req'[p] = Idle
  BY DEF Commit, ConfigInv, TypeOK
<1>5. stored' = Merge(stored, req[p].new, req[p].touched)
  BY DEF Commit
<1>6. QED
  BY <1>1, <1>2, <1>3, <1>4, <1>5, MergeConfig DEF Asked, Committing

(* UpdateSection, "at least one authentication method must be enabled":    *)
(* from stored settings one can sign in with come such settings, unless    *)
(* an update left out a field or was checked against a copy that is not    *)
(* what is stored, or the environment has no such settings.                *)
THEOREM AuthMethodStays == Spec => KeepsAuthMethod
<1>1. ASSUME IInv, [Next]_vars, Usable(stored), ~Usable(stored')
      PROVE  DisableAuthMethodCheck \/ \E p \in Procs : Committing(p) /\ (Unchecked(p) \/ req[p].omitted)
  <2>1. ConfigInv /\ stored \in Config
    BY <1>1, InvariantParts DEF ConfigInv, TypeOK
  <2>2. PICK p \in Procs : Commit(p)
    BY <1>1, OnlyCommits
  <2>3. PICK new \in Config, touched \in SUBSET Fields, base \in Config :
          new = req[p].new /\ touched = req[p].touched /\ base = req[p].base
    BY <2>1, <2>2, CommitMerges
  <2>4. /\ Committing(p) /\ Asked(req[p]) /\ req[p].kind \in {"seed", "load", "update"}
        /\ stored' = Merge(stored, new, touched)
    BY <2>1, <2>2, <2>3, CommitMerges
  <2>5. CASE req[p].kind = "load"
    <3>1. touched = {}
      BY <2>3, <2>4, <2>5 DEF Asked
    <3>2. Usable(Merge(stored, new, touched))
      BY <1>1, <2>1, <3>1, MergeConfig DEF Usable
    <3>3. QED
      BY <1>1, <2>4, <3>2
  <2>6. CASE req[p].kind = "seed"
    <3>1. touched = Fields /\ new = Env
      BY <2>3, <2>4, <2>6 DEF Asked
    <3>2. Usable(Merge(stored, new, touched)) <=> Usable(Env)
      BY <2>1, <3>1, MergeConfig DEF Usable, Fields
    <3>3. QED
      BY <1>1, <2>4, <2>6, <3>2 DEF Unchecked
  <2>7. CASE req[p].kind = "update"
    <3>1. DisableAuthMethodCheck \/ req[p].omitted \/ Usable(Merge(base, new, touched))
      BY <2>3, <2>4, <2>7 DEF Asked, Checked
    <3>2. ASSUME Usable(Merge(base, new, touched)), base.oidc = stored.oidc, base.magic = stored.magic, base.smtp = stored.smtp
          PROVE  FALSE
      BY <1>1, <2>1, <2>4, <3>2, MergeConfig DEF Usable
    <3>3. Usable(Merge(base, new, touched)) => \E f \in {"oidc", "magic", "smtp"} : base[f] # stored[f]
      BY <2>1, <3>2
    <3>4. QED
      BY <2>3, <2>4, <2>7, <3>1, <3>3 DEF Unchecked
  <2>8. QED
    BY <2>4, <2>5, <2>6, <2>7
<1>2. QED
  BY <1>1, Invariance, PTL DEF Spec, KeepsAuthMethod

(* processSecrets and COALESCE: the mask is never stored, and a secret     *)
(* that nobody typed is the one that was there.                            *)
THEOREM SecretsStay == Spec => SecretsSurvive
<1>1. ASSUME IInv, [Next]_vars, stored'.secret # stored.secret
      PROVE  /\ stored'.secret # Mask
             /\ \E p \in Procs : Committing(p) /\
                  \/ req[p].kind = "seed"
                  \/ req[p].typed = stored'.secret
                  \/ req[p].typed = Mask /\ req[p].base.secret # stored.secret
  <2>1. ConfigInv /\ stored \in Config
    BY <1>1, InvariantParts DEF ConfigInv, TypeOK
  <2>2. PICK p \in Procs : Commit(p)
    BY <1>1, OnlyCommits
  <2>3. PICK new \in Config, touched \in SUBSET Fields : new = req[p].new /\ touched = req[p].touched
    BY <2>1, <2>2, CommitMerges
  <2>4. /\ Committing(p) /\ Asked(req[p]) /\ req[p].kind \in {"seed", "load", "update"}
        /\ stored' = Merge(stored, new, touched) /\ stored' \in Config
    BY <2>1, <2>2, <2>3, CommitMerges
  <2>5. stored'.secret # Mask
    BY <2>4, TenantConfigConstants DEF Config
  <2>6. "secret" \in touched /\ stored'.secret = new.secret
    BY <1>1, <2>1, <2>4, MergeConfig
  <2>7. req[p].kind # "load"
    BY <2>3, <2>4, <2>6 DEF Asked
  <2>8. CASE req[p].kind = "update"
    <3>1. new.secret = IF req[p].typed = Mask THEN req[p].base.secret ELSE req[p].typed
      BY <2>3, <2>4, <2>8 DEF Asked, Checked
    <3>2. QED
      BY <1>1, <2>4, <2>5, <2>6, <3>1
  <2>9. QED
    BY <2>4, <2>5, <2>7, <2>8
<1>2. QED
  BY <1>1, Invariance, PTL DEF Spec, SecretsSurvive
=============================================================================
