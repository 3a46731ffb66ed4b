------------------------------- MODULE Signers -------------------------------
(***************************************************************************)
(* What administrators and owners do to the list of expected signers while *)
(* the signers sign: imports from CSV files, removals, and reminders.      *)
(*                                                                         *)
(* A reminder's token, mail and log are rows of the request's transaction. *)
(* The log refers to its signer on the list: while it is not committed the *)
(* signer cannot be removed, and the removal takes the logs with it.       *)
(***************************************************************************)
EXTENDS Completion, SequencesExt

(* An entry of a request to import. *)
Entry == [email : Emails, padded : BOOLEAN]

CONSTANTS
  Malformed,    \* emails on the list that no mail can be addressed to
  Files,        \* CSV files: [header, rows]; a row is an email or none of these
  Bodies,       \* what requests to import hold that no preview gave
  Blank, NoEmail,
  MaxSigners,   \* importMaxSigners
  MaxRequests   \* bound: how many imports and rounds of reminders

ASSUME SignersConstants ==
  /\ Malformed \subseteq Emails /\ MaxSigners \in Nat /\ MaxRequests \in Nat
  /\ {Blank, NoEmail} \cap Emails = {} /\ Blank # NoEmail
  /\ Bodies \subseteq Seq(Entry)
  /\ Files \subseteq [header : {"none", "email", "name"}, rows : Seq(Emails \union {Blank, NoEmail})]

VARIABLES
  admin,     \* the administrator's request in progress
  mails,     \* per email: reminders in email_queue
  logs,      \* per email: rows of reminder_logs
  requests   \* requests made so far

adminVars == <<admin, mails, logs, requests>>
signersVars == <<vars, adminVars>>

-----------------------------------------------------------------------------
Quiet == [pc |-> "idle", entries |-> <<>>, known |-> {}, seen |-> 0,
          todo |-> {}, mailed |-> {}, logged |-> {}, doomed |-> FALSE]

SignersTypeOK ==
  /\ TypeOK
  /\ admin.pc \in {"idle", "insert", "remind"}
  /\ admin.entries \in Seq(Entry) /\ Len(admin.entries) <= MaxSigners
  /\ admin.known \subseteq Emails /\ admin.todo \subseteq Emails /\ admin.seen \in Nat
  /\ admin.logged \subseteq admin.mailed /\ admin.mailed \subseteq Emails /\ admin.doomed \in BOOLEAN
  /\ mails \in [Emails -> Nat] /\ logs \in [Emails -> Nat]
  /\ requests \in 0..MaxRequests

SignersInit ==
  /\ Init
  /\ admin = Quiet
  /\ mails = [e \in Emails |-> 0] /\ logs = [e \in Emails |-> 0]
  /\ requests = 0

Ask == admin.pc = "idle" /\ requests < MaxRequests /\ requests' = requests + 1

(* detectColumns looks at the first row alone: a header that names a name  *)
(* column and no email column leaves every row without an email.           *)
HasEmailColumn(file) == file.header # "name"

(* parseRow, isEmptyRow: the rows with a valid email. *)
ValidRow(file, row) == HasEmailColumn(file) /\ row \in Emails

(* Parse, row by row; it stops taking signers at the limit, if there is one. *)
Parse(file) ==
  LET signers[i \in 0..Len(file.rows)] ==
        IF i = 0 THEN <<>>
        ELSE IF ValidRow(file, file.rows[i]) /\ (MaxSigners = 0 \/ Len(signers[i - 1]) < MaxSigners)
             THEN Append(signers[i - 1], file.rows[i])
             ELSE signers[i - 1]
  IN  signers[Len(file.rows)]

-----------------------------------------------------------------------------
AddSigners == AddExpected /\ UNCHANGED adminVars

(* The row of a signer is locked by a log of a transaction in progress. *)
RemoveSigner ==
  /\ RemoveExpected
  /\ \A e \in expected \ expected' : e \notin admin.logged
  /\ logs' = [e \in Emails |-> IF e \in expected \ expected' THEN 0 ELSE logs[e]]
  /\ UNCHANGED <<admin, mails, requests>>

(* HandlePreviewCSV: the signers of each file, shown and not yet added. *)
Preview(file) == [i \in 1..Len(Parse(file)) |-> [email |-> Parse(file)[i], padded |-> FALSE]]

(* HandleImportSigners: the signers of a preview, or of any other request, *)
(* with spaces around an email or not, checked against those listed now.   *)
Import ==
  /\ Ask
  /\ \E entries \in {Preview(file) : file \in Files} \union Bodies :
       /\ Len(entries) \in 1..MaxSigners
       /\ admin' = [Quiet EXCEPT !.pc = "insert", !.entries = entries, !.known = expected, !.seen = clock]
  /\ UNCHANGED vars /\ UNCHANGED <<mails, logs>>

(* Mutant: every known signer counts as skipped. *)
SkippedKnown(r) == Cardinality(r.known)

(* What the answer says: the entries that were known, and the others.  An  *)
(* email is looked up with its spaces.                                     *)
Skipped(r) == Cardinality({i \in DOMAIN r.entries : ~r.entries[i].padded /\ r.entries[i].email \in r.known})
Imported(r) == Len(r.entries) - Skipped(r)

(* The emails without their spaces. *)
EmailsOf(entries) == {r.email : r \in ToSet(entries)}

(* AddExpectedSigners: ON CONFLICT DO NOTHING. *)
InsertSigners ==
  /\ admin.pc = "insert" /\ changes < MaxChanges
  /\ expected' = expected \union EmailsOf(admin.entries)
  /\ changes' = changes + 1 /\ clock' = clock + 1 /\ listed' = clock + 1
  /\ admin' = Quiet
  /\ UNCHANGED <<signed, pc, announce, completed, mails, logs, requests>>

-----------------------------------------------------------------------------
(* Mutant: whoever was chosen is reminded, signed or not. *)
PendingChosen(chosen) == IF chosen = {} THEN Unsigned(Signers) ELSE expected \intersect chosen

(* SendRemindersAsync: those who have not signed, all of them or some that *)
(* the administrator chose.                                                *)
Pending(chosen) == {e \in Unsigned(Signers) : chosen = {} \/ e \in chosen}

(* HandleSendReminders. *)
Remind ==
  /\ Ask
  /\ \E chosen \in SUBSET Emails :
       /\ Pending(chosen) # {}
       /\ admin' = [Quiet EXCEPT !.pc = "remind", !.todo = Pending(chosen), !.seen = clock]
  /\ UNCHANGED vars /\ UNCHANGED <<mails, logs>>

(* LogReminder: the log refers to the signer on the list. *)
Loggable(e) == e \in expected

(* Mutant: a log that fails is not critical, as the comment has it. *)
QueueWithoutLog(e) ==
  LET queued == e \notin Malformed IN
  /\ admin.pc = "remind" /\ e \in admin.todo
  /\ admin' = [admin EXCEPT !.todo = @ \ {e},
                 !.mailed = IF queued THEN @ \union {e} ELSE @,
                 !.logged = IF queued /\ Loggable(e) THEN @ \union {e} ELSE @]
  /\ UNCHANGED vars /\ UNCHANGED <<mails, logs, requests>>

(* queueSingleReminder: the token, the mail and the log.  A malformed      *)
(* address is refused before the first.  The log of a signer removed since *)
(* the list was read fails, and with it, although its error is ignored,    *)
(* the transaction.                                                        *)
QueueReminder(e) ==
  LET queued == e \notin Malformed /\ ~admin.doomed IN
  /\ admin.pc = "remind" /\ e \in admin.todo
  /\ admin' = [admin EXCEPT !.todo = @ \ {e},
                 !.mailed = IF queued THEN @ \union {e} ELSE @,
                 !.logged = IF queued /\ Loggable(e) THEN @ \union {e} ELSE @,
                 !.doomed = @ \/ (queued /\ ~Loggable(e))]
  /\ UNCHANGED vars /\ UNCHANGED <<mails, logs, requests>>

CommitReminders ==
  /\ admin.pc = "remind" /\ admin.todo = {} /\ ~admin.doomed
  /\ mails' = [e \in Emails |-> mails[e] + (IF e \in admin.mailed THEN 1 ELSE 0)]
  /\ logs' = [e \in Emails |-> logs[e] + (IF e \in admin.logged THEN 1 ELSE 0)]
  /\ admin' = Quiet
  /\ UNCHANGED vars /\ UNCHANGED requests

(* The transaction is lost: to its own failed log, after an answer that    *)
(* says the reminders were sent, or to anything else.                      *)
LoseRequest ==
  /\ admin.pc # "idle"
  /\ admin' = Quiet
  /\ UNCHANGED vars /\ UNCHANGED <<mails, logs, requests>>

SignersNext ==
  \/ AddSigners \/ RemoveSigner
  \/ Import \/ InsertSigners
  \/ Remind \/ (\E e \in Emails : QueueReminder(e)) \/ CommitReminders
  \/ LoseRequest
  \/ (\E a \in Accounts : Sign(a) \/ Count(a) \/ Commit(a) \/ RollBack(a)) /\ UNCHANGED adminVars

SignersSpec == SignersInit /\ [][SignersNext]_signersVars
-----------------------------------------------------------------------------
(* queueSingleReminder, "Non-critical error, email is already queued": a   *)
(* reminder's mail is queued only together with its log, and to somebody   *)
(* who is on the list when the request commits.                            *)
RemindersMatchLogs ==
  [][\A e \in Emails : mails'[e] # mails[e] =>
       e \in expected' /\ mails'[e] - mails[e] = logs'[e] - logs[e]]_signersVars

(* SendRemindersAsync, "Filter pending signers": a reminder goes to nobody *)
(* who had signed when the list was read, whoever was chosen, and however  *)
(* the list has changed until the request commits.                         *)
RemindersOnlyToPending ==
  [][\A e \in Emails : mails'[e] # mails[e] =>
       \A s \in signed : EmailOf[s.by] = e => s.at > admin.seen]_signersVars

(* "Count how many will be skipped (already exist)": the answer of an      *)
(* import says how many signers it added, unless two entries have the same *)
(* email, one has spaces around an email that was known, or the list       *)
(* changed between the count and the insertion.                            *)
ImportCountsTrue ==
  [][admin.pc = "insert" /\ changes' # changes /\ admin' = Quiet =>
       \/ Imported(admin) = Cardinality(expected' \ expected)
       \/ \E i, j \in DOMAIN admin.entries : i # j /\ admin.entries[i].email = admin.entries[j].email
       \/ \E r \in ToSet(admin.entries) : r.padded /\ r.email \in admin.known
       \/ listed > admin.seen]_signersVars
=============================================================================
