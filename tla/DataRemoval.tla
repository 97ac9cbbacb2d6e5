----------------------------- MODULE DataRemoval -----------------------------
(***************************************************************************)
(* How a customer's data goes away: the daily retention cleanup, the       *)
(* bucket's lifecycle rule and the deletion of the account, beside exports *)
(* that still run; and the worker that sends the customer's emails.        *)
(*                                                                         *)
(* One customer with one API key. Time is counted in days by the ages of   *)
(* things, which stop growing when nothing looks further; a cleanup takes  *)
(* less than a day, a job is completed on the day of its upload, and the   *)
(* bucket's rule takes at most a day to act.                               *)
(* deleteAccount's body is not in the repository: its steps are those that *)
(* its tests observe, around the helpers that are there. Emails are sent   *)
(* (there is an API key for it).                                           *)
(***************************************************************************)
EXTENDS Integers, FiniteSets

CONSTANTS
  Jobs,           \* numbers, in the order of the files' names
  KeyDays,        \* a revoked key is kept for this many days
  JobDays,        \* the row of a job, after it was completed
  Keep,           \* per table that goes by age alone, its days
  LifecycleDays,  \* the bucket's rule removes a file after so many
  RetentionDays,  \* the customer's setting
  Oldest,         \* ages beyond it are not told apart
  PageSize,       \* objects in an answer of the bucket's listing
  MaxErrors,      \* bound: parts of one cleanup that fail
  MaxTries,       \* attempts of an email job
  Scenes          \* what there is: sets of Actions

Tables == {"audit", "delivery", "session", "team"}
Actions == {"cleanup", "deletion", "exports", "tables", "emails"}

ASSUME DaysAssumption ==
  /\ {KeyDays, JobDays, LifecycleDays, RetentionDays, PageSize, MaxTries} \subseteq Nat \ {0}
  /\ MaxErrors \in Nat /\ Keep \in [Tables -> Nat \ {0}]
  /\ Oldest \in Nat /\ \A d \in {KeyDays, JobDays, LifecycleDays, RetentionDays} : d < Oldest
  /\ \A t \in Tables : Keep[t] < Oldest

(* 90 days and 7: who lowers the one or raises the other loses files.      *)
ASSUME RowOutlivesFile == LifecycleDays < JobDays
ASSUME ScenesAssumption == Scenes \subseteq SUBSET Actions
ASSUME JobsAssumption == Jobs \subseteq Nat \ {0} /\ IsFiniteSet(Jobs)

Steps == {"keys", "dropKeys", "jobs"} \union Tables
Emails == {"usage_alert", "deletion_confirmation"}
None == -1

VARIABLES
  scene,
  customer,   \* there or gone
  key,        \* days since it was revoked; None while valid, "gone" has -2
  job,        \* per job, its row: [status, age since completedAt, expiry is set]
  run,        \* its export: idle, running, uploaded, over
  file,       \* age of its file, None without one
  item,       \* per table, age of one row, None without it
  rawLog,     \* an audit entry names the customer
  logLater,   \* an audit entry is being written, by a handler that has answered
  clean,      \* cleanup: [step, errors, busy]; busy is history
  erase,      \* account deletion: [step, token, todo, errors, unseen]; unseen is history
  mail,       \* per email: [place, tries, sent, row]; sent and row are history
  consent,    \* marketingEmails
  consented   \* it was true since the alert was queued (history)

vars == <<scene, customer, key, job, run, file, item, rawLog, logLater, clean, erase,
          mail, consent, consented>>

Gone == -2
NoRow == [status |-> "none", age |-> None, expiry |-> FALSE]
There == customer = "there"
InProgress(j) == job[j].status \in {"QUEUED", "PROCESSING"}

Init ==
  /\ scene \in Scenes
  /\ customer = "there" /\ key = None
  /\ job = [j \in Jobs |-> NoRow] /\ run = [j \in Jobs |-> "idle"]
  /\ file = [j \in Jobs |-> None] /\ item = [t \in Tables |-> IF "tables" \in scene THEN 0 ELSE None]
  /\ rawLog = TRUE /\ logLater = FALSE
  /\ clean = [step |-> "idle", errors |-> {}, busy |-> FALSE]
  /\ erase = [step |-> "idle", token |-> 0, todo |-> {}, errors |-> FALSE, unseen |-> FALSE]
  /\ mail = [e \in Emails |-> [place |-> "none", tries |-> 0, sent |-> FALSE, row |-> "none"]]
  /\ consent \in (IF "emails" \in scene THEN BOOLEAN ELSE {FALSE}) /\ consented = FALSE

removal == <<key, item, clean, erase>>
others == <<scene, rawLog, logLater, mail, consent, consented>>

-----------------------------------------------------------------------------
(* Exports, as far as they make and use data                               *)

CreateJob(j) ==
  /\ "exports" \in scene /\ There /\ key = None /\ run[j] = "idle" /\ job[j] = NoRow
  /\ job' = [job EXCEPT ![j].status = "QUEUED"]
  /\ UNCHANGED <<customer, run, file, removal, others>>

(* processExportJob begins with an update of the row, which must exist.    *)
StartJob(j) ==
  /\ InProgress(j) /\ run[j] = "idle"
  /\ job' = [job EXCEPT ![j].status = "PROCESSING"]
  /\ run' = [run EXCEPT ![j] = "running"]
  /\ UNCHANGED <<customer, file, removal, others>>

Upload(j) ==
  /\ run[j] = "running"
  /\ file' = [file EXCEPT ![j] = 0]
  /\ run' = [run EXCEPT ![j] = "uploaded"]
  /\ UNCHANGED <<customer, job, removal, others>>

(* Mutant: the row is made if it is not there.                             *)
RowAfterUpsert(j, set) == [status |-> "COMPLETED", age |-> 0, expiry |-> set]

(* An update of a row that is gone fails and is logged.                    *)
RowAfter(j, set) ==
  IF job[j] = NoRow THEN NoRow ELSE [status |-> "COMPLETED", age |-> 0, expiry |-> set]

(* The completed handler: the row, and then its expiry, which may fail.    *)
CompleteJob(j) ==
  /\ run[j] = "uploaded"
  /\ run' = [run EXCEPT ![j] = "over"]
  /\ \E set \in BOOLEAN : job' = [job EXCEPT ![j] = RowAfter(j, set)]
  /\ UNCHANGED <<customer, file, removal, others>>

(* Attempts are used up: the status stays what it is.                      *)
FailJob(j) ==
  /\ run[j] = "running"
  /\ run' = [run EXCEPT ![j] = "over"]
  /\ UNCHANGED <<customer, job, file, removal, others>>

RevokeKey ==
  /\ "cleanup" \in scene /\ There /\ key = None
  /\ key' = 0
  /\ UNCHANGED <<customer, job, run, file, item, clean, erase, others>>

(* A handler answers and leaves its audit entry to be written.             *)
LogStarts ==
  /\ {"deletion", "tables"} \subseteq scene /\ There /\ ~ logLater
  /\ logLater' = TRUE
  /\ UNCHANGED <<scene, customer, job, run, file, removal, rawLog, mail, consent, consented>>

LogWritten ==
  /\ logLater
  /\ logLater' = FALSE /\ rawLog' = TRUE
  /\ UNCHANGED <<scene, customer, job, run, file, removal, mail, consent, consented>>

-----------------------------------------------------------------------------
(* Time                                                                    *)

(* Mutants: a day early; only files that have a row.                       *)
FileIsOverEarly(j) == file[j] >= LifecycleDays
FileIsOverRow(j) == file[j] > LifecycleDays /\ job[j] # NoRow

(* "Delete exports after 7 days"                                           *)
FileIsOver(j) == file[j] > LifecycleDays

Older(age) == IF age \in 0..Oldest - 1 THEN age + 1 ELSE age

Day ==
  /\ clean.step = "idle" /\ \A j \in Jobs : run[j] # "uploaded" /\ ~ FileIsOver(j)
  /\ key' = Older(key)
  /\ job' = [j \in Jobs |-> [job[j] EXCEPT !.age = Older(@)]]
  /\ file' = [j \in Jobs |-> Older(file[j])]
  /\ item' = [t \in Tables |-> Older(item[t])]
  /\ UNCHANGED <<customer, run, clean, erase, others>>

Lifecycle(j) ==
  /\ FileIsOver(j)
  /\ file' = [file EXCEPT ![j] = None]
  /\ UNCHANGED <<customer, job, run, removal, others>>

-----------------------------------------------------------------------------
(* runRetentionCleanup: step after step, an error is collected             *)

(* Mutant: an error ends the run.                                          *)
NextPartDone(step) == "done"

(* Each of the six parts has a try of its own.                             *)
NextPart(step) ==
  CASE step \in {"keys", "dropKeys"} -> "audit"
    [] step = "audit" -> "delivery"
    [] step = "delivery" -> "jobs"
    [] step = "jobs" -> "session"
    [] step = "session" -> "team"
    [] step = "team" -> "done"

StartCleanup ==
  /\ "cleanup" \in scene /\ clean.step = "idle"
  /\ clean' = [step |-> "keys", errors |-> {}, busy |-> FALSE]
  /\ UNCHANGED <<customer, key, job, run, file, item, erase, others>>

(* Mutant: keys with jobs in progress are not left out.                    *)
KeyIsOverAge == key > KeyDays

KeyIsOver == key > KeyDays /\ \A j \in Jobs : ~ InProgress(j)

FindKeys ==
  /\ clean.step = "keys"
  /\ clean' = [clean EXCEPT !.busy = \E j \in Jobs : InProgress(j),
                            !.step = IF KeyIsOver THEN "dropKeys" ELSE NextPart("keys")]
  /\ UNCHANGED <<customer, key, job, run, file, item, erase, others>>

DropKeys ==
  /\ clean.step = "dropKeys"
  /\ key' = Gone
  /\ clean' = [clean EXCEPT !.step = NextPart("dropKeys")]
  /\ UNCHANGED <<customer, job, run, file, item, erase, others>>

Purge(t) ==
  /\ clean.step = t
  /\ item' = IF item[t] > Keep[t] THEN [item EXCEPT ![t] = None] ELSE item
  /\ rawLog' = (rawLog /\ (t = "audit" => item[t] <= Keep[t]))
  /\ clean' = [clean EXCEPT !.step = NextPart(t)]
  /\ UNCHANGED <<customer, key, job, run, file, erase, scene, logLater, mail, consent, consented>>

(* Mutant: fileExpiresAt is compared the wrong way round.                  *)
ExpiredLater(j) == job[j].expiry /\ job[j].age < RetentionDays

Expired(j) == job[j].expiry /\ job[j].age > RetentionDays

(* Mutant: the row goes with the file.                                     *)
PurgeableExpired(j) == job[j].status \in {"COMPLETED", "FAILED"} /\ Expired(j)

Purgeable(j) ==
  job[j].status \in {"COMPLETED", "FAILED"} /\ job[j].age > JobDays /\ Expired(j)

PurgeJobs ==
  /\ clean.step = "jobs"
  /\ job' = [j \in Jobs |-> IF Purgeable(j) THEN NoRow ELSE job[j]]
  /\ clean' = [clean EXCEPT !.step = NextPart("jobs")]
  /\ UNCHANGED <<customer, key, run, file, item, erase, others>>

CleanupError ==
  /\ clean.step \in Steps /\ Cardinality(clean.errors) < MaxErrors
  /\ clean' = [clean EXCEPT !.errors = @ \union {clean.step}, !.step = NextPart(clean.step)]
  /\ UNCHANGED <<customer, key, job, run, file, item, erase, others>>

EndCleanup ==
  /\ clean.step = "done"
  /\ clean' = [clean EXCEPT !.step = "idle"]
  /\ UNCHANGED <<customer, key, job, run, file, item, erase, others>>

Cleanup ==
  \/ StartCleanup \/ FindKeys \/ DropKeys \/ PurgeJobs \/ CleanupError \/ EndCleanup
  \/ \E t \in Tables : Purge(t)

-----------------------------------------------------------------------------
(* deleteAccount                                                           *)

StartErase ==
  /\ "deletion" \in scene /\ There /\ erase.step = "idle"
  /\ erase' = [erase EXCEPT !.step = "rows"]
  /\ UNCHANGED <<customer, key, job, run, file, item, clean, others>>

(* One transaction: every row of the customer, then the customer; audit    *)
(* entries stay, with a hash for the names. Or none of it.                 *)
EraseRows ==
  /\ erase.step = "rows"
  /\ \/ /\ customer' = "gone" /\ key' = Gone
        /\ job' = [j \in Jobs |-> NoRow]
        /\ item' = [t \in Tables |-> IF t = "audit" THEN item[t] ELSE None]
        /\ rawLog' = FALSE
        /\ erase' = [erase EXCEPT !.step = "list",
                       !.unseen = logLater \/ \E j \in Jobs : run[j] \in {"running", "uploaded"}]
     \/ /\ erase' = [erase EXCEPT !.step = "idle"]
        /\ UNCHANGED <<customer, key, job, item, rawLog>>
  /\ UNCHANGED <<run, file, clean, scene, logLater, mail, consent, consented>>

Listed == {j \in Jobs : file[j] # None /\ j > erase.token}
Page == {j \in Listed : Cardinality({i \in Listed : i < j}) < PageSize}

(* Mutant: the first page is taken for all of it.                          *)
TruncatedNever == FALSE

IsTruncated == Listed # Page

(* A page of keys, none, or an error, which ends the loop.                 *)
ListFiles ==
  /\ erase.step = "list"
  /\ \/ /\ Page # {}
        /\ erase' = [erase EXCEPT !.step = IF IsTruncated THEN "files" ELSE "last", !.todo = Page,
                       !.token = CHOOSE j \in Page : \A i \in Page : i <= j]
     \/ Page = {} /\ erase' = [erase EXCEPT !.step = "email"]
     \/ erase' = [erase EXCEPT !.step = "email", !.errors = TRUE]
  /\ UNCHANGED <<customer, key, job, run, file, item, clean, others>>

(* A request per file. One that fails is noted; an answer which lists the  *)
(* file among its errors is not looked at.                                 *)
EraseFile(j) ==
  /\ j \in erase.todo
  /\ \E outcome \in {"deleted", "failed", "refused"} :
       /\ file' = IF outcome = "deleted" THEN [file EXCEPT ![j] = None] ELSE file
       /\ erase' = [erase EXCEPT !.todo = @ \ {j}, !.errors = @ \/ outcome = "failed",
                      !.unseen = @ \/ outcome = "refused",
                      !.step = IF erase.todo # {j} THEN @ ELSE IF @ = "files" THEN "list" ELSE "email"]
  /\ UNCHANGED <<customer, key, job, run, item, clean, others>>

(* The server stops after the transaction: the rest is never done.         *)
EraseCrash ==
  /\ erase.step \in {"list", "files", "last", "email"}
  /\ erase' = [erase EXCEPT !.step = "crashed", !.todo = {}]
  /\ UNCHANGED <<customer, key, job, run, file, item, clean, others>>

Queue(e) == mail' = [mail EXCEPT ![e].place = "queued"]

EndErase ==
  /\ erase.step = "email"
  /\ erase' = [erase EXCEPT !.step = "done"]
  /\ \/ "emails" \in scene /\ Queue("deletion_confirmation")
     \/ UNCHANGED mail
  /\ UNCHANGED <<scene, customer, key, job, run, file, item, rawLog, logLater, clean,
                 consent, consented>>

Erase ==
  \/ StartErase \/ EraseRows \/ ListFiles \/ EraseCrash \/ EndErase
  \/ \E j \in Jobs : EraseFile(j)

-----------------------------------------------------------------------------
(* Emails: processNotificationJob                                          *)

still == <<scene, customer, key, job, run, file, item, rawLog, logLater, clean, erase>>

QueueAlert ==
  /\ "emails" \in scene /\ There /\ mail["usage_alert"].place = "none"
  /\ Queue("usage_alert")
  /\ consented' = consent
  /\ UNCHANGED <<still, consent>>

UpdateConsent ==
  /\ "emails" \in scene /\ There
  /\ consent' = ~ consent
  /\ consented' = (consented \/ consent')
  /\ UNCHANGED <<still, mail>>

Marketing == {"usage_alert"}

(* Mutant: the consent is not asked for.                                   *)
RefusedNever(e) == FALSE

(* The confirmation names no customerId; a customer that is gone is not    *)
(* asked.                                                                  *)
Refused(e) == e \in Marketing /\ There /\ ~ consent

CheckMail(e) ==
  /\ mail[e].place = "queued"
  /\ mail' = [mail EXCEPT ![e].place = IF Refused(e) THEN "dropped" ELSE "checked",
                          ![e].row = customer]
  /\ UNCHANGED <<still, consent, consented>>

(* An answer of Resend that carries an error is not told from a success.   *)
SendMail(e) ==
  /\ mail[e].place = "checked"
  /\ \E taken \in BOOLEAN :
       mail' = [mail EXCEPT ![e].place = "sent", ![e].sent = @ \/ taken]
  /\ UNCHANGED <<still, consent, consented>>

EndMail(e) ==
  /\ mail[e].place = "sent"
  /\ mail' = [mail EXCEPT ![e].place = "done"]
  /\ UNCHANGED <<still, consent, consented>>

(* Mutant: attempts are not counted.                                       *)
TriesAfterNone(e) == mail[e].tries

TriesLeft(e) == mail[e].tries + 1 < MaxTries
TriesAfter(e) == mail[e].tries + 1

(* A query, the rendering or Resend fails, or the answer to a message that *)
(* was sent is lost.                                                       *)
FailMail(e) ==
  /\ mail[e].place \in {"queued", "checked", "sent"}
  /\ mail' = [mail EXCEPT ![e].place = IF TriesLeft(e) THEN "queued" ELSE "failed",
                          ![e].tries = IF TriesLeft(e) THEN TriesAfter(e) ELSE @]
  /\ UNCHANGED <<still, consent, consented>>

MailStep(e) == CheckMail(e) \/ SendMail(e) \/ EndMail(e)

-----------------------------------------------------------------------------
JobStep(j) == StartJob(j) \/ Upload(j) \/ CompleteJob(j) \/ FailJob(j)

Next ==
  \/ \E j \in Jobs : CreateJob(j) \/ JobStep(j) \/ Lifecycle(j)
  \/ RevokeKey \/ LogStarts \/ LogWritten \/ Day \/ Cleanup \/ Erase
  \/ QueueAlert \/ UpdateConsent
  \/ \E e \in Emails : MailStep(e) \/ FailMail(e)

Spec == Init /\ [][Next]_vars

(* Days pass, the bucket's rule works, exports end, emails are taken, a    *)
(* cleanup comes daily, and no query of it fails for ever.                 *)
FairSpec ==
  /\ Spec
  /\ SF_vars(Day) /\ WF_vars(Cleanup)
  /\ SF_vars(DropKeys) /\ SF_vars(FindKeys) /\ SF_vars(PurgeJobs) /\ SF_vars(StartCleanup)
  /\ \A j \in Jobs : WF_vars(Lifecycle(j)) /\ WF_vars(JobStep(j))
  /\ \A e \in Emails : WF_vars(MailStep(e))

-----------------------------------------------------------------------------
(* Properties                                                              *)

Ages == {None} \union 0..Oldest

(* Types; tries stay in bounds, and a row that is not there has nothing.   *)
TypeOK ==
  /\ scene \subseteq Actions /\ customer \in {"there", "gone"} /\ key \in {Gone} \union Ages
  /\ job \in [Jobs -> [status : {"none", "QUEUED", "PROCESSING", "COMPLETED"}, age : Ages,
                      expiry : BOOLEAN]]
  /\ \A j \in Jobs : job[j].status = "none" => job[j] = NoRow
  /\ run \in [Jobs -> {"idle", "running", "uploaded", "over"}]
  /\ file \in [Jobs -> Ages] /\ item \in [Tables -> Ages]
  /\ rawLog \in BOOLEAN /\ logLater \in BOOLEAN
  /\ clean \in [step : Steps \union {"idle", "done"}, errors : SUBSET Steps, busy : BOOLEAN]
  /\ erase \in [step : {"idle", "rows", "list", "files", "last", "email", "crashed", "done"},
                token : Nat, todo : SUBSET Jobs, errors : BOOLEAN, unseen : BOOLEAN]
  /\ mail \in [Emails -> [place : {"none", "queued", "checked", "sent", "done", "dropped", "failed"},
                         tries : 0..MaxTries - 1, sent : BOOLEAN, row : {"none", "there", "gone"}]]
  /\ consent \in BOOLEAN /\ consented \in BOOLEAN

(* A cleanup leaves nothing in a table that is over its days, errors in    *)
(* other tables or not.                                                    *)
CleanupThorough ==
  clean.step = "done" =>
    /\ \A t \in Tables \ clean.errors : item[t] <= Keep[t]
    /\ "jobs" \notin clean.errors => \A j \in Jobs : ~ Purgeable(j)
    /\ clean.errors \intersect {"keys", "dropKeys"} = {} /\ ~ clean.busy => key <= KeyDays

(* An export in progress has its key's row as long as there is a customer. *)
KeyOfRunningJobKept == There /\ (\E j \in Jobs : InProgress(j)) => key # Gone

(* Wherever a download is offered, the file is there, if the customer's    *)
(* days are not more than the bucket's.                                    *)
LinkHasFile ==
  RetentionDays <= LifecycleDays =>
    \A j \in Jobs :
      job[j].status = "COMPLETED" /\ job[j].expiry /\ job[j].age <= RetentionDays => file[j] # None

(* The row of a job is kept as long as its file: nobody's file is left     *)
(* behind in the bucket without a row, unless the account was deleted.     *)
FileHasRow ==
  There => \A j \in Jobs : file[j] # None => job[j] # NoRow

(* A deletion that ends without an error has left no file and no entry     *)
(* that names the customer, unless an export or an entry was under way     *)
(* when the rows were deleted or the bucket's answer named a file that it  *)
(* did not delete.                                                         *)
ErasedIsErased ==
  erase.step = "done" /\ ~ erase.errors /\ ~ erase.unseen =>
    ~ rawLog /\ \A j \in Jobs : file[j] = None

(* No row of a deleted customer comes back, whatever was under way.        *)
RowsStayErased ==
  ~ There => key = Gone /\ (\A j \in Jobs : job[j] = NoRow) /\ (\A t \in Tables \ {"audit"} : item[t] = None)

(* A marketing email goes to a customer who was still there when its job   *)
(* ran only with a consent that was given after it was queued or before.   *)
MarketingConsented ==
  \A e \in Marketing : mail[e].sent /\ mail[e].row = "there" => consented

(* What a deleted customer's exports have left in the bucket goes in the   *)
(* end, also after a crash and also what was uploaded afterwards.          *)
FilesDieOut == (customer = "gone") ~> (\A j \in Jobs : file[j] = None)

(* A key that is revoked goes in the end, unless a job of it is in         *)
(* progress for ever, and so does the row of a completed job whose expiry  *)
(* could be set.                                                           *)
KeyAndRowsGo ==
  /\ (key >= 0 /\ \A j \in Jobs : ~ InProgress(j)) ~> (key = Gone)
  /\ \A j \in Jobs :
       ("cleanup" \in scene /\ job[j].status = "COMPLETED" /\ job[j].expiry) ~> (job[j] = NoRow)

(* Every email that is queued is sent, refused or given up.                *)
EmailsEnd ==
  \A e \in Emails :
    (mail[e].place = "queued") ~> (mail[e].place \in {"done", "dropped", "failed"})

(* A cleanup takes all that is over, and no key that a job still needs.    *)
CleanupSound == CleanupThorough /\ KeyOfRunningJobKept

(* Files, links and rows go together.                                      *)
FilesMatchRows == LinkHasFile /\ FileHasRow

(* What a deletion has erased is erased, and stays so.                     *)
ErasureHolds == ErasedIsErased /\ RowsStayErased

(* What has to go goes in the end, and an email that is queued is done     *)
(* with, through errors, crashes and repetition.                           *)
GoesInTheEnd == FilesDieOut /\ KeyAndRowsGo /\ EmailsEnd
=============================================================================
