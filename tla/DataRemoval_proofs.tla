------------------------- MODULE DataRemoval_proofs -------------------------
(***************************************************************************)
(* Proofs about DataRemoval: that a cleanup takes all that is over and no  *)
(* key that is needed, that files, links and rows go together, that what a *)
(* deletion has erased stays erased, and that a marketing email has a      *)
(* consent.                                                                *)
(***************************************************************************)
EXTENDS DataRemoval, FiniteSetTheorems, WellFoundedInduction, TLAPS

-----------------------------------------------------------------------------
(* Finite sets of numbers                                                  *)

LEMMA NatOrder ==
  \E R : IsWellFoundedOn(R, Nat) /\ \A x, y \in Nat : x < y => <<x, y>> \in R
<1>1. IsWellFoundedOn(OpToRel(<, Nat), Nat)
  BY NatLessThanWellFounded
<1>2. \A x, y \in Nat : x < y => <<x, y>> \in OpToRel(<, Nat)
  BY DEF OpToRel
<1>3. QED
  BY <1>1, <1>2

LEMMA LeastNat ==
  ASSUME NEW S, S \subseteq Nat, S # {}
  PROVE  \E x \in S : \A y \in S : x <= y
<1>1. PICK R : IsWellFoundedOn(R, Nat) /\ \A x, y \in Nat : x < y => <<x, y>> \in R
  BY NatOrder
<1>2. IsWellFoundedOn(R, Nat)
  BY <1>1
<1>3. PICK x \in S : \A y \in S : ~(<<y, x>> \in R)
  BY <1>2, WFMin, Zenon
<1>4. x \in Nat
  OBVIOUS
<1>5. SUFFICES ASSUME NEW y \in S PROVE x <= y
  OBVIOUS
<1>6. y \in Nat
  OBVIOUS
<1>7. ~(<<y, x>> \in R)
  BY <1>3
<1>8. ~ (y < x)
  BY <1>1, <1>4, <1>6, <1>7, Zenon
<1>9. QED
  BY <1>4, <1>6, <1>8

Below(x, S) == {y \in S : y < x}

(* There are more below a greater one.                                     *)
LEMMA MoreBelow ==
  ASSUME NEW S, S \subseteq Nat, IsFiniteSet(S), NEW x \in S, NEW y \in S, x < y
  PROVE  /\ Cardinality(Below(x, S)) \in Nat /\ Cardinality(Below(y, S)) \in Nat
         /\ Cardinality(Below(x, S)) < Cardinality(Below(y, S))
<1>1. \A z \in S : IsFiniteSet(Below(z, S)) /\ Cardinality(Below(z, S)) \in Nat
  BY FS_Subset, FS_CardinalityType DEF Below
<1>2. x \in Nat /\ y \in Nat
  OBVIOUS
<1>3. \A h \in S : h < x => h < y
  <2> TAKE h \in S
  <2>1. h \in Nat
    OBVIOUS
  <2>2. QED
    BY <1>2, <2>1
<1>4. ~ (x < x)
  BY <1>2
<1>5. Below(x, S) \union {x} \subseteq Below(y, S) /\ x \notin Below(x, S)
  BY <1>3, <1>4 DEF Below
<1>6. Cardinality(Below(x, S) \union {x}) = Cardinality(Below(x, S)) + 1
  BY <1>1, <1>5, FS_AddElement
<1>7. Cardinality(Below(x, S)) + 1 <= Cardinality(Below(y, S))
  BY <1>1, <1>5, <1>6, FS_Subset
<1>8. QED
  BY <1>1, <1>7

LEMMA GreatestInFinite ==
  ASSUME NEW S, S \subseteq Nat, S # {}, IsFiniteSet(S)
  PROVE  \E x \in S : \A y \in S : y <= x
<1> DEFINE left(x) == Cardinality(S) - Cardinality(Below(x, S))
           Left == {left(x) : x \in S}
<1>1. \A x \in S : /\ Cardinality(Below(x, S)) \in Nat
                   /\ Cardinality(Below(x, S)) <= Cardinality(S)
  BY FS_Subset, FS_CardinalityType DEF Below
<1>2. Cardinality(S) \in Nat
  BY FS_CardinalityType
<1>3. \A x \in S : left(x) \in Nat
  BY <1>1, <1>2
<1> HIDE DEF left
<1>4. Left # {} /\ Left \subseteq Nat
  BY <1>3
<1>5. PICK n \in Left : \A m \in Left : n <= m
  BY <1>4, LeastNat
<1>6. PICK x \in S : n = left(x)
  OBVIOUS
<1>7. ASSUME NEW y \in S, ~(y <= x) PROVE FALSE
  <2>1. x \in Nat /\ y \in Nat
    OBVIOUS
  <2>2. x < y
    BY <1>7, <2>1
  <2>3. Cardinality(Below(x, S)) < Cardinality(Below(y, S))
    BY <2>2, MoreBelow
  <2>4. left(x) <= left(y)
    BY <1>5, <1>6
  <2>5. QED
    BY <1>1, <1>2, <2>3, <2>4 DEF left
<1>8. QED
  BY <1>7

-----------------------------------------------------------------------------
(* The listing of the bucket                                               *)

USE DaysAssumption, RowOutlivesFile, ScenesAssumption, JobsAssumption

(* A page holds the first of what is listed, nothing only when nothing is, *)
(* and the token is the last of it.                                        *)
LEMMA PageIsFirst ==
  /\ Page \subseteq Listed /\ Listed \subseteq Jobs
  /\ \A i \in Page, j \in Listed : j < i => j \in Page
  /\ Page = {} => Listed = {}
  /\ Page # {} => \E j \in Page : \A i \in Page : i <= j
<1>1. Listed \subseteq Nat /\ IsFiniteSet(Listed) /\ Listed \subseteq Jobs
  BY FS_Subset DEF Listed
<1>2. Page = {j \in Listed : Cardinality(Below(j, Listed)) < PageSize}
  BY DEF Page, Below
<1>3. PageSize \in Nat \ {0}
  OBVIOUS
<1>4. \A i \in Page, j \in Listed : j < i => j \in Page
  <2> SUFFICES ASSUME NEW i \in Page, NEW j \in Listed, j < i PROVE j \in Page
    OBVIOUS
  <2>1. i \in Listed /\ Cardinality(Below(i, Listed)) < PageSize
    BY <1>2
  <2>2. /\ Cardinality(Below(j, Listed)) \in Nat /\ Cardinality(Below(i, Listed)) \in Nat
        /\ Cardinality(Below(j, Listed)) < Cardinality(Below(i, Listed))
    BY <1>1, <2>1, MoreBelow
  <2>3. Cardinality(Below(j, Listed)) < PageSize
    BY <1>3, <2>1, <2>2
  <2>4. QED
    BY <1>2, <2>3
<1>5. ASSUME Listed # {} PROVE Page # {}
  <2>1. PICK j \in Listed : \A i \in Listed : j <= i
    BY <1>1, <1>5, LeastNat
  <2>2. \A i \in Listed : ~ (i < j)
    <3> TAKE i \in Listed
    <3>1. i \in Nat /\ j \in Nat /\ j <= i
      BY <1>1, <2>1
    <3>2. QED
      BY <3>1
  <2>3. Below(j, Listed) = {}
    BY <2>2 DEF Below
  <2>4. Cardinality(Below(j, Listed)) = 0
    BY <2>3, FS_EmptySet
  <2>5. QED
    BY <1>2, <1>3, <2>4
<1>6. ASSUME Page # {} PROVE \E j \in Page : \A i \in Page : i <= j
  <2>1. Page \subseteq Nat /\ IsFiniteSet(Page)
    BY <1>1, <1>2, FS_Subset
  <2>2. QED
    BY <1>6, <2>1, GreatestInFinite
<1>7. QED
  BY <1>1, <1>2, <1>4, <1>5, <1>6

(* The token of a page that is not empty is its last.                      *)
Token == CHOOSE j \in Page : \A i \in Page : i <= j

LEMMA TokenIsLast ==
  ASSUME Page # {}
  PROVE  Token \in Page /\ \A i \in Page : i <= Token
BY PageIsFirst, Zenon DEF Token
-----------------------------------------------------------------------------
(* Types                                                                   *)

JobRow == [status : {"none", "QUEUED", "PROCESSING", "COMPLETED"}, age : Ages, expiry : BOOLEAN]

ThingTypes ==
  /\ scene \subseteq Actions /\ customer \in {"there", "gone"} /\ key \in {Gone} \union Ages
  /\ job \in [Jobs -> JobRow]
  /\ \A j \in Jobs : job[j].status = "none" => job[j] = NoRow
  /\ run \in [Jobs -> {"idle", "running", "uploaded", "over"}]
  /\ file \in [Jobs -> Ages] /\ item \in [Tables -> Ages]
  /\ rawLog \in BOOLEAN /\ logLater \in BOOLEAN

CleanTypes ==
  clean \in [step : Steps \union {"idle", "done"}, errors : SUBSET Steps, busy : BOOLEAN]

EraseTypes ==
  erase \in [step : {"idle", "rows", "list", "files", "last", "email", "crashed", "done"},
             token : Nat, todo : SUBSET Jobs, errors : BOOLEAN, unseen : BOOLEAN]

MailTypes ==
  /\ mail \in [Emails -> [place : {"none", "queued", "checked", "sent", "done", "dropped", "failed"},
                         tries : 0..MaxTries - 1, sent : BOOLEAN, row : {"none", "there", "gone"}]]
  /\ consent \in BOOLEAN /\ consented \in BOOLEAN

LEMMA TypesSplit == TypeOK <=> ThingTypes /\ CleanTypes /\ EraseTypes /\ MailTypes
BY DEF TypeOK, ThingTypes, CleanTypes, EraseTypes, MailTypes, JobRow

ExportStep ==
  \E j \in Jobs : CreateJob(j) \/ JobStep(j) \/ Lifecycle(j)
MailAction == QueueAlert \/ UpdateConsent \/ \E e \in Emails : MailStep(e) \/ FailMail(e)

(* What each part leaves alone; only the end of a deletion and the emails  *)
(* themselves touch both.                                                  *)
LEMMA StepKinds ==
  ASSUME [Next]_vars
  PROVE  \/ ExportStep /\ UNCHANGED <<customer, removal, others>>
         \/ RevokeKey /\ UNCHANGED <<customer, job, run, file, item, clean, erase, others>>
         \/ (LogStarts \/ LogWritten) /\ UNCHANGED <<scene, customer, job, run, file, removal, mail, consent, consented>>
         \/ Day /\ UNCHANGED <<customer, run, clean, erase, others>>
         \/ Cleanup /\ UNCHANGED <<scene, customer, run, file, erase, logLater, mail, consent, consented>>
         \/ Erase /\ UNCHANGED <<scene, run, clean, logLater, consent, consented>>
         \/ MailAction /\ UNCHANGED still
         \/ UNCHANGED vars
<1>1. ASSUME ExportStep PROVE UNCHANGED <<customer, removal, others>>
  BY <1>1 DEF ExportStep, CreateJob, JobStep, StartJob, Upload, CompleteJob, FailJob, Lifecycle
<1>2. ASSUME Cleanup
      PROVE  UNCHANGED <<scene, customer, run, file, erase, logLater, mail, consent, consented>>
  BY <1>2 DEF Cleanup, StartCleanup, FindKeys, DropKeys, PurgeJobs, CleanupError, EndCleanup,
              Purge, others
<1>3. ASSUME Erase PROVE UNCHANGED <<scene, run, clean, logLater, consent, consented>>
  BY <1>3 DEF Erase, StartErase, EraseRows, ListFiles, EraseCrash, EndErase, EraseFile, others
<1>4. ASSUME MailAction PROVE UNCHANGED still
  BY <1>4 DEF MailAction, QueueAlert, UpdateConsent, MailStep, CheckMail, SendMail, EndMail, FailMail,
              still
<1>5. QED
  BY <1>1, <1>2, <1>3, <1>4 DEF Next, ExportStep, MailAction, RevokeKey, LogStarts, LogWritten, Day

LEMMA OlderTypes ==
  \A age \in {Gone} \union Ages :
    /\ Older(age) \in {Gone} \union Ages /\ (age \in Ages => Older(age) \in Ages)
    /\ age \in {None, Gone} => Older(age) = age
    /\ age \in Nat => Older(age) = IF age < Oldest THEN age + 1 ELSE age
BY DEF Older, Ages, None, Gone

LEMMA ThingTypeStep ==
  ASSUME ThingTypes, CleanTypes, EraseTypes, [Next]_vars
  PROVE  ThingTypes'
<1> USE DEF ThingTypes, JobRow
<1>0. /\ None \in Ages /\ 0 \in Ages /\ NoRow \in JobRow /\ NoRow.status = "none"
  BY DEF Ages, NoRow, None
<1>1. CASE ExportStep
  <2>1. PICK j \in Jobs : CreateJob(j) \/ JobStep(j) \/ Lifecycle(j)
    BY <1>1 DEF ExportStep
  <2>2. UNCHANGED <<customer, removal, others>>
    BY <1>1, StepKinds DEF ExportStep, CreateJob, JobStep, StartJob, Upload, CompleteJob, FailJob, Lifecycle
  <2>3. CASE CreateJob(j)
    BY <1>0, <2>2, <2>3 DEF CreateJob, removal, others
  <2>4. CASE StartJob(j)
    BY <1>0, <2>2, <2>4 DEF StartJob, removal, others
  <2>5. CASE Upload(j)
    BY <1>0, <2>2, <2>5 DEF Upload, removal, others
  <2>6. CASE CompleteJob(j)
    <3>1. PICK set \in BOOLEAN : job' = [job EXCEPT ![j] = RowAfter(j, set)]
      BY <2>6 DEF CompleteJob
    <3>2. RowAfter(j, set) \in JobRow /\ (RowAfter(j, set).status = "none" => RowAfter(j, set) = NoRow)
      BY <1>0 DEF RowAfter
    <3>3. QED
      BY <1>0, <2>2, <2>6, <3>1, <3>2 DEF CompleteJob, removal, others
  <2>7. CASE FailJob(j)
    BY <1>0, <2>2, <2>7 DEF FailJob, removal, others
  <2>8. CASE Lifecycle(j)
    BY <1>0, <2>2, <2>8 DEF Lifecycle, removal, others
  <2>9. QED
    BY <2>1, <2>3, <2>4, <2>5, <2>6, <2>7, <2>8 DEF JobStep
<1>2. CASE RevokeKey
  BY <1>0, <1>2 DEF RevokeKey, others
<1>3. CASE LogStarts \/ LogWritten
  BY <1>3 DEF LogStarts, LogWritten, removal
<1>4. CASE Day
  <2>1. key' \in {Gone} \union Ages
    BY <1>4, OlderTypes DEF Day
  <2>2. \A j \in Jobs : Older(file[j]) \in Ages /\ Older(job[j].age) \in Ages
    BY OlderTypes
  <2>3. \A t \in Tables : Older(item[t]) \in Ages
    BY OlderTypes
  <2>4. \A j \in Jobs : job'[j] = [job[j] EXCEPT !.age = Older(job[j].age)] /\ job'[j] \in JobRow
    BY <1>4, <2>2 DEF Day
  <2>5. ASSUME NEW j \in Jobs, job'[j].status = "none" PROVE job'[j] = NoRow
    <3>1. job[j] = NoRow
      BY <2>4, <2>5
    <3>2. Older(job[j].age) = job[j].age
      BY <3>1, OlderTypes DEF NoRow, Ages
    <3>3. QED
      BY <2>4, <3>1, <3>2
  <2>6. QED
    BY <1>4, <2>1, <2>2, <2>3, <2>4, <2>5 DEF Day, others
<1>5. CASE Cleanup
  <2>1. UNCHANGED <<scene, customer, run, file, logLater>>
    BY <1>5 DEF Cleanup, StartCleanup, FindKeys, DropKeys, PurgeJobs, CleanupError, EndCleanup,
                Purge, others
  <2>2. CASE DropKeys
    BY <1>0, <2>1, <2>2 DEF DropKeys, others
  <2>3. CASE PurgeJobs
    BY <1>0, <2>1, <2>3 DEF PurgeJobs, others
  <2>4. CASE \E t \in Tables : Purge(t)
    BY <1>0, <2>1, <2>4 DEF Purge
  <2>5. CASE UNCHANGED <<key, job, item, rawLog>>
    BY <2>1, <2>5
  <2>6. QED
    BY <1>5, <2>2, <2>3, <2>4, <2>5
    DEF Cleanup, StartCleanup, FindKeys, CleanupError, EndCleanup, others
<1>6. CASE Erase
  <2>1. UNCHANGED <<scene, run, logLater>>
    BY <1>6 DEF Erase, StartErase, EraseRows, ListFiles, EraseCrash, EndErase, EraseFile, others
  <2>2. CASE EraseRows
    <3>1. CASE UNCHANGED <<customer, key, job, item, rawLog>>
      BY <2>1, <2>2, <3>1 DEF EraseRows
    <3>2. CASE /\ customer' = "gone" /\ key' = Gone /\ rawLog' = FALSE
               /\ job' = [j \in Jobs |-> NoRow]
               /\ item' = [t \in Tables |-> IF t = "audit" THEN item[t] ELSE None]
      BY <1>0, <2>1, <2>2, <3>2 DEF EraseRows
    <3>3. QED
      BY <2>2, <3>1, <3>2 DEF EraseRows
  <2>3. CASE \E j \in Jobs : EraseFile(j)
    BY <1>0, <2>1, <2>3 DEF EraseFile, others
  <2>4. CASE UNCHANGED <<customer, key, job, file, item, rawLog>>
    BY <2>1, <2>4
  <2>5. QED
    BY <1>6, <2>2, <2>3, <2>4 DEF Erase, StartErase, ListFiles, EraseCrash, EndErase, others
<1>7. CASE MailAction
  <2>1. UNCHANGED still
    BY <1>7 DEF MailAction, QueueAlert, UpdateConsent, MailStep, CheckMail, SendMail, EndMail, FailMail,
                still
  <2>2. QED
    BY <2>1 DEF still
<1>8. CASE UNCHANGED vars
  BY <1>8 DEF vars
<1>9. QED
  BY <1>1, <1>2, <1>3, <1>4, <1>5, <1>6, <1>7, <1>8, StepKinds

LEMMA CleanTypeStep ==
  ASSUME CleanTypes, [Next]_vars
  PROVE  CleanTypes'
<1> USE DEF CleanTypes, Steps, Tables
<1>1. CASE StartCleanup
  BY <1>1 DEF StartCleanup
<1>2. CASE FindKeys
  BY <1>2 DEF FindKeys, NextPart
<1>3. CASE DropKeys
  BY <1>3 DEF DropKeys, NextPart
<1>4. CASE PurgeJobs
  BY <1>4 DEF PurgeJobs, NextPart
<1>5. CASE CleanupError
  BY <1>5 DEF CleanupError, NextPart
<1>6. CASE EndCleanup
  BY <1>6 DEF EndCleanup
<1>7. CASE \E t \in Tables : Purge(t)
  BY <1>7 DEF Purge, NextPart
<1>8. CASE UNCHANGED clean
  BY <1>8
<1>9. QED
  BY <1>1, <1>2, <1>3, <1>4, <1>5, <1>6, <1>7, <1>8, StepKinds DEF Cleanup, removal, still, vars

(* Before a file is dealt with and after.                                  *)
LEMMA EraseFileSteps ==
  ASSUME EraseTypes, NEW j \in Jobs, EraseFile(j)
  PROVE  /\ j \in erase.todo /\ erase'.todo = erase.todo \ {j} /\ erase'.token = erase.token
         /\ erase'.step = IF erase.todo # {j} THEN erase.step
                          ELSE IF erase.step = "files" THEN "list" ELSE "email"
         /\ erase.errors => erase'.errors
         /\ erase.unseen => erase'.unseen
         /\ ~ erase'.errors /\ ~ erase'.unseen => file' = [file EXCEPT ![j] = None]
         /\ file' = file \/ file' = [file EXCEPT ![j] = None]
<1> USE DEF EraseTypes
<1>1. PICK outcome \in {"deleted", "failed", "refused"} :
        /\ file' = IF outcome = "deleted" THEN [file EXCEPT ![j] = None] ELSE file
        /\ erase' = [erase EXCEPT !.todo = @ \ {j}, !.errors = @ \/ outcome = "failed",
                      !.unseen = @ \/ outcome = "refused",
                      !.step = IF erase.todo # {j} THEN @ ELSE IF @ = "files" THEN "list" ELSE "email"]
  BY DEF EraseFile
<1>2. /\ erase'.todo = erase.todo \ {j} /\ erase'.token = erase.token
      /\ erase'.errors = (erase.errors \/ outcome = "failed")
      /\ erase'.unseen = (erase.unseen \/ outcome = "refused")
  BY <1>1, Zenon
<1>3. erase'.step = IF erase.todo # {j} THEN erase.step
                    ELSE IF erase.step = "files" THEN "list" ELSE "email"
  BY <1>1, Zenon
<1>4. j \in erase.todo
  BY DEF EraseFile
<1>5. QED
  BY <1>1, <1>2, <1>3, <1>4

LEMMA EraseTypeStep ==
  ASSUME ThingTypes, EraseTypes, [Next]_vars
  PROVE  EraseTypes'
<1> USE DEF EraseTypes
<1>1. CASE StartErase
  BY <1>1 DEF StartErase
<1>2. CASE EraseRows
  BY <1>2 DEF EraseRows, ThingTypes
<1>3. CASE ListFiles
  <2>1. CASE Page # {} /\ erase' = [erase EXCEPT !.step = IF IsTruncated THEN "files" ELSE "last",
                                     !.todo = Page, !.token = Token]
    <3>1. Page \subseteq Jobs /\ Token \in Nat
      BY <2>1, PageIsFirst, TokenIsLast
    <3>2. QED
      BY <2>1, <3>1
  <2>2. CASE erase' = [erase EXCEPT !.step = "email"] \/ erase' = [erase EXCEPT !.step = "email", !.errors = TRUE]
    BY <2>2
  <2>3. QED
    BY <1>3, <2>1, <2>2 DEF ListFiles, Token
<1>4. CASE EraseCrash
  BY <1>4 DEF EraseCrash
<1>5. CASE EndErase
  BY <1>5 DEF EndErase
<1>6. CASE \E j \in Jobs : EraseFile(j)
  <2>1. PICK j \in Jobs, outcome \in {"deleted", "failed", "refused"} :
          erase' = [erase EXCEPT !.todo = @ \ {j}, !.errors = @ \/ outcome = "failed",
                      !.unseen = @ \/ outcome = "refused",
                      !.step = IF erase.todo # {j} THEN @ ELSE IF @ = "files" THEN "list" ELSE "email"]
    BY <1>6 DEF EraseFile
  <2>2. (erase.errors \/ outcome = "failed") \in BOOLEAN /\ (erase.unseen \/ outcome = "refused") \in BOOLEAN
    OBVIOUS
  <2>3. (IF erase.todo # {j} THEN erase.step ELSE IF erase.step = "files" THEN "list" ELSE "email")
          \in {"idle", "rows", "list", "files", "last", "email", "crashed", "done"}
    OBVIOUS
  <2>4. erase.todo \ {j} \in SUBSET Jobs
    OBVIOUS
  <2>5. QED
    BY <2>1, <2>2, <2>3, <2>4
<1>7. CASE UNCHANGED erase
  BY <1>7
<1>8. QED
  BY <1>1, <1>2, <1>3, <1>4, <1>5, <1>6, <1>7, StepKinds DEF Erase, removal, still, vars

Letter == [place : {"none", "queued", "checked", "sent", "done", "dropped", "failed"},
           tries : 0..MaxTries - 1, sent : BOOLEAN, row : {"none", "there", "gone"}]

LEMMA MailTypeStep ==
  ASSUME ThingTypes, MailTypes, [Next]_vars
  PROVE  MailTypes'
<1> USE DEF MailTypes
<1>0. "usage_alert" \in Emails /\ "deletion_confirmation" \in Emails
  BY DEF Emails
<1> DEFINE Kept == mail' \in [Emails -> Letter]
<1>a. mail \in [Emails -> Letter] /\ MailTypes' = (Kept /\ consent' \in BOOLEAN /\ consented' \in BOOLEAN)
  BY DEF Letter
<1>1. CASE QueueAlert
  BY <1>0, <1>1 DEF QueueAlert, Queue
<1>2. CASE UpdateConsent
  BY <1>2 DEF UpdateConsent
<1>3. CASE \E e \in Emails : CheckMail(e)
  <2>1. PICK e \in Emails : CheckMail(e)
    BY <1>3
  <2>2. mail[e] \in Letter /\ customer \in {"there", "gone"}
    BY <1>a DEF ThingTypes
  <2>3. PICK p \in {"dropped", "checked"} :
          mail' = [mail EXCEPT ![e].place = p, ![e].row = customer]
    BY <2>1 DEF CheckMail
  <2>4. Kept
    BY <1>a, <2>2, <2>3 DEF Letter
  <2>5. QED
    BY <1>a, <2>1, <2>4 DEF CheckMail
<1>4. CASE \E e \in Emails : SendMail(e)
  <2>1. PICK e \in Emails, taken \in BOOLEAN :
          mail' = [mail EXCEPT ![e].place = "sent", ![e].sent = @ \/ taken]
    BY <1>4 DEF SendMail
  <2>2. PICK b \in BOOLEAN : mail' = [mail EXCEPT ![e].place = "sent", ![e].sent = b]
    BY <2>1
  <2>3. Kept
    BY <1>a, <2>2 DEF Letter
  <2>4. QED
    BY <1>a, <1>4, <2>3 DEF SendMail
<1>5. CASE \E e \in Emails : EndMail(e)
  BY <1>5 DEF EndMail
<1>6. CASE \E e \in Emails : FailMail(e)
  <2>1. PICK e \in Emails : FailMail(e)
    BY <1>6
  <2>2. mail[e].tries \in 0..MaxTries - 1
    OBVIOUS
  <2>3. (IF TriesLeft(e) THEN TriesAfter(e) ELSE mail[e].tries) \in 0..MaxTries - 1
    BY <2>2 DEF TriesLeft, TriesAfter
  <2>4. PICK p \in {"queued", "failed"}, n \in 0..MaxTries - 1 :
          mail' = [mail EXCEPT ![e].place = p, ![e].tries = n]
    BY <2>1, <2>3 DEF FailMail
  <2>5. Kept
    BY <1>a, <2>4 DEF Letter
  <2>6. QED
    BY <1>a, <2>1, <2>5 DEF FailMail
<1>7. CASE EndErase
  BY <1>0, <1>7 DEF EndErase, Queue
<1>8. CASE UNCHANGED <<mail, consent, consented>>
  BY <1>8
<1>9. QED
  <2>1. CASE Erase /\ ~ EndErase
    BY <1>8, <2>1, StepKinds DEF Erase, StartErase, EraseRows, ListFiles, EraseCrash, EraseFile, others
  <2>2. CASE MailAction
    BY <1>1, <1>2, <1>3, <1>4, <1>5, <1>6, <2>2 DEF MailAction, MailStep
  <2>3. QED
    BY <1>7, <1>8, <2>1, <2>2, StepKinds DEF others, vars

LEMMA TypesInit ==
  ASSUME Init
  PROVE  TypeOK
<1> USE DEF Init, NoRow, Ages, None
<1>1. ThingTypes
  <2>1. scene \subseteq Actions /\ customer \in {"there", "gone"} /\ key \in {Gone} \union Ages
        /\ rawLog \in BOOLEAN /\ logLater \in BOOLEAN
    OBVIOUS
  <2>2. item \in [Tables -> Ages]
    OBVIOUS
  <2>3. /\ job \in [Jobs -> JobRow] /\ \A j \in Jobs : job[j].status = "none" => job[j] = NoRow
        /\ run \in [Jobs -> {"idle", "running", "uploaded", "over"}] /\ file \in [Jobs -> Ages]
    BY DEF JobRow
  <2>4. QED
    BY <2>1, <2>2, <2>3 DEF ThingTypes
<1>2. CleanTypes /\ EraseTypes
  BY DEF CleanTypes, EraseTypes
<1>3. MailTypes
  <2>1. 0 \in 0..MaxTries - 1
    OBVIOUS
  <2>2. consent \in BOOLEAN
    OBVIOUS
  <2>3. QED
    BY <2>1, <2>2 DEF MailTypes
<1>4. QED
  BY <1>1, <1>2, <1>3, TypesSplit

(* TypeOK: at all times every part of the state is of its kind, tries of   *)
(* an email job stay under their limit, and a row that is not there has    *)
(* nothing in it.                                                          *)
THEOREM RemovalTypesHold == Spec => []TypeOK
<1>1. Init => TypeOK
  BY TypesInit
<1>2. TypeOK /\ [Next]_vars => TypeOK'
  <2>1. ASSUME ThingTypes', CleanTypes', EraseTypes', MailTypes' PROVE TypeOK'
    BY <2>1, TypesSplit, PTL
  <2>2. QED
    BY <2>1, TypesSplit, ThingTypeStep, CleanTypeStep, EraseTypeStep, MailTypeStep
<1>3. QED
  BY <1>1, <1>2, PTL DEF Spec

-----------------------------------------------------------------------------
(* The deletion: the rows go first, and stay away                          *)

(* What is left to be done in the bucket comes after the transaction: the  *)
(* customer is gone by then, and files are listed from the start.          *)
CustomerFirst ==
  /\ erase.step \in {"list", "files", "last", "email", "done", "crashed"} => ~ There
  /\ erase.todo # {} => erase.step \in {"files", "last"}
  /\ erase.step \in {"idle", "rows"} => erase.token = 0

ErasedInv == CustomerFirst /\ RowsStayErased

LEMMA ErasedInit ==
  ASSUME Init
  PROVE  ErasedInv
BY DEF Init, ErasedInv, CustomerFirst, RowsStayErased, There

LEMMA CustomerFirstStep ==
  ASSUME TypeOK, CustomerFirst, [Next]_vars
  PROVE  CustomerFirst'
<1> USE DEF CustomerFirst, There
<1>0. EraseTypes /\ customer \in {"there", "gone"}
  BY TypesSplit DEF ThingTypes
<1> USE DEF EraseTypes
<1>1. CASE StartErase
  BY <1>0, <1>1 DEF StartErase
<1>2. CASE EraseRows
  BY <1>0, <1>2 DEF EraseRows
<1>3. CASE ListFiles
  <2>1. erase.step = "list" /\ erase.todo = {} /\ customer = "gone" /\ customer' = "gone"
    BY <1>0, <1>3 DEF ListFiles
  <2>2. CASE Page # {} /\ erase' = [erase EXCEPT !.step = IF IsTruncated THEN "files" ELSE "last",
                                     !.todo = Page, !.token = Token]
    BY <1>0, <2>1, <2>2
  <2>3. CASE erase' = [erase EXCEPT !.step = "email"] \/ erase' = [erase EXCEPT !.step = "email", !.errors = TRUE]
    BY <1>0, <2>1, <2>3
  <2>4. QED
    BY <1>3, <2>2, <2>3 DEF ListFiles, Token
<1>4. CASE EraseCrash
  BY <1>0, <1>4 DEF EraseCrash
<1>5. CASE EndErase
  BY <1>0, <1>5 DEF EndErase
<1>6. CASE \E j \in Jobs : EraseFile(j)
  <2>1. PICK j \in Jobs : EraseFile(j)
    BY <1>6
  <2>2. erase.todo # {} /\ erase.step \in {"files", "last"} /\ customer = "gone" /\ customer' = "gone"
    BY <1>0, <2>1 DEF EraseFile
  <2>3. /\ erase'.todo = erase.todo \ {j} /\ erase'.token = erase.token
        /\ erase'.step = IF erase.todo # {j} THEN erase.step
                         ELSE IF erase.step = "files" THEN "list" ELSE "email"
    BY <1>0, <2>1, EraseFileSteps
  <2>4. QED
    BY <2>2, <2>3
<1>7. CASE UNCHANGED <<customer, erase>>
  BY <1>7
<1>8. QED
  BY <1>1, <1>2, <1>3, <1>4, <1>5, <1>6, <1>7, StepKinds DEF Erase, removal, others, still, vars

(* What exports, the cleanup and the passing of days do to rows that are   *)
(* not there: nothing.                                                     *)
LEMMA RowsStayErasedStep ==
  ASSUME TypeOK, ErasedInv, [Next]_vars
  PROVE  RowsStayErased'
<1> USE DEF RowsStayErased, There
<1>0. ThingTypes
  BY TypesSplit
<1>1. CASE ~ There
  <2>0. /\ key = Gone /\ (\A j \in Jobs : job[j] = NoRow)
        /\ \A t \in Tables \ {"audit"} : item[t] = None
    BY <1>1 DEF ErasedInv
  <2>1. /\ key = Gone /\ (\A j \in Jobs : job[j] = NoRow /\ ~ InProgress(j))
        /\ \A t \in Tables \ {"audit"} : item[t] = None
    <3>1. NoRow.status = "none"
      BY DEF NoRow
    <3>2. \A j \in Jobs : ~ InProgress(j)
      BY <2>0, <3>1 DEF InProgress
    <3>3. QED
      BY <2>0, <3>2
  <2>2. CASE ExportStep
    <3>1. PICK j \in Jobs : CreateJob(j) \/ JobStep(j) \/ Lifecycle(j)
      BY <2>2 DEF ExportStep
    <3>2. ~ CreateJob(j) /\ ~ StartJob(j)
      BY <1>1, <2>1 DEF CreateJob, StartJob
    <3>3. job' = job \/ \E set \in BOOLEAN : job' = [job EXCEPT ![j] = RowAfter(j, set)]
      BY <3>1, <3>2 DEF JobStep, Upload, CompleteJob, FailJob, Lifecycle
    <3>4. \A i \in Jobs : job'[i] = NoRow
      BY <1>0, <2>1, <3>3 DEF RowAfter, ThingTypes
    <3>5. UNCHANGED <<key, item>>
      BY <3>1, <3>2 DEF JobStep, Upload, CompleteJob, FailJob, Lifecycle, removal
    <3>6. QED
      BY <2>1, <3>4, <3>5
  <2>3. CASE RevokeKey
    BY <1>1, <2>3 DEF RevokeKey
  <2>4. CASE Day
    <3>1. Older(Gone) = Gone /\ Older(None) = None
      BY DEF Older, Gone, None
    <3>2. [NoRow EXCEPT !.age = Older(NoRow.age)] = NoRow
      BY <3>1 DEF NoRow, None
    <3>3. \A j \in Jobs : job'[j] = NoRow
      BY <2>1, <2>4, <3>2 DEF Day
    <3>4. key' = Gone /\ \A t \in Tables \ {"audit"} : item'[t] = None
      BY <2>1, <2>4, <3>1 DEF Day
    <3>5. QED
      BY <3>3, <3>4
  <2>5. CASE Cleanup
    <3>1. CASE \E t \in Tables : Purge(t)
      BY <1>0, <2>1, <3>1 DEF Purge, ThingTypes
    <3>2. CASE PurgeJobs
      BY <2>1, <3>2 DEF PurgeJobs
    <3>3. CASE DropKeys
      BY <2>1, <3>3 DEF DropKeys
    <3>4. CASE UNCHANGED <<key, job, item>>
      BY <2>1, <3>4
    <3>5. QED
      BY <2>5, <3>1, <3>2, <3>3, <3>4 DEF Cleanup, StartCleanup, FindKeys, CleanupError, EndCleanup
  <2>6. CASE Erase
    <3>1. CASE EraseRows
      <4>1. erase.step = "rows" /\ item \in [Tables -> Ages]
        BY <1>0, <3>1 DEF EraseRows, ThingTypes
      <4>2. key' = Gone /\ (\A j \in Jobs : job'[j] = NoRow) /\ \A t \in Tables \ {"audit"} : item'[t] = None
        BY <2>1, <3>1, <4>1 DEF EraseRows
      <4>3. QED
        BY <4>2
    <3>2. CASE UNCHANGED <<key, job, item>>
      BY <2>1, <3>2
    <3>3. QED
      BY <2>6, <3>1, <3>2 DEF Erase, StartErase, ListFiles, EraseCrash, EndErase, EraseFile
  <2>7. CASE UNCHANGED <<key, job, item>>
    BY <2>1, <2>7
  <2>8. QED
    BY <2>2, <2>3, <2>4, <2>5, <2>6, <2>7, StepKinds DEF removal, others, still, vars
<1>2. CASE There
  <2>1. CASE EraseRows
    BY <1>0, <1>2, <2>1 DEF EraseRows
  <2>2. CASE customer' = customer
    BY <1>2, <2>2
  <2>3. QED
    BY <2>1, <2>2, StepKinds
    DEF Erase, StartErase, ListFiles, EraseCrash, EndErase, EraseFile, others, still, vars
<1>3. QED
  BY <1>1, <1>2

LEMMA ErasedHolds == Spec => []ErasedInv
<1>1. ASSUME TypeOK, ErasedInv, [Next]_vars PROVE ErasedInv'
  BY <1>1, CustomerFirstStep, RowsStayErasedStep DEF ErasedInv
<1>2. QED
  BY <1>1, ErasedInit, RemovalTypesHold, PTL DEF Spec

-----------------------------------------------------------------------------
(* The cleanup                                                             *)

(* The key of a job in progress has its row, and a cleanup that is about   *)
(* to drop a key has seen none and will see none: a revoked key makes no   *)
(* new ones.                                                               *)
KeyKept ==
  /\ key = Gone => \A j \in Jobs : ~ InProgress(j)
  /\ clean.step = "dropKeys" => key # None /\ \A j \in Jobs : ~ InProgress(j)

LEMMA KeyKeptInit ==
  ASSUME Init
  PROVE  KeyKept
BY DEF Init, KeyKept, InProgress, NoRow, None, Gone

LEMMA KeyKeptStep ==
  ASSUME TypeOK, KeyKept, [Next]_vars
  PROVE  KeyKept'
<1>0. ThingTypes /\ CleanTypes
  BY TypesSplit
<1>a. key \in {Gone} \union Ages /\ Gone # None /\ Gone \notin Ages
  BY <1>0 DEF ThingTypes, Ages, Gone, None
<1>b. ASSUME clean'.step = "dropKeys" => clean.step = "dropKeys",
             key' = Gone => key = Gone, key' = None => key = None,
             \A j \in Jobs : InProgress(j)' => InProgress(j)
      PROVE  KeyKept'
  BY <1>b DEF KeyKept
<1>1. CASE ExportStep
  <2>1. PICK j \in Jobs : CreateJob(j) \/ JobStep(j) \/ Lifecycle(j)
    BY <1>1 DEF ExportStep
  <2>2. UNCHANGED <<key, clean>>
    BY <2>1 DEF CreateJob, JobStep, StartJob, Upload, CompleteJob, FailJob, Lifecycle, removal
  <2>3. CASE CreateJob(j)
    <3>1. key = None
      BY <2>3 DEF CreateJob
    <3>2. CASE clean.step = "dropKeys"
      BY <3>1, <3>2 DEF KeyKept
    <3>3. CASE clean.step # "dropKeys"
      BY <1>a, <2>2, <3>1, <3>3 DEF KeyKept
    <3>4. QED
      BY <3>2, <3>3
  <2>4. CASE ~ CreateJob(j)
    <3>1. \A i \in Jobs : job'[i].status \in {"QUEUED", "PROCESSING"} => InProgress(i)
      <4>1. CASE StartJob(j)
        BY <1>0, <4>1 DEF StartJob, ThingTypes, JobRow, InProgress
      <4>2. CASE CompleteJob(j)
        BY <1>0, <4>2 DEF CompleteJob, RowAfter, NoRow, ThingTypes, JobRow, InProgress
      <4>3. CASE job' = job
        BY <4>3 DEF InProgress
      <4>4. QED
        BY <2>1, <2>4, <4>1, <4>2, <4>3 DEF JobStep, Upload, FailJob, Lifecycle
    <3>2. QED
      BY <1>b, <2>2, <3>1 DEF InProgress
  <2>5. QED
    BY <2>3, <2>4
<1>2. CASE RevokeKey
  BY <1>2, <1>a DEF RevokeKey, KeyKept, InProgress, None, Gone
<1>3. CASE Day
  <2>1. Older(key) = Gone => key = Gone
    BY <1>a, OlderTypes DEF Ages, Gone, None
  <2>2. clean.step = "idle" /\ clean' = clean /\ key' = Older(key)
    BY <1>3 DEF Day
  <2>3. \A j \in Jobs : job'[j].status = job[j].status
    BY <1>0, <1>3 DEF Day, ThingTypes, JobRow
  <2>4. QED
    BY <2>1, <2>2, <2>3 DEF KeyKept, InProgress
<1>4. CASE Cleanup
  <2>1. CASE FindKeys
    <3>1. UNCHANGED <<key, job>>
      BY <2>1 DEF FindKeys
    <3>2. KeyIsOver => key # None /\ \A j \in Jobs : ~ InProgress(j)
      BY DEF KeyIsOver, None
    <3>3. clean'.step = "dropKeys" => KeyIsOver
      BY <1>0, <2>1 DEF FindKeys, NextPart, CleanTypes
    <3>4. QED
      BY <3>1, <3>2, <3>3 DEF KeyKept, InProgress
  <2>2. CASE DropKeys
    BY <1>0, <2>2 DEF DropKeys, NextPart, CleanTypes, KeyKept, InProgress
  <2>3. CASE PurgeJobs
    <3>1. \A j \in Jobs : job'[j].status \in {"QUEUED", "PROCESSING"} => InProgress(j)
      BY <2>3 DEF PurgeJobs, NoRow, InProgress
    <3>2. key' = key /\ clean'.step # "dropKeys"
      BY <1>0, <2>3 DEF PurgeJobs, NextPart, CleanTypes
    <3>3. QED
      BY <1>b, <3>1, <3>2 DEF InProgress
  <2>4. CASE StartCleanup \/ CleanupError \/ EndCleanup \/ \E t \in Tables : Purge(t)
    <3>1. UNCHANGED <<key, job>>
      BY <2>4 DEF StartCleanup, CleanupError, EndCleanup, Purge
    <3>2. clean'.step # "dropKeys"
      <4>1. \A step \in Steps : NextPart(step) # "dropKeys"
        BY DEF NextPart, Steps, Tables
      <4>2. CASE StartCleanup \/ EndCleanup
        BY <1>0, <4>2 DEF StartCleanup, EndCleanup, CleanTypes
      <4>3. CASE CleanupError
        BY <1>0, <4>1, <4>3 DEF CleanupError, CleanTypes
      <4>4. CASE \E t \in Tables : Purge(t)
        BY <1>0, <4>1, <4>4 DEF Purge, CleanTypes, Steps
      <4>5. QED
        BY <2>4, <4>2, <4>3, <4>4
    <3>3. QED
      BY <3>1, <3>2 DEF KeyKept, InProgress
  <2>5. QED
    BY <1>4, <2>1, <2>2, <2>3, <2>4 DEF Cleanup
<1>5. CASE Erase
  <2>1. CASE EraseRows
    <3>1. clean' = clean
      BY <2>1 DEF EraseRows
    <3>2. CASE UNCHANGED <<key, job>>
      BY <3>1, <3>2 DEF KeyKept, InProgress
    <3>3. CASE key' = Gone /\ job' = [j \in Jobs |-> NoRow]
      BY <1>a, <3>3 DEF KeyKept, InProgress, NoRow
    <3>4. QED
      BY <2>1, <3>2, <3>3 DEF EraseRows
  <2>2. CASE UNCHANGED <<key, job, clean>>
    BY <2>2 DEF KeyKept, InProgress
  <2>3. QED
    BY <1>5, <2>1, <2>2 DEF Erase, StartErase, ListFiles, EraseCrash, EndErase, EraseFile
<1>6. CASE UNCHANGED <<key, job, clean>>
  BY <1>6 DEF KeyKept, InProgress
<1>7. QED
  BY <1>1, <1>2, <1>3, <1>4, <1>5, <1>6, StepKinds DEF removal, others, still, vars

(* The parts that come after one of them.                                  *)
After(part) ==
  CASE part = "keys" -> Tables \union {"jobs", "done"}
    [] part = "audit" -> {"delivery", "jobs", "session", "team", "done"}
    [] part = "delivery" -> {"jobs", "session", "team", "done"}
    [] part = "jobs" -> {"session", "team", "done"}
    [] part = "session" -> {"team", "done"}
    [] part = "team" -> {"done"}

(* What a part of the cleanup has taken is not over again before the run   *)
(* ends: no day passes meanwhile, and what is completed is new.            *)
ThoroughSoFar ==
  /\ \A t \in Tables : clean.step \in After(t) /\ t \notin clean.errors => item[t] <= Keep[t]
  /\ clean.step \in After("jobs") /\ "jobs" \notin clean.errors => \A j \in Jobs : ~ Purgeable(j)
  /\ clean.step \in After("keys") /\ clean.errors \intersect {"keys", "dropKeys"} = {} /\ ~ clean.busy =>
       key <= KeyDays

(* A part that ends is the one before the next.                            *)
LEMMA PartsInOrder ==
  /\ \A t \in Tables, step \in Steps :
       NextPart(step) \in After(t) <=> step = t \/ step \in After(t)
  /\ \A step \in Steps : NextPart(step) \in After("jobs") <=> step = "jobs" \/ step \in After("jobs")
  /\ \A step \in Steps : NextPart(step) \in After("keys")
  /\ \A t \in Tables \union {"jobs", "keys"} :
       /\ "idle" \notin After(t) /\ "keys" \notin After(t) /\ "dropKeys" \notin After(t)
       /\ t \notin After(t)
BY DEF NextPart, After, Steps, Tables

LEMMA ThoroughInit ==
  ASSUME Init
  PROVE  ThoroughSoFar
BY PartsInOrder DEF Init, ThoroughSoFar

LEMMA Compared ==
  \A age \in {Gone} \union Ages, n \in Nat \ {0} : ~ (age > n) <=> age <= n
BY DEF Ages, Gone, None

LEMMA ThoroughStep ==
  ASSUME TypeOK, ThoroughSoFar, [Next]_vars
  PROVE  ThoroughSoFar'
<1>0. ThingTypes /\ CleanTypes
  BY TypesSplit
<1>a. /\ key \in {Gone} \union Ages /\ KeyDays \in Nat \ {0}
      /\ \A t \in Tables : item[t] \in {Gone} \union Ages /\ Keep[t] \in Nat \ {0}
  BY <1>0 DEF ThingTypes
<1>b. /\ clean.step \in Steps \union {"idle", "done"} /\ clean.errors \subseteq Steps
      /\ clean.busy \in BOOLEAN
  BY <1>0 DEF CleanTypes
<1>1. CASE ExportStep \/ RevokeKey
  <2>1. UNCHANGED <<item, clean>>
    BY <1>1 DEF ExportStep, CreateJob, JobStep, StartJob, Upload, CompleteJob, FailJob, Lifecycle,
                removal, RevokeKey
  <2>2. key' = key \/ key' = 0
    BY <1>1 DEF ExportStep, CreateJob, JobStep, StartJob, Upload, CompleteJob, FailJob, Lifecycle,
                removal, RevokeKey
  <2>3. 0 <= KeyDays /\ ~ (0 > JobDays)
    OBVIOUS
  <2>4. ASSUME NEW i \in Jobs, Purgeable(i)' PROVE Purgeable(i)
    <3>1. job'[i].status = "COMPLETED" \/ job'[i].status = "FAILED"
      BY <2>4 DEF Purgeable
    <3>2. CASE job'[i] = job[i]
      BY <2>4, <3>2 DEF Purgeable, Expired
    <3>3. CASE job'[i] # job[i]
      <4>1. PICK j \in Jobs : CreateJob(j) \/ JobStep(j) \/ Lifecycle(j)
        BY <1>1, <3>3 DEF ExportStep, RevokeKey
      <4>2. ~ CreateJob(j) /\ ~ StartJob(j)
        BY <1>0, <3>1, <3>3 DEF CreateJob, StartJob, ThingTypes, JobRow
      <4>3. CompleteJob(j)
        BY <3>3, <4>1, <4>2 DEF JobStep, Upload, FailJob, Lifecycle
      <4>4. PICK set \in BOOLEAN : job' = [job EXCEPT ![j] = RowAfter(j, set)]
        BY <4>3 DEF CompleteJob
      <4>5. job'[i] = RowAfter(j, set) /\ job'[i].status = "COMPLETED" => job'[i].age = 0
        BY DEF RowAfter, NoRow
      <4>6. job'[i] = RowAfter(j, set)
        BY <1>0, <3>3, <4>4 DEF ThingTypes
      <4>7. job'[i].age = 0
        BY <1>0, <4>4, <4>6, <3>1 DEF RowAfter, NoRow
      <4>8. QED
        BY <2>3, <2>4, <4>7 DEF Purgeable
    <3>4. QED
      BY <3>2, <3>3
  <2>5. QED
    BY <2>1, <2>2, <2>3, <2>4 DEF ThoroughSoFar
<1>2. CASE Day
  BY <1>2, PartsInOrder DEF Day, ThoroughSoFar
<1>3. CASE StartCleanup \/ EndCleanup
  <2>1. clean'.step \in {"idle", "keys"}
    BY <1>0, <1>3 DEF StartCleanup, EndCleanup, CleanTypes
  <2>2. QED
    BY <2>1, PartsInOrder DEF ThoroughSoFar
<1>4. CASE FindKeys
  <2>1. UNCHANGED <<key, job, item>> /\ clean.step = "keys" /\ clean'.errors = clean.errors
    BY <1>0, <1>4 DEF FindKeys, CleanTypes
  <2>2. clean'.step = (IF KeyIsOver THEN "dropKeys" ELSE "audit")
    BY <1>0, <1>4 DEF FindKeys, CleanTypes, NextPart
  <2>3. clean'.busy = \E j \in Jobs : InProgress(j)
    BY <1>0, <1>4, Zenon DEF FindKeys, CleanTypes
  <2>4. \A t \in Tables \union {"jobs"} : clean'.step \notin After(t)
    BY <2>2, PartsInOrder DEF After, Tables
  <2>5. clean'.step \in After("keys") /\ ~ clean'.busy => key <= KeyDays
    BY <1>a, <2>2, <2>3, PartsInOrder, Compared DEF KeyIsOver
  <2>6. QED
    BY <2>1, <2>4, <2>5 DEF ThoroughSoFar
<1>5. CASE DropKeys
  <2>1. clean'.step = "audit" /\ key' = Gone
    BY <1>0, <1>5 DEF DropKeys, NextPart, CleanTypes
  <2>2. \A t \in Tables \union {"jobs"} : clean'.step \notin After(t)
    BY <2>1 DEF After, Tables
  <2>3. key' <= KeyDays
    BY <2>1 DEF Gone
  <2>4. QED
    BY <2>2, <2>3 DEF ThoroughSoFar
<1>6. CASE \E t \in Tables : Purge(t)
  <2>1. PICK t \in Tables : Purge(t)
    BY <1>6
  <2>2. /\ clean.step = t /\ t \in Steps /\ clean'.step = NextPart(t)
        /\ clean'.errors = clean.errors /\ clean'.busy = clean.busy /\ UNCHANGED <<key, job>>
    BY <1>0, <2>1 DEF Purge, CleanTypes, Steps
  <2>3. item'[t] <= Keep[t]
    BY <1>0, <1>a, <2>1, Compared DEF Purge, ThingTypes, None
  <2>4. \A u \in Tables : u # t => item'[u] = item[u]
    BY <1>0, <2>1 DEF Purge, ThingTypes
  <2>5. \A u \in Tables : clean'.step \in After(u) /\ u \notin clean'.errors => item'[u] <= Keep[u]
    BY <2>2, <2>3, <2>4, PartsInOrder DEF ThoroughSoFar
  <2>6. clean'.step \in After("jobs") => clean.step \in After("jobs")
    BY <2>2, PartsInOrder DEF Tables
  <2>7. clean.step \in After("keys")
    BY <2>2 DEF After, Tables
  <2>8. QED
    BY <2>2, <2>5, <2>6, <2>7 DEF ThoroughSoFar, Purgeable, Expired
<1>7. CASE PurgeJobs
  <2>1. /\ clean.step = "jobs" /\ clean'.step = NextPart("jobs") /\ UNCHANGED <<key, item>>
        /\ clean'.errors = clean.errors /\ clean'.busy = clean.busy
    BY <1>0, <1>7 DEF PurgeJobs, CleanTypes
  <2>2. \A j \in Jobs : ~ Purgeable(j)'
    BY <1>7 DEF PurgeJobs, Purgeable, Expired, NoRow
  <2>3. "jobs" \in Steps /\ clean.step \in After("keys") /\ "jobs" \notin Tables
    BY <2>1 DEF Steps, After, Tables
  <2>4. QED
    BY <2>1, <2>2, <2>3, PartsInOrder DEF ThoroughSoFar
<1>8. CASE CleanupError
  <2>1. /\ clean.step \in Steps /\ clean'.step = NextPart(clean.step) /\ UNCHANGED <<key, item, job>>
        /\ clean'.errors = clean.errors \union {clean.step} /\ clean'.busy = clean.busy
    BY <1>0, <1>8 DEF CleanupError, CleanTypes
  <2>2. \A u \in Tables : clean'.step \in After(u) /\ u \notin clean'.errors => item[u] <= Keep[u]
    BY <2>1, PartsInOrder DEF ThoroughSoFar
  <2>3. clean'.step \in After("jobs") /\ "jobs" \notin clean'.errors => \A j \in Jobs : ~ Purgeable(j)
    BY <2>1, PartsInOrder DEF ThoroughSoFar
  <2>4. clean'.errors \intersect {"keys", "dropKeys"} = {} => clean.step \in After("keys")
    BY <2>1 DEF Steps, After, Tables
  <2>5. QED
    BY <2>1, <2>2, <2>3, <2>4 DEF ThoroughSoFar, Purgeable, Expired
<1>9. CASE EraseRows
  <2>1. clean' = clean
    BY <1>9 DEF EraseRows
  <2>2. CASE UNCHANGED <<key, job, item>>
    BY <2>1, <2>2 DEF ThoroughSoFar, Purgeable, Expired
  <2>3. CASE /\ key' = Gone /\ job' = [j \in Jobs |-> NoRow]
             /\ item' = [t \in Tables |-> IF t = "audit" THEN item[t] ELSE None]
    <3>1. Gone <= KeyDays /\ \A t \in Tables : None <= Keep[t]
      BY <1>a DEF Gone, None
    <3>2. \A j \in Jobs : ~ Purgeable(j)'
      BY <2>3 DEF Purgeable, NoRow
    <3>3. \A t \in Tables : item'[t] = item[t] \/ item'[t] <= Keep[t]
      BY <2>3, <3>1
    <3>4. QED
      BY <2>1, <2>3, <3>1, <3>2, <3>3 DEF ThoroughSoFar
  <2>4. QED
    BY <1>9, <2>2, <2>3 DEF EraseRows
<1>10. CASE UNCHANGED <<key, job, item, clean>>
  BY <1>10 DEF ThoroughSoFar, Purgeable, Expired
<1>11. QED
  BY <1>1, <1>2, <1>3, <1>4, <1>5, <1>6, <1>7, <1>8, <1>9, <1>10, StepKinds
  DEF Cleanup, Erase, StartErase, ListFiles, EraseCrash, EndErase, EraseFile, removal, others, still, vars

LEMMA CleanupImplied ==
  ASSUME TypeOK, KeyKept, ThoroughSoFar
  PROVE  CleanupSound
<1>1. ThingTypes /\ CleanTypes
  BY TypesSplit
<1>2. \A part \in Tables \union {"jobs", "keys"} : "done" \in After(part)
  BY DEF After, Tables
<1>3. CleanupThorough
  BY <1>2 DEF CleanupThorough, ThoroughSoFar
<1>4. KeyOfRunningJobKept
  BY DEF KeyOfRunningJobKept, KeyKept
<1>5. QED
  BY <1>3, <1>4 DEF CleanupSound

(* CleanupSound: a cleanup that is over has left nothing in a table, among *)
(* the rows of the jobs or among the keys that is over its days, unless it *)
(* says that the query of that very part failed; and while the customer is *)
(* there it takes no key of which a job is queued or runs, however the     *)
(* jobs move between its query and its delete.                             *)
THEOREM CleanupIsSound == Spec => []CleanupSound
<1>1. Init => KeyKept /\ ThoroughSoFar
  BY KeyKeptInit, ThoroughInit
<1>2. TypeOK /\ KeyKept /\ ThoroughSoFar /\ [Next]_vars => KeyKept' /\ ThoroughSoFar'
  BY KeyKeptStep, ThoroughStep
<1>3. TypeOK /\ KeyKept /\ ThoroughSoFar => CleanupSound
  BY CleanupImplied
<1>4. QED
  BY <1>1, <1>2, <1>3, RemovalTypesHold, PTL DEF Spec

-----------------------------------------------------------------------------
(* Files and their rows                                                    *)

(* Where an export stands, in its row and in the bucket: a row that is     *)
(* completed is as old as its file, and the bucket's rule takes the file   *)
(* within a day.                                                           *)
StageOf(j) ==
  /\ run[j] = "idle" => job[j].status \in {"none", "QUEUED"}
  /\ run[j] \in {"running", "uploaded"} => job[j].status \in {"none", "PROCESSING"}
  /\ run[j] \in {"idle", "running"} => file[j] = None
  /\ There /\ run[j] \in {"running", "uploaded"} => job[j].status = "PROCESSING"
  /\ There /\ run[j] = "uploaded" => file[j] = 0
  /\ job[j].status = "COMPLETED" =>
       /\ run[j] = "over" /\ job[j].age \in Nat
       /\ file[j] = job[j].age \/ (file[j] = None /\ job[j].age > LifecycleDays)
  /\ file[j] <= LifecycleDays + 1
  /\ There /\ file[j] # None => job[j] # NoRow

FilesInv == \A j \in Jobs : StageOf(j)

LEMMA FilesInit ==
  ASSUME Init
  PROVE  FilesInv
<1>1. \A j \in Jobs : job[j].status = "none" /\ run[j] = "idle" /\ file[j] = None
  BY DEF Init, NoRow
<1>2. None <= LifecycleDays + 1
  BY DEF None
<1>3. QED
  BY <1>1, <1>2 DEF FilesInv, StageOf

LEMMA FilesStep ==
  ASSUME TypeOK, ErasedInv, FilesInv, [Next]_vars, NEW i \in Jobs
  PROVE  StageOf(i)'
<1>0. ThingTypes /\ EraseTypes /\ StageOf(i)
  BY TypesSplit DEF FilesInv
<1>a. /\ job[i] \in JobRow /\ run[i] \in {"idle", "running", "uploaded", "over"} /\ file[i] \in Ages
      /\ customer \in {"there", "gone"} /\ (job[i].status = "none" => job[i] = NoRow)
  BY <1>0 DEF ThingTypes
<1>b. NoRow.status = "none" /\ None \notin Nat
  BY DEF NoRow, None
<1>c. ASSUME UNCHANGED <<customer, job, run, file>>
      PROVE  StageOf(i)'
  BY <1>0, <1>c DEF StageOf, There
<1>d. /\ job \in [Jobs -> JobRow] /\ run \in [Jobs -> {"idle", "running", "uploaded", "over"}]
      /\ file \in [Jobs -> Ages]
  BY <1>0 DEF ThingTypes
<1>1. CASE ExportStep
  <2>1. PICK j \in Jobs : CreateJob(j) \/ JobStep(j) \/ Lifecycle(j)
    BY <1>1 DEF ExportStep
  <2>2. customer' = customer
    BY <2>1 DEF CreateJob, JobStep, StartJob, Upload, CompleteJob, FailJob, Lifecycle, others
  <2>3. CASE i # j
    <3>1. job'[i] = job[i] /\ run'[i] = run[i] /\ file'[i] = file[i]
      BY <1>d, <2>1, <2>3 DEF CreateJob, JobStep, StartJob, Upload, CompleteJob, FailJob, Lifecycle
    <3>2. QED
      BY <1>0, <2>2, <3>1 DEF StageOf, There
  <2>4. CASE i = j /\ CreateJob(i)
    <3>1. job[i] = NoRow /\ run[i] = "idle" /\ UNCHANGED <<run, file>>
          /\ job'[i] = [job[i] EXCEPT !.status = "QUEUED"]
      BY <1>d, <2>4 DEF CreateJob
    <3>2. job'[i].status = "QUEUED"
      BY <1>a, <3>1 DEF JobRow
    <3>3. QED
      BY <1>0, <1>b, <2>2, <3>1, <3>2 DEF StageOf, There
  <2>5. CASE i = j /\ StartJob(i)
    <3>1. /\ run[i] = "idle" /\ run'[i] = "running" /\ file' = file
          /\ job'[i].status = "PROCESSING"
      BY <1>d, <2>5 DEF StartJob, JobRow
    <3>2. QED
      BY <1>0, <1>b, <2>2, <3>1 DEF StageOf, There
  <2>6. CASE i = j /\ Upload(i)
    <3>1. run[i] = "running" /\ run'[i] = "uploaded" /\ file'[i] = 0 /\ job' = job
      BY <1>d, <2>6 DEF Upload
    <3>2. 0 <= LifecycleDays + 1
      OBVIOUS
    <3>3. QED
      BY <1>0, <1>b, <2>2, <3>1, <3>2 DEF StageOf, There
  <2>7. CASE i = j /\ CompleteJob(i)
    <3>1. PICK set \in BOOLEAN : job' = [job EXCEPT ![i] = RowAfter(i, set)]
      BY <2>7 DEF CompleteJob
    <3>2. run[i] = "uploaded" /\ run'[i] = "over" /\ file' = file /\ job'[i] = RowAfter(i, set)
      BY <1>d, <2>7, <3>1 DEF CompleteJob
    <3>3. CASE job[i] = NoRow
      <4>1. job'[i] = NoRow /\ ~ There
        BY <1>0, <1>b, <3>2, <3>3 DEF RowAfter, StageOf
      <4>2. QED
        BY <1>0, <1>b, <2>2, <3>2, <4>1 DEF StageOf, There
    <3>4. CASE job[i] # NoRow
      <4>1. job'[i] = [status |-> "COMPLETED", age |-> 0, expiry |-> set]
        BY <3>2, <3>4 DEF RowAfter
      <4>2. job'[i].status = "COMPLETED" /\ job'[i].age = 0 /\ job'[i] # NoRow
        BY <1>b, <4>1
      <4>3. There
        BY <3>4 DEF ErasedInv, RowsStayErased
      <4>4. file[i] = 0
        BY <1>0, <3>2, <4>3 DEF StageOf
      <4>5. QED
        BY <1>0, <2>2, <3>2, <4>2, <4>4 DEF StageOf, There
    <3>5. QED
      BY <3>3, <3>4
  <2>8. CASE i = j /\ FailJob(i)
    <3>1. run[i] = "running" /\ run'[i] = "over" /\ UNCHANGED <<job, file>>
      BY <1>d, <2>8 DEF FailJob
    <3>2. job[i].status # "COMPLETED" /\ file[i] = None
      BY <1>0, <3>1 DEF StageOf
    <3>3. QED
      BY <1>0, <2>2, <3>1, <3>2 DEF StageOf, There
  <2>9. CASE i = j /\ Lifecycle(i)
    <3>1. file[i] > LifecycleDays /\ file'[i] = None /\ UNCHANGED <<job, run>>
      BY <1>d, <2>9 DEF Lifecycle, FileIsOver
    <3>2. ~ (There /\ run[i] = "uploaded")
      BY <1>0, <3>1 DEF StageOf
    <3>3. job[i].status = "COMPLETED" => job[i].age > LifecycleDays
      BY <1>0, <3>1 DEF StageOf, None
    <3>4. None <= LifecycleDays + 1
      BY DEF None
    <3>5. QED
      BY <1>0, <2>2, <3>1, <3>2, <3>3, <3>4 DEF StageOf, There
  <2>10. QED
    BY <2>1, <2>3, <2>4, <2>5, <2>6, <2>7, <2>8, <2>9 DEF JobStep
<1>2. CASE Day
  <2>1. /\ UNCHANGED <<customer, run>> /\ file'[i] = Older(file[i])
        /\ job'[i] = [job[i] EXCEPT !.age = Older(job[i].age)]
        /\ run[i] # "uploaded" /\ ~ (file[i] > LifecycleDays)
    BY <1>2 DEF Day, FileIsOver
  <2>2. job'[i].status = job[i].status /\ job'[i].age = Older(job[i].age) /\ job[i].age \in Ages
    BY <1>a, <2>1 DEF JobRow
  <2>3. file'[i] = None <=> file[i] = None
    BY <1>a, <2>1 DEF Older, Ages, None
  <2>4. file'[i] <= LifecycleDays + 1
    BY <1>a, <2>1 DEF Older, Ages, None
  <2>5. /\ job[i].age > LifecycleDays => job'[i].age > LifecycleDays
        /\ job[i].age \in Nat => job'[i].age \in Nat
    BY <2>2 DEF Older, Ages, None
  <2>6. QED
    BY <1>0, <1>a, <1>b, <2>1, <2>2, <2>3, <2>4, <2>5 DEF StageOf, There
<1>3. CASE PurgeJobs
  <2>1. UNCHANGED <<customer, run, file>> /\ job'[i] = IF Purgeable(i) THEN NoRow ELSE job[i]
    BY <1>3 DEF PurgeJobs, others
  <2>2. CASE Purgeable(i)
    <3>1. job[i].age > JobDays /\ job[i].status = "COMPLETED"
      BY <1>a, <2>2 DEF Purgeable, JobRow
    <3>2. job[i].age > LifecycleDays + 1
      BY <1>a, <3>1 DEF JobRow, Ages, None
    <3>3. file[i] # job[i].age
      BY <1>0, <1>a, <3>2 DEF StageOf, JobRow, Ages, None
    <3>4. file[i] = None /\ run[i] = "over"
      BY <1>0, <3>1, <3>3 DEF StageOf
    <3>5. QED
      BY <1>0, <1>b, <2>1, <2>2, <3>4 DEF StageOf, There
  <2>3. CASE ~ Purgeable(i)
    BY <1>0, <2>1, <2>3 DEF StageOf, There
  <2>4. QED
    BY <2>2, <2>3
<1>4. CASE EraseRows
  <2>1. UNCHANGED <<run, file>>
    BY <1>4 DEF EraseRows
  <2>2. CASE customer' = "gone" /\ job' = [j \in Jobs |-> NoRow]
    BY <1>0, <1>b, <2>1, <2>2 DEF StageOf, There
  <2>3. CASE UNCHANGED <<customer, job>>
    BY <1>c, <2>1, <2>3
  <2>4. QED
    BY <1>4, <2>2, <2>3 DEF EraseRows
<1>5. CASE \E j \in Jobs : EraseFile(j)
  <2>1. PICK j \in Jobs : EraseFile(j)
    BY <1>5
  <2>2. UNCHANGED <<customer, job, run>>
    BY <2>1 DEF EraseFile
  <2>3. ~ There
    BY <2>1 DEF EraseFile, ErasedInv, CustomerFirst
  <2>4. job[i].status # "COMPLETED"
    BY <1>b, <2>3 DEF ErasedInv, RowsStayErased
  <2>5. file'[i] = file[i] \/ file'[i] = None
    BY <1>0, <1>d, <2>1, EraseFileSteps
  <2>6. None <= LifecycleDays + 1
    BY DEF None
  <2>7. QED
    BY <1>0, <2>2, <2>3, <2>4, <2>5, <2>6 DEF StageOf, There
<1>6. QED
  BY <1>c, <1>1, <1>2, <1>3, <1>4, <1>5, StepKinds
  DEF Cleanup, StartCleanup, FindKeys, DropKeys, Purge, CleanupError, EndCleanup,
      Erase, StartErase, ListFiles, EraseCrash, EndErase, RevokeKey, LogStarts, LogWritten,
      others, still, vars

LEMMA FilesImplied ==
  ASSUME TypeOK, FilesInv
  PROVE  FilesMatchRows
<1>1. ASSUME NEW j \in Jobs, RetentionDays <= LifecycleDays, job[j].status = "COMPLETED",
             job[j].age <= RetentionDays
      PROVE  file[j] # None
  <2>0. job[j].age \in Nat /\ (file[j] = job[j].age \/ job[j].age > LifecycleDays)
    BY <1>1 DEF FilesInv, StageOf
  <2>1. RetentionDays \in Nat /\ LifecycleDays \in Nat
    OBVIOUS
  <2>2. file[j] = job[j].age
    BY <1>1, <2>0, <2>1
  <2>3. QED
    BY <2>0, <2>2 DEF None
<1>2. QED
  BY <1>1 DEF FilesMatchRows, LinkHasFile, FileHasRow, FilesInv, StageOf

(* FilesMatchRows: wherever a download is offered its file is in the       *)
(* bucket, if the customer's days are not more than the bucket's, and no   *)
(* file is left in the bucket without its row as long as the customer is   *)
(* there. It needs that the bucket's rule is faster than the purge of the  *)
(* rows (RowOutlivesFile).                                                 *)
THEOREM FilesAndRowsMatch == Spec => []FilesMatchRows
<1>1. ASSUME TypeOK, ErasedInv, FilesInv, [Next]_vars PROVE FilesInv'
  BY <1>1, FilesStep DEF FilesInv
<1>2. TypeOK /\ FilesInv => FilesMatchRows
  BY FilesImplied
<1>3. QED
  BY <1>1, <1>2, FilesInit, RemovalTypesHold, ErasedHolds, PTL DEF Spec

-----------------------------------------------------------------------------
(* What a deletion leaves                                                  *)

(* Unless it is noted, nothing was under way when the rows went that could *)
(* bring a file or a name back.                                            *)
NothingComes ==
  ~ There /\ ~ erase.unseen =>
    /\ ~ rawLog /\ ~ logLater
    /\ \A j \in Jobs : run[j] \notin {"running", "uploaded"}

(* Files up to the token are gone or on the page that is dealt with.       *)
Swept ==
  ~ erase.errors /\ ~ erase.unseen =>
    /\ erase.step \in {"list", "files"} =>
         \A j \in Jobs : file[j] # None => j > erase.token \/ j \in erase.todo
    /\ erase.step = "last" => \A j \in Jobs : file[j] # None => j \in erase.todo
    /\ erase.step \in {"email", "done"} => \A j \in Jobs : file[j] = None

SweptInv == NothingComes /\ Swept

LEMMA SweptInit ==
  ASSUME Init
  PROVE  SweptInv
BY DEF Init, SweptInv, NothingComes, Swept, There

LEMMA NothingComesStep ==
  ASSUME TypeOK, ErasedInv, NothingComes, [Next]_vars
  PROVE  NothingComes'
<1>0. ThingTypes /\ EraseTypes
  BY TypesSplit
<1>a. ASSUME ~ There PROVE \A j \in Jobs : job[j] = NoRow /\ ~ InProgress(j)
  <2>1. \A j \in Jobs : job[j] = NoRow
    BY <1>a DEF ErasedInv, RowsStayErased
  <2>2. NoRow.status = "none"
    BY DEF NoRow
  <2>3. QED
    BY <2>1, <2>2 DEF InProgress
<1>b. ASSUME UNCHANGED customer, erase'.unseen = erase.unseen, rawLog' => rawLog, logLater' => logLater,
             There \/ UNCHANGED run
      PROVE  NothingComes'
  BY <1>b DEF NothingComes, There
<1>1. CASE ExportStep
  <2>1. PICK j \in Jobs : CreateJob(j) \/ JobStep(j) \/ Lifecycle(j)
    BY <1>1 DEF ExportStep
  <2>2. UNCHANGED <<customer, erase, rawLog, logLater>>
    BY <2>1 DEF CreateJob, JobStep, StartJob, Upload, CompleteJob, FailJob, Lifecycle, removal, others
  <2>3. CASE There
    BY <2>2, <2>3 DEF NothingComes, There
  <2>4. CASE ~ There /\ ~ erase.unseen
    <3>1. run[j] \notin {"running", "uploaded"} /\ ~ StartJob(j)
      BY <1>a, <2>4 DEF StartJob, NothingComes
    <3>2. run' = run
      BY <2>1, <3>1 DEF CreateJob, JobStep, Upload, CompleteJob, FailJob, Lifecycle
    <3>3. QED
      BY <1>b, <2>2, <3>2
  <2>5. CASE erase.unseen
    BY <2>2, <2>5 DEF NothingComes
  <2>6. QED
    BY <2>3, <2>4, <2>5
<1>2. CASE LogStarts \/ LogWritten
  <2>1. UNCHANGED <<customer, run, erase>> /\ (There \/ logLater)
    BY <1>2 DEF LogStarts, LogWritten, removal
  <2>2. QED
    BY <2>1 DEF NothingComes, There
<1>3. CASE EraseRows
  <2>1. UNCHANGED <<run, logLater>>
    BY <1>3 DEF EraseRows
  <2>2. CASE UNCHANGED <<customer, rawLog>> /\ erase' = [erase EXCEPT !.step = "idle"]
    BY <1>0, <1>b, <2>1, <2>2 DEF EraseTypes
  <2>3. CASE /\ rawLog' = FALSE
             /\ erase' = [erase EXCEPT !.step = "list",
                  !.unseen = logLater \/ \E j \in Jobs : run[j] \in {"running", "uploaded"}]
    <3>1. erase'.unseen = (logLater \/ \E j \in Jobs : run[j] \in {"running", "uploaded"})
      BY <1>0, <2>3, Zenon DEF EraseTypes
    <3>2. QED
      BY <2>1, <2>3, <3>1 DEF NothingComes
  <2>4. QED
    BY <1>3, <2>2, <2>3 DEF EraseRows
<1>4. CASE ListFiles
  <2>1. UNCHANGED <<customer, run, rawLog, logLater>>
    BY <1>4 DEF ListFiles, others
  <2>2. erase'.unseen = erase.unseen
    BY <1>0, <1>4 DEF ListFiles, EraseTypes
  <2>3. QED
    BY <1>b, <2>1, <2>2
<1>5. CASE \E j \in Jobs : EraseFile(j)
  <2>1. UNCHANGED <<customer, run, rawLog, logLater>>
    BY <1>5 DEF EraseFile, others
  <2>2. erase.unseen => erase'.unseen
    BY <1>0, <1>5, EraseFileSteps
  <2>3. QED
    BY <2>1, <2>2 DEF NothingComes, There
<1>6. CASE StartErase \/ EraseCrash \/ EndErase
  <2>1. UNCHANGED <<customer, run, rawLog, logLater>> /\ erase'.unseen = erase.unseen
    BY <1>0, <1>6 DEF StartErase, EraseCrash, EndErase, others, EraseTypes
  <2>2. QED
    BY <1>b, <2>1
<1>7. CASE Cleanup
  <2>1. UNCHANGED <<customer, run, erase, logLater>>
    BY <1>7 DEF Cleanup, StartCleanup, FindKeys, DropKeys, PurgeJobs, CleanupError, EndCleanup,
                Purge, others
  <2>2. rawLog' => rawLog
    BY <1>7 DEF Cleanup, StartCleanup, FindKeys, DropKeys, PurgeJobs, CleanupError, EndCleanup,
                Purge, others
  <2>3. QED
    BY <1>b, <2>1, <2>2
<1>8. CASE UNCHANGED <<customer, run, erase, rawLog, logLater>>
  BY <1>b, <1>8
<1>9. QED
  BY <1>1, <1>2, <1>3, <1>4, <1>5, <1>6, <1>7, <1>8, StepKinds
  DEF Erase, RevokeKey, Day, others, still, vars

LEMMA SweptStep ==
  ASSUME TypeOK, ErasedInv, SweptInv, [Next]_vars
  PROVE  Swept'
<1>0. ThingTypes /\ EraseTypes
  BY TypesSplit
<1>a. file \in [Jobs -> Ages] /\ erase.token \in Nat /\ erase.todo \subseteq Jobs
  BY <1>0 DEF ThingTypes, EraseTypes
<1>b. ASSUME UNCHANGED erase, \A j \in Jobs : file'[j] # None => file[j] # None
      PROVE  Swept'
  BY <1>b DEF SweptInv, Swept
<1>1. CASE ExportStep
  <2>1. PICK j \in Jobs : CreateJob(j) \/ JobStep(j) \/ Lifecycle(j)
    BY <1>1 DEF ExportStep
  <2>2. UNCHANGED <<erase, customer>>
    BY <2>1 DEF CreateJob, JobStep, StartJob, Upload, CompleteJob, FailJob, Lifecycle, removal
  <2>3. CASE Upload(j)
    <3>1. There \/ erase.unseen
      BY <2>3 DEF Upload, SweptInv, NothingComes
    <3>2. CASE erase.unseen
      BY <2>2, <3>2 DEF Swept
    <3>3. CASE There
      BY <2>2, <3>3 DEF ErasedInv, CustomerFirst, Swept
    <3>4. QED
      BY <3>1, <3>2, <3>3
  <2>4. CASE ~ Upload(j)
    <3>1. file' = file \/ file' = [file EXCEPT ![j] = None]
      BY <2>1, <2>4 DEF CreateJob, JobStep, StartJob, CompleteJob, FailJob, Lifecycle
    <3>2. QED
      BY <1>a, <1>b, <2>2, <3>1
  <2>5. QED
    BY <2>3, <2>4
<1>2. CASE Day
  <2>1. \A j \in Jobs : file'[j] = Older(file[j])
    BY <1>2 DEF Day
  <2>2. Older(None) = None
    BY DEF Older, None
  <2>3. erase' = erase
    BY <1>2 DEF Day
  <2>4. QED
    BY <1>b, <2>1, <2>2, <2>3
<1>3. CASE EraseRows
  <2>1. file' = file /\ erase.step = "rows" /\ erase.token = 0
    BY <1>3 DEF EraseRows, ErasedInv, CustomerFirst
  <2>2. erase'.token = 0 /\ erase'.step \in {"idle", "list"}
    BY <1>0, <1>3, <2>1 DEF EraseRows, EraseTypes
  <2>3. \A j \in Jobs : j > 0
    OBVIOUS
  <2>4. QED
    BY <2>2, <2>3 DEF Swept
<1>4. CASE ListFiles
  <2>1. file' = file /\ erase.step = "list" /\ erase.todo = {}
    BY <1>4 DEF ListFiles, ErasedInv, CustomerFirst
  <2>2. ASSUME ~ erase.errors, ~ erase.unseen
        PROVE  \A j \in Jobs : file[j] # None => j \in Listed
    BY <2>1, <2>2 DEF SweptInv, Swept, Listed
  <2>3. CASE Page # {} /\ erase' = [erase EXCEPT !.step = IF IsTruncated THEN "files" ELSE "last",
                                     !.todo = Page, !.token = Token]
    <3>1. /\ erase'.todo = Page /\ erase'.token = Token /\ erase'.errors = erase.errors
          /\ erase'.unseen = erase.unseen /\ erase'.step = IF IsTruncated THEN "files" ELSE "last"
      BY <1>0, <2>3 DEF EraseTypes
    <3>2. Token \in Page /\ Page \subseteq Listed /\ Listed \subseteq Jobs
      BY <2>3, PageIsFirst, TokenIsLast
    <3>3. \A j \in Listed : j > Token \/ j \in Page
      <4> TAKE j \in Listed
      <4>1. j \in Nat /\ Token \in Nat
        BY <3>2
      <4>2. j < Token => j \in Page
        BY <3>2, PageIsFirst
      <4>3. QED
        BY <3>2, <4>1, <4>2
    <3>4. ~ IsTruncated => Listed = Page
      BY DEF IsTruncated
    <3>5. QED
      BY <2>1, <2>2, <3>1, <3>3, <3>4 DEF Swept
  <2>4. CASE Page = {} /\ erase' = [erase EXCEPT !.step = "email"]
    <3>1. Listed = {}
      BY <2>4, PageIsFirst
    <3>2. erase'.errors = erase.errors /\ erase'.unseen = erase.unseen /\ erase'.step = "email"
      BY <1>0, <2>4 DEF EraseTypes
    <3>3. QED
      BY <2>1, <2>2, <3>1, <3>2 DEF Swept
  <2>5. CASE erase' = [erase EXCEPT !.step = "email", !.errors = TRUE]
    <3>1. erase'.errors
      BY <1>0, <2>5 DEF EraseTypes
    <3>2. QED
      BY <3>1 DEF Swept
  <2>6. QED
    BY <1>4, <2>3, <2>4, <2>5 DEF ListFiles, Token
<1>5. CASE \E j \in Jobs : EraseFile(j)
  <2>1. PICK j \in Jobs : EraseFile(j)
    BY <1>5
  <2>2. SUFFICES ASSUME ~ erase'.errors, ~ erase'.unseen PROVE Swept'
    BY DEF Swept
  <2>3. /\ j \in erase.todo /\ erase'.todo = erase.todo \ {j} /\ erase'.token = erase.token
        /\ erase'.step = IF erase.todo # {j} THEN erase.step
                         ELSE IF erase.step = "files" THEN "list" ELSE "email"
        /\ ~ erase.errors /\ ~ erase.unseen
        /\ file' = [file EXCEPT ![j] = None]
    BY <1>0, <2>1, <2>2, EraseFileSteps
  <2>4. erase.step \in {"files", "last"}
    BY <2>3 DEF ErasedInv, CustomerFirst
  <2>5. \A i \in Jobs : file'[i] # None => file[i] # None /\ i # j
    BY <1>a, <2>3
  <2>6. CASE erase.step = "files"
    BY <2>3, <2>5, <2>6 DEF SweptInv, Swept
  <2>7. CASE erase.step = "last"
    BY <2>3, <2>5, <2>7 DEF SweptInv, Swept
  <2>8. QED
    BY <2>4, <2>6, <2>7
<1>6. CASE StartErase \/ EraseCrash
  <2>1. erase'.step \in {"rows", "crashed"}
    BY <1>0, <1>6 DEF StartErase, EraseCrash, EraseTypes
  <2>2. QED
    BY <2>1 DEF Swept
<1>7. CASE EndErase
  <2>1. /\ erase.step = "email" /\ file' = file /\ erase'.step = "done"
        /\ erase'.errors = erase.errors /\ erase'.unseen = erase.unseen
    BY <1>0, <1>7 DEF EndErase, EraseTypes
  <2>2. QED
    BY <2>1 DEF SweptInv, Swept
<1>8. CASE UNCHANGED <<file, erase>>
  BY <1>b, <1>8
<1>9. QED
  BY <1>1, <1>2, <1>3, <1>4, <1>5, <1>6, <1>7, <1>8, StepKinds
  DEF Erase, RevokeKey, removal, others, still, vars

(* ErasureHolds: a deletion that ends without an error has left no file of *)
(* the customer in the bucket, page after page of the listing, and no      *)
(* audit entry that names them, unless an export or an entry was under way *)
(* when the rows were deleted or the bucket refused a file in an answer    *)
(* that is not read; and no row of the customer comes back, whatever runs  *)
(* on.                                                                     *)
THEOREM ErasureIsLasting == Spec => []ErasureHolds
<1>1. ASSUME TypeOK, ErasedInv, SweptInv, [Next]_vars PROVE SweptInv'
  BY <1>1, NothingComesStep, SweptStep DEF SweptInv
<1>2. ASSUME TypeOK, ErasedInv, SweptInv PROVE ErasureHolds
  BY <1>2 DEF ErasureHolds, ErasedIsErased, ErasedInv, CustomerFirst, SweptInv, NothingComes, Swept
<1>3. QED
  BY <1>1, <1>2, SweptInit, RemovalTypesHold, ErasedHolds, PTL DEF Spec

-----------------------------------------------------------------------------
(* Consent                                                                 *)

Alert == mail["usage_alert"]

(* While the customer is there a consent that is seen is one that was      *)
(* given since the alert was queued, or before and kept; who is gone when  *)
(* the job runs does not come back.                                        *)
ConsentInv ==
  /\ Alert.place # "none" /\ consent => consented
  /\ Alert.place = "none" => ~ Alert.sent
  /\ Alert.sent \/ Alert.place \in {"checked", "sent"} =>
       /\ Alert.row # "none"
       /\ Alert.row = "there" => consented
  /\ Alert.row = "gone" => ~ There

LEMMA ConsentInit ==
  ASSUME Init
  PROVE  ConsentInv
BY DEF Init, ConsentInv, Alert, Emails

LEMMA ConsentStep ==
  ASSUME TypeOK, ConsentInv, [Next]_vars
  PROVE  ConsentInv'
<1>0. ThingTypes /\ MailTypes
  BY TypesSplit
<1>a. mail \in [Emails -> Letter] /\ "usage_alert" \in Emails /\ "deletion_confirmation" \in Emails
  BY <1>0 DEF MailTypes, Letter, Emails
<1>b. customer \in {"there", "gone"} /\ Alert \in Letter
  BY <1>0, <1>a DEF ThingTypes, Alert
<1>c. ASSUME UNCHANGED <<mail, consent, consented>>, There' => There
      PROVE  ConsentInv'
  BY <1>c DEF ConsentInv, Alert
<1>d. ASSUME NEW e \in Emails, e # "usage_alert", mail'["usage_alert"] = mail["usage_alert"],
             UNCHANGED <<customer, consent, consented>>
      PROVE  ConsentInv'
  BY <1>d DEF ConsentInv, Alert, There
<1>1. CASE QueueAlert
  <2>1. /\ mail["usage_alert"].place = "none" /\ customer' = customer /\ There
        /\ consented' = consent /\ consent' = consent
        /\ mail'["usage_alert"] = [mail["usage_alert"] EXCEPT !.place = "queued"]
    BY <1>a, <1>1 DEF QueueAlert, Queue, still
  <2>2. Alert'.place = "queued" /\ Alert'.sent = Alert.sent /\ Alert'.row = Alert.row
    BY <1>b, <2>1 DEF Alert, Letter
  <2>3. QED
    BY <2>1, <2>2 DEF ConsentInv, Alert, There
<1>2. CASE UpdateConsent
  BY <1>2 DEF UpdateConsent, still, ConsentInv, Alert, There
<1>3. CASE EndErase
  <2>1. mail'["usage_alert"] = mail["usage_alert"]
    BY <1>a, <1>3 DEF EndErase, Queue
  <2>2. QED
    BY <1>3, <2>1 DEF EndErase, ConsentInv, Alert, There
<1>4. ASSUME NEW e \in Emails, MailStep(e) \/ FailMail(e) PROVE ConsentInv'
  <2>1. UNCHANGED <<customer, consent, consented>>
    BY <1>4 DEF MailStep, CheckMail, SendMail, EndMail, FailMail, still
  <2>2. CASE e # "usage_alert"
    <3>1. mail'["usage_alert"] = mail["usage_alert"]
      BY <1>a, <1>4, <2>2 DEF MailStep, CheckMail, SendMail, EndMail, FailMail
    <3>2. QED
      BY <1>d, <2>1, <2>2, <3>1
  <2>3. CASE e = "usage_alert" /\ CheckMail(e)
    <3>1. Alert.place = "queued"
      BY <2>3 DEF CheckMail, Alert
    <3>2. mail' = [mail EXCEPT ![e].place = IF Refused(e) THEN "dropped" ELSE "checked", ![e].row = customer]
      BY <2>3 DEF CheckMail
    <3>3. /\ Alert'.place = (IF Refused("usage_alert") THEN "dropped" ELSE "checked")
          /\ Alert'.sent = Alert.sent /\ Alert'.row = customer
      BY <1>a, <2>3, <3>2 DEF Alert, Letter
    <3>4. There /\ ~ Refused("usage_alert") => consent
      BY DEF Refused, Marketing
    <3>5. CASE There
      <4>1. Alert.row # "gone"
        BY <3>5 DEF ConsentInv
      <4>2. QED
        BY <1>b, <2>1, <3>1, <3>3, <3>4, <3>5, <4>1 DEF ConsentInv, There, Letter
    <3>6. CASE ~ There
      BY <1>b, <2>1, <3>1, <3>3, <3>6 DEF ConsentInv, There
    <3>7. QED
      BY <3>5, <3>6
  <2>4. CASE e = "usage_alert" /\ SendMail(e)
    <3>1. Alert.place = "checked"
      BY <2>4 DEF SendMail, Alert
    <3>2. PICK b \in BOOLEAN : mail' = [mail EXCEPT ![e].place = "sent", ![e].sent = b]
      BY <1>a, <2>4 DEF SendMail
    <3>3. Alert'.place = "sent" /\ Alert'.row = Alert.row
      BY <1>a, <2>4, <3>2 DEF Alert, Letter
    <3>4. QED
      BY <2>1, <3>1, <3>3 DEF ConsentInv, There
  <2>5. CASE e = "usage_alert" /\ EndMail(e)
    <3>1. /\ Alert.place = "sent" /\ Alert'.place = "done" /\ Alert'.row = Alert.row
          /\ Alert'.sent = Alert.sent
      BY <1>a, <2>5 DEF EndMail, Alert, Letter
    <3>2. QED
      BY <2>1, <3>1 DEF ConsentInv, There
  <2>6. CASE e = "usage_alert" /\ FailMail(e)
    <3>1. PICK p \in {"queued", "failed"}, n \in Nat : mail' = [mail EXCEPT ![e].place = p, ![e].tries = n]
      <4>1. mail[e].tries \in Nat /\ TriesAfter(e) \in Nat
        BY <1>a DEF Letter, TriesAfter
      <4>2. QED
        BY <2>6, <4>1 DEF FailMail
    <3>2. Alert'.place = p /\ Alert'.row = Alert.row /\ Alert'.sent = Alert.sent
      BY <1>a, <2>6, <3>1 DEF Alert, Letter
    <3>3. Alert.place # "none"
      BY <2>6 DEF FailMail, Alert
    <3>4. QED
      BY <2>1, <3>1, <3>2, <3>3 DEF ConsentInv, There
  <2>7. QED
    BY <1>4, <2>2, <2>3, <2>4, <2>5, <2>6 DEF MailStep
<1>5. CASE UNCHANGED <<mail, consent, consented>> /\ (There' => There)
  BY <1>c, <1>5
<1>6. CASE Erase /\ ~ EndErase
  <2>1. UNCHANGED <<mail, consent, consented>>
    BY <1>6 DEF Erase, StartErase, EraseRows, ListFiles, EraseCrash, EraseFile, others
  <2>2. customer' = customer \/ customer' = "gone"
    BY <1>6 DEF Erase, StartErase, EraseRows, ListFiles, EraseCrash, EraseFile
  <2>3. QED
    BY <1>c, <2>1, <2>2 DEF There
<1>7. QED
  BY <1>1, <1>2, <1>3, <1>4, <1>5, <1>6, StepKinds
  DEF MailAction, There, RevokeKey, Day, Cleanup, others, still, vars

(* MarketingConsented: a usage alert is sent to a customer who was there   *)
(* when its job ran only with a consent given when it was queued or since, *)
(* through retries and answers that are lost.                              *)
THEOREM AlertsHaveConsent == Spec => []MarketingConsented
<1>1. TypeOK /\ ConsentInv /\ [Next]_vars => ConsentInv'
  BY ConsentStep
<1>2. ConsentInv => MarketingConsented
  BY DEF ConsentInv, MarketingConsented, Marketing, Alert
<1>3. QED
  BY <1>1, <1>2, ConsentInit, RemovalTypesHold, PTL DEF Spec
=============================================================================
