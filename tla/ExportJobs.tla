----------------------------- MODULE ExportJobs -----------------------------
(***************************************************************************)
(* The life of an export job: the producers that put it on the BullMQ      *)
(* queue and then write its row, the export workers that run it, and the   *)
(* queue-event listeners that copy its outcome into Postgres and tell the  *)
(* customer.                                                               *)
(*                                                                         *)
(* Both the API server and the worker process import queue/workers.ts      *)
(* (which starts the export worker) and call setupQueueEvents, so each     *)
(* element of Procs is a process with a worker and a listener of its own.  *)
(* A step of this module is the code between two awaits.                   *)
(*                                                                         *)
(* The progress column, which no step below reads, is the subject of       *)
(* module JobProgress.                                                     *)
(***************************************************************************)
EXTENDS Integers, FiniteSets

CONSTANTS
  Jobs,          \* BullMQ job ids
  Billable,      \* the jobs whose export has at least one record
  Procs,         \* the processes that run the code
  Apis,          \* those of them that are API servers; the others are workers
  Channels,      \* what the customer wants: "email", "webhook", "warning"
  MaxAttempts,   \* defaultJobOptions.attempts, and the 3 of isFinalFailure
  MaxStalled,    \* BullMQ's maxStalledCount
  Faults,        \* what may go wrong: FaultKinds
  MaxExits       \* bound of the model: how often processes stop

FaultKinds == {"export", "db", "crash", "stall", "shutdown"}

ASSUME BillableAssumption == Billable \subseteq Jobs
ASSUME ApisAssumption == Apis \subseteq Procs
ASSUME ChannelsAssumption == Channels \subseteq {"email", "webhook", "warning"}
ASSUME MaxAttemptsAssumption == MaxAttempts \in Nat \ {0}
ASSUME MaxStalledAssumption == MaxStalled \in Nat
ASSUME FaultsAssumption == Faults \subseteq FaultKinds
ASSUME MaxExitsAssumption == MaxExits \in Nat

VARIABLES
  producer,      \* createJob / processSchedule, per job
  bull,          \* the state BullMQ keeps of a job
  made,          \* BullMQ's attemptsMade
  stalled,       \* BullMQ's stalled counter
  started,       \* how often the job was handed to a worker
  lock,          \* which of those runs holds the job's lock, 0 if none
  runs,          \* the calls of processExportJob in progress
  stage,         \* where each process is in its life
  exits,         \* how many times a process has stopped
  row,           \* status column of the job's row, "ABSENT" before it exists
  attempts,      \* attemptsMade column of the row
  completedAt,   \* whether the row has completedAt and result
  expires,       \* whether the row has fileExpiresAt
  usage,         \* usage records of the job
  handler,       \* where each listener is with the job's final event
  heard,         \* the final event a listener has been given of a job
  seen,          \* the attemptsMade the failed handler read
  emails,        \* emails put on the email queue
  deliveries,    \* WebhookDelivery rows
  hooks,         \* deliveries put on the webhook queue
  warnings       \* pre-deletion notices scheduled, as <<job, process>>

bullVars  == <<bull, made, stalled, started, lock, runs>>
procVars  == <<stage, exits>>
rowVars   == <<row, attempts, completedAt, expires, usage>>
eventVars == <<handler, heard, seen>>
outVars   == <<emails, deliveries, hooks, warnings>>
vars == <<producer, bullVars, procVars, rowVars, eventVars, outVars>>

Final == {"completed", "failed"}
BullStates == {"none", "waiting", "active"} \union Final
Notices == [job : Jobs, by : Procs, event : {"none"} \union Final]
Runs == [job : Jobs, n : Nat \ {0}, proc : Procs, made : Nat,
         phase : {"picked", "exporting"}]

(* The awaits a listener can be at: those of the completed handler, those  *)
(* of the failed handler, and the three that both have.                    *)
CompletedPhases == {"mark", "expiry", "warn", "usage"}
FailedPhases    == {"read", "increment"}
TellPhases      == {"email", "delivery", "enqueue"}
Phases == {"none"} \union CompletedPhases \union FailedPhases \union TellPhases

Listens(p) == stage[p] \in {"up", "draining"}
Fetches(p) == stage[p] \in {"up", "deaf"}
RunsOf(p)  == {r \in runs : r.proc = p}

Init ==
  /\ producer = [j \in Jobs |-> "idle"]
  /\ bull = [j \in Jobs |-> "none"]
  /\ made = [j \in Jobs |-> 0]
  /\ stalled = [j \in Jobs |-> 0]
  /\ started = [j \in Jobs |-> 0]
  /\ lock = [j \in Jobs |-> 0]
  /\ runs = {}
  /\ stage = [p \in Procs |-> "up"]
  /\ exits = 0
  /\ row = [j \in Jobs |-> "ABSENT"]
  /\ attempts = [j \in Jobs |-> 0]
  /\ completedAt = [j \in Jobs |-> FALSE]
  /\ expires = [j \in Jobs |-> FALSE]
  /\ usage = [j \in Jobs |-> 0]
  /\ handler = [p \in Procs |-> [j \in Jobs |-> "none"]]
  /\ heard = [p \in Procs |-> [j \in Jobs |-> "none"]]
  /\ seen = [p \in Procs |-> [j \in Jobs |-> 0]]
  /\ emails = {}
  /\ deliveries = {}
  /\ hooks = {}
  /\ warnings = {}

-----------------------------------------------------------------------------
(* Producers: createJob and processSchedule add to the queue first and     *)
(* write the row second.                                                   *)

Enqueue(j) ==
  /\ producer[j] = "idle"
  /\ producer' = [producer EXCEPT ![j] = "added"]
  /\ bull' = [bull EXCEPT ![j] = "waiting"]
  /\ UNCHANGED <<made, stalled, started, lock, runs, procVars, rowVars,
                 eventVars, outVars>>

CreateRow(j) ==
  /\ producer[j] = "added"
  /\ producer' = [producer EXCEPT ![j] = "done"]
  /\ row' = [row EXCEPT ![j] = "QUEUED"]
  /\ UNCHANGED <<attempts, completedAt, expires, usage, bullVars, procVars,
                 eventVars, outVars>>

(* job.create throws, or the process dies before it.                       *)
CreateRowLost(j) ==
  /\ Faults \intersect {"db", "crash"} # {}
  /\ producer[j] = "added"
  /\ producer' = [producer EXCEPT ![j] = "done"]
  /\ UNCHANGED <<bullVars, procVars, rowVars, eventVars, outVars>>

-----------------------------------------------------------------------------
(* BullMQ publishes a final outcome on the event stream; the handler of    *)
(* every process whose listener is connected starts on it. A listener      *)
(* reads from the end of the stream, so one that is not connected misses   *)
(* the event for good. Failed attempts that will be retried publish no     *)
(* "failed" event.                                                         *)

FirstPhase(outcome) == IF outcome = "completed" THEN "mark" ELSE "read"

Publish(j, outcome) ==
  /\ handler' = [p \in Procs |->
       IF Listens(p) THEN [handler[p] EXCEPT ![j] = FirstPhase(outcome)]
                     ELSE handler[p]]
  /\ heard' = [p \in Procs |->
       IF Listens(p) THEN [heard[p] EXCEPT ![j] = outcome] ELSE heard[p]]

PickUp(p, j) ==
  /\ Fetches(p)
  /\ bull[j] = "waiting"
  /\ bull' = [bull EXCEPT ![j] = "active"]
  /\ started' = [started EXCEPT ![j] = @ + 1]
  /\ lock' = [lock EXCEPT ![j] = started[j] + 1]
  /\ runs' = runs \union {[job |-> j, n |-> started[j] + 1, proc |-> p,
                           made |-> made[j], phase |-> "picked"]}
  /\ UNCHANGED <<producer, made, stalled, procVars, rowVars, eventVars, outVars>>

(* attemptsMade: job.attemptsMade || 1                                     *)
AttemptNumber(r) == IF r.made = 0 THEN 1 ELSE r.made

(* Mutant: the row is updated with updateMany, which does not throw when   *)
(* no row matches.                                                         *)
StartRunUpdateMany(r) ==
  /\ r.phase = "picked"
  /\ row' = [row EXCEPT ![r.job] = IF @ = "ABSENT" THEN @ ELSE "PROCESSING"]
  /\ attempts' = [attempts EXCEPT ![r.job] = AttemptNumber(r)]
  /\ runs' = (runs \ {r}) \union {[r EXCEPT !.phase = "exporting"]}
  /\ UNCHANGED <<producer, bull, made, stalled, started, lock, procVars,
                 completedAt, expires, usage, eventVars, outVars>>

(* processExportJob marks the row PROCESSING, whatever it said before.     *)
StartRun(r) ==
  /\ r.phase = "picked"
  /\ row[r.job] # "ABSENT"
  /\ row' = [row EXCEPT ![r.job] = "PROCESSING"]
  /\ attempts' = [attempts EXCEPT ![r.job] = AttemptNumber(r)]
  /\ runs' = (runs \ {r}) \union {[r EXCEPT !.phase = "exporting"]}
  /\ UNCHANGED <<producer, bull, made, stalled, started, lock, procVars,
                 completedAt, expires, usage, eventVars, outVars>>

(* BullMQ takes a run's result only from the holder of the job's lock.     *)
Holds(r) == lock[r.job] = r.n

FinishRun(r) ==
  /\ r.phase = "exporting"
  /\ runs' = runs \ {r}
  /\ IF Holds(r)
     THEN /\ bull' = [bull EXCEPT ![r.job] = "completed"]
          /\ made' = [made EXCEPT ![r.job] = @ + 1]
          /\ lock' = [lock EXCEPT ![r.job] = 0]
          /\ Publish(r.job, "completed")
     ELSE UNCHANGED <<bull, made, lock, handler, heard>>
  /\ UNCHANGED <<producer, stalled, started, procVars, rowVars, seen, outVars>>

(* Mutant: a run that finds no row waits for it instead of throwing.       *)
MayThrowNoMore(r) == r.phase = "exporting" /\ "export" \in Faults

(* The row to update is not there, the database or the export failed.      *)
MayThrow(r) ==
  \/ r.phase = "picked" /\ (row[r.job] = "ABSENT" \/ "db" \in Faults)
  \/ r.phase = "exporting" /\ "export" \in Faults

(* Mutant: the listener hears of every failed attempt, as a worker's own   *)
(* "failed" event would tell it.                                           *)
FailAttemptTold(j) ==
  /\ made' = [made EXCEPT ![j] = @ + 1]
  /\ lock' = [lock EXCEPT ![j] = 0]
  /\ bull' = [bull EXCEPT ![j] =
                IF made[j] + 1 < MaxAttempts THEN "waiting" ELSE "failed"]
  /\ Publish(j, "failed")

(* BullMQ retries until MaxAttempts attempts are made.                     *)
FailAttempt(j) ==
  /\ made' = [made EXCEPT ![j] = @ + 1]
  /\ lock' = [lock EXCEPT ![j] = 0]
  /\ IF made[j] + 1 < MaxAttempts
     THEN /\ bull' = [bull EXCEPT ![j] = "waiting"]
          /\ UNCHANGED <<handler, heard>>
     ELSE /\ bull' = [bull EXCEPT ![j] = "failed"]
          /\ Publish(j, "failed")

RunThrows(r) ==
  /\ MayThrow(r)
  /\ runs' = runs \ {r}
  /\ IF Holds(r) THEN FailAttempt(r.job)
                 ELSE UNCHANGED <<bull, made, lock, handler, heard>>
  /\ UNCHANGED <<producer, stalled, started, procVars, rowVars, seen, outVars>>

(* BullMQ finds an active job whose lock has expired: it is queued again,  *)
(* or failed once it has stalled too often.                                *)
LockExpired(j) ==
  /\ bull[j] = "active"
  /\ \E p \in Procs : Fetches(p)
  /\ lock' = [lock EXCEPT ![j] = 0]
  /\ stalled' = [stalled EXCEPT ![j] = @ + 1]
  /\ IF stalled[j] + 1 > MaxStalled
     THEN /\ bull' = [bull EXCEPT ![j] = "failed"]
          /\ Publish(j, "failed")
     ELSE /\ bull' = [bull EXCEPT ![j] = "waiting"]
          /\ UNCHANGED <<handler, heard>>
  /\ UNCHANGED <<producer, made, started, runs, procVars, rowVars, seen, outVars>>

(* The run that held the lock is gone with its process.                    *)
RecoverDead(j) ==
  /\ \A r \in runs : ~(r.job = j /\ Holds(r))
  /\ LockExpired(j)

(* The run is alive, but its process was too slow to renew the lock.       *)
StallAlive(j) ==
  /\ "stall" \in Faults
  /\ \E r \in runs : r.job = j /\ Holds(r)
  /\ LockExpired(j)

-----------------------------------------------------------------------------
(* The listener's "completed" handler. A database or Redis call that       *)
(* throws ends the handler (HandlerThrows) or, inside a try block of its   *)
(* own, only skips to the next step (StepSkipped).                         *)

At(p, j, phase) == handler[p][j] = phase
GoTo(p, j, phase) ==
  /\ handler' = [handler EXCEPT ![p][j] = phase]
  /\ UNCHANGED heard
Notice(p, j) == [job |-> j, by |-> p, event |-> heard[p][j]]

(* Mutant: the row is written last, after the customer is told.            *)
MarkCompletedLate(p, j) ==
  /\ At(p, j, "mark")
  /\ row[j] # "ABSENT"
  /\ GoTo(p, j, "expiry")
  /\ UNCHANGED <<producer, bullVars, procVars, rowVars, seen, outVars>>

MarkCompleted(p, j) ==
  /\ At(p, j, "mark")
  /\ row[j] # "ABSENT"
  /\ row' = [row EXCEPT ![j] = "COMPLETED"]
  /\ completedAt' = [completedAt EXCEPT ![j] = TRUE]
  /\ GoTo(p, j, "expiry")
  /\ UNCHANGED <<producer, bullVars, procVars, attempts, expires, usage, seen,
                 outVars>>

SetJobExpiration(p, j) ==
  /\ At(p, j, "expiry")
  /\ expires' = [expires EXCEPT ![j] = TRUE]
  /\ GoTo(p, j, IF "warning" \in Channels THEN "warn" ELSE "usage")
  /\ UNCHANGED <<producer, bullVars, procVars, row, attempts, completedAt,
                 usage, seen, outVars>>

ScheduleWarning(p, j) ==
  /\ At(p, j, "warn")
  /\ warnings' = warnings \union {<<j, p>>}
  /\ GoTo(p, j, "usage")
  /\ UNCHANGED <<producer, bullVars, procVars, rowVars, seen, emails, deliveries,
                 hooks>>

(* Mutant: no unique index on UsageRecord.jobId.                           *)
UsageAfterDuplicate(j) == usage[j] + (IF j \in Billable THEN 1 ELSE 0)

(* The unique index on UsageRecord.jobId refuses a second record.          *)
UsageAfter(j) == IF j \in Billable THEN 1 ELSE usage[j]

RecordJobUsage(p, j) ==
  /\ At(p, j, "usage")
  /\ usage' = [usage EXCEPT ![j] = UsageAfter(j)]
  /\ GoTo(p, j, "email")
  /\ UNCHANGED <<producer, bullVars, procVars, row, attempts, completedAt,
                 expires, seen, outVars>>

-----------------------------------------------------------------------------
(* The listener's "failed" handler: it reads attemptsMade, increments it,  *)
(* and tells the customer if what it read says that no attempt is left.    *)
(* It leaves the status column alone.                                      *)

ReadAttempts(p, j) ==
  /\ At(p, j, "read")
  /\ row[j] # "ABSENT"
  /\ seen' = [seen EXCEPT ![p][j] = attempts[j]]
  /\ GoTo(p, j, "increment")
  /\ UNCHANGED <<producer, bullVars, procVars, rowVars, outVars>>

(* Mutant: the attempt that has failed is taken to be counted already.     *)
IsFinalFailureCounted(p, j) == seen[p][j] >= MaxAttempts

IsFinalFailure(p, j) == seen[p][j] + 1 >= MaxAttempts

IncrementAttempts(p, j) ==
  /\ At(p, j, "increment")
  /\ attempts' = [attempts EXCEPT ![j] = @ + 1]
  /\ GoTo(p, j, IF IsFinalFailure(p, j) THEN "email" ELSE "none")
  /\ UNCHANGED <<producer, bullVars, procVars, row, completedAt, expires,
                 usage, seen, outVars>>

-----------------------------------------------------------------------------
(* What both handlers end with: the email, the delivery row, the job that  *)
(* will deliver it.                                                        *)

QueueEmail(p, j) ==
  /\ At(p, j, "email")
  /\ emails' = IF "email" \in Channels THEN emails \union {Notice(p, j)}
                                       ELSE emails
  /\ GoTo(p, j, IF "webhook" \in Channels THEN "delivery" ELSE "none")
  /\ UNCHANGED <<producer, bullVars, procVars, rowVars, seen, deliveries, hooks,
                 warnings>>

(* Mutant: the delivery job is queued before its row is created.           *)
CreateDeliveryLate(p, j) ==
  /\ At(p, j, "delivery")
  /\ hooks' = hooks \union {Notice(p, j)}
  /\ GoTo(p, j, "enqueue")
  /\ UNCHANGED <<producer, bullVars, procVars, rowVars, seen, emails, deliveries,
                 warnings>>

(* Mutant: the delivery row is created, and nothing queued to deliver it.  *)
CreateDeliveryOnly(p, j) ==
  /\ At(p, j, "delivery")
  /\ deliveries' = deliveries \union {Notice(p, j)}
  /\ GoTo(p, j, "none")
  /\ UNCHANGED <<producer, bullVars, procVars, rowVars, seen, emails, hooks,
                 warnings>>

CreateDelivery(p, j) ==
  /\ At(p, j, "delivery")
  /\ deliveries' = deliveries \union {Notice(p, j)}
  /\ GoTo(p, j, "enqueue")
  /\ UNCHANGED <<producer, bullVars, procVars, rowVars, seen, emails, hooks,
                 warnings>>

EnqueueHook(p, j) ==
  /\ At(p, j, "enqueue")
  /\ hooks' = hooks \union {Notice(p, j)}
  /\ GoTo(p, j, "none")
  /\ UNCHANGED <<producer, bullVars, procVars, rowVars, seen, emails, deliveries,
                 warnings>>

(* The row to update or read is not there, or a call throws where only the *)
(* try around the whole handler, or around the webhook block, catches it.  *)
HandlerThrows(p, j) ==
  /\ \/ handler[p][j] \in {"mark", "read"} /\ row[j] = "ABSENT"
     \/ /\ "db" \in Faults
        /\ handler[p][j] \in {"mark", "expiry", "read", "increment", "delivery",
                              "enqueue"}
     \/ "db" \in Faults /\ At(p, j, "email") /\ heard[p][j] = "failed"
  /\ GoTo(p, j, "none")
  /\ UNCHANGED <<producer, bullVars, procVars, rowVars, seen, outVars>>

(* The retention calls, recordJobUsage and emailQueue.add each have a try  *)
(* of their own: when one throws the handler goes on without it.           *)
StepSkipped(p, j) ==
  /\ "db" \in Faults
  /\ \/ At(p, j, "expiry") /\ GoTo(p, j, "usage")
     \/ At(p, j, "warn") /\ GoTo(p, j, "usage")
     \/ At(p, j, "usage") /\ GoTo(p, j, "email")
     \/ At(p, j, "email")
        /\ GoTo(p, j, IF "webhook" \in Channels THEN "delivery" ELSE "none")
  /\ UNCHANGED <<producer, bullVars, procVars, rowVars, seen, outVars>>

-----------------------------------------------------------------------------
(* Processes. On a signal the API server closes its listener, then its     *)
(* workers; the worker process stops its workers first. Worker.close waits *)
(* for the runs in progress; nothing waits for the handlers in progress.   *)

Settle(p, runsLeft) ==
  /\ runs' = runsLeft
  /\ handler' = [handler EXCEPT ![p] = [j \in Jobs |-> "none"]]
  /\ UNCHANGED heard

BeginShutdown(p) ==
  /\ "shutdown" \in Faults
  /\ stage[p] = "up"
  /\ exits < MaxExits
  /\ exits' = exits + 1
  /\ stage' = [stage EXCEPT ![p] = IF p \in Apis THEN "deaf" ELSE "draining"]
  /\ UNCHANGED <<producer, bullVars, rowVars, eventVars, outVars>>

(* API server: stopWorker after the listener; worker: the listener after   *)
(* stopWorker, once no run is left.                                        *)
CloseRest(p) ==
  /\ \/ stage[p] = "deaf"
     \/ stage[p] = "draining" /\ RunsOf(p) = {}
  /\ stage' = [stage EXCEPT ![p] = "closing"]
  /\ UNCHANGED <<producer, bullVars, exits, rowVars, eventVars, outVars>>

Exit(p) ==
  /\ stage[p] = "closing"
  /\ RunsOf(p) = {}
  /\ stage' = [stage EXCEPT ![p] = "down"]
  /\ Settle(p, runs)
  /\ UNCHANGED <<producer, bull, made, stalled, started, lock, exits, rowVars,
                 seen, outVars>>

(* A crash, or the force timer of a shutdown that took too long.           *)
Crash(p) ==
  /\ "crash" \in Faults
  /\ \/ stage[p] = "up" /\ exits < MaxExits /\ exits' = exits + 1
     \/ stage[p] \in {"deaf", "draining", "closing"} /\ UNCHANGED exits
  /\ stage' = [stage EXCEPT ![p] = "down"]
  /\ Settle(p, runs \ RunsOf(p))
  /\ UNCHANGED <<producer, bull, made, stalled, started, lock, rowVars, seen,
                 outVars>>

Restart(p) ==
  /\ stage[p] = "down"
  /\ stage' = [stage EXCEPT ![p] = "up"]
  /\ UNCHANGED <<producer, bullVars, exits, rowVars, eventVars, outVars>>

-----------------------------------------------------------------------------
Produce(j) == Enqueue(j) \/ CreateRow(j) \/ CreateRowLost(j)

RunStep(r) == StartRun(r) \/ FinishRun(r) \/ RunThrows(r)

HandlerStep(p, j) ==
  \/ MarkCompleted(p, j)
  \/ SetJobExpiration(p, j)
  \/ ScheduleWarning(p, j)
  \/ RecordJobUsage(p, j)
  \/ ReadAttempts(p, j)
  \/ IncrementAttempts(p, j)
  \/ QueueEmail(p, j)
  \/ CreateDelivery(p, j)
  \/ EnqueueHook(p, j)
  \/ HandlerThrows(p, j)
  \/ StepSkipped(p, j)

ProcStep(p) ==
  BeginShutdown(p) \/ CloseRest(p) \/ Exit(p) \/ Crash(p) \/ Restart(p)

Next ==
  \/ \E j \in Jobs : Produce(j) \/ RecoverDead(j) \/ StallAlive(j)
  \/ \E p \in Procs, j \in Jobs : PickUp(p, j) \/ HandlerStep(p, j)
  \/ \E r \in runs : RunStep(r)
  \/ \E p \in Procs : ProcStep(p)

Spec == Init /\ [][Next]_vars

(***************************************************************************)
(* What Node's event loop and BullMQ keep doing as long as a process is    *)
(* up: continue a call whose await has settled, fetch waiting jobs, look   *)
(* for stalled ones. A stopped process is started again by its supervisor. *)
(* Nobody owes a new job, a shutdown, a crash or a fault.                  *)
(***************************************************************************)
Fairness ==
  /\ \A j \in Jobs :
       /\ WF_vars(CreateRow(j))
       /\ WF_vars(\E p \in Procs : PickUp(p, j))
       /\ WF_vars(RecoverDead(j))
       /\ WF_vars(\E r \in runs : r.job = j /\ RunStep(r))
  /\ \A p \in Procs :
       /\ WF_vars(CloseRest(p))
       /\ WF_vars(Exit(p))
       /\ WF_vars(Restart(p))
       /\ \A j \in Jobs : WF_vars(HandlerStep(p, j))

FairSpec == Spec /\ Fairness

-----------------------------------------------------------------------------
(* The variables stay in the types the comments above give them.           *)
TypeOK ==
  /\ producer \in [Jobs -> {"idle", "added", "done"}]
  /\ bull \in [Jobs -> BullStates]
  /\ made \in [Jobs -> Nat]
  /\ stalled \in [Jobs -> Nat]
  /\ started \in [Jobs -> Nat]
  /\ lock \in [Jobs -> Nat]
  /\ runs \subseteq Runs
  /\ stage \in [Procs -> {"up", "deaf", "draining", "closing", "down"}]
  /\ exits \in Nat
  /\ row \in [Jobs -> {"ABSENT", "QUEUED", "PROCESSING", "COMPLETED"}]
  /\ attempts \in [Jobs -> Nat]
  /\ completedAt \in [Jobs -> BOOLEAN]
  /\ expires \in [Jobs -> BOOLEAN]
  /\ usage \in [Jobs -> Nat]
  /\ handler \in [Procs -> [Jobs -> Phases]]
  /\ heard \in [Procs -> [Jobs -> {"none"} \union Final]]
  /\ seen \in [Procs -> [Jobs -> Nat]]
  /\ emails \subseteq Notices
  /\ deliveries \subseteq Notices
  /\ hooks \subseteq Notices
  /\ warnings \subseteq Jobs \X Procs

(* A job that BullMQ has completed has a row: although the row is written  *)
(* after the job is queued, the "completed" handler never misses it,       *)
(* because a run that finds no row to mark PROCESSING throws.              *)
CompletedHasRow == \A j \in Jobs : bull[j] = "completed" => row[j] # "ABSENT"

(* Whatever the retries, stalls and listeners, the customer is only told   *)
(* of an outcome that stands: no "failed" for a job that is retried, never *)
(* both outcomes of one job.                                               *)
NoticesMatchOutcome ==
  \A m \in emails \union deliveries \union hooks : m.event = bull[m.job]

(* When the customer is told that an export is done, the row has its       *)
(* result, so the download the notice points to can be served.             *)
ToldAfterRecorded ==
  \A m \in emails \union deliveries :
    m.event = "completed" => completedAt[m.job]

(* An export is billed at most once, although every listener records it,   *)
(* and only when its completion is recorded.                               *)
BilledOnce ==
  \A j \in Jobs : usage[j] <= 1 /\ (usage[j] = 1 => completedAt[j])

(* A webhook delivery job always has the delivery row it will update.      *)
HooksAreTracked == hooks \subseteq deliveries

(* The row of a finished export never leaves COMPLETED again. It holds     *)
(* while no live run loses its lock: a run that does may still mark the    *)
(* row PROCESSING after another run has completed the job.                 *)
CompletedIsFinal ==
  [][\A j \in Jobs : row[j] = "COMPLETED" => row'[j] = "COMPLETED"]_vars

Told(j, event) ==
  /\ "email" \in Channels => \E m \in emails : m.job = j /\ m.event = event
  /\ "webhook" \in Channels => \E m \in hooks : m.job = j /\ m.event = event

(* Every job handed to BullMQ is completed or given up, whichever          *)
(* processes crash or stall in between.                                    *)
EveryJobSettles ==
  \A j \in Jobs : producer[j] # "idle" ~> bull[j] \in Final

Reported(j) ==
  /\ completedAt[j] /\ expires[j]
  /\ j \in Billable => usage[j] = 1
  /\ Told(j, "completed")
  /\ "warning" \in Channels => \E w \in warnings : w[1] = j

(* Every completed export is recorded, given an expiry date, billed and    *)
(* reported on every channel of the customer, its deletion warning         *)
(* included, as long as no process has stopped.                            *)
CompletionReported ==
  \A j \in Jobs :
    bull[j] = "completed" ~> Reported(j) \/ exits > 0

(* The customer hears, on every channel, of an export whose last attempt   *)
(* ran and failed, as long as no process has stopped: although the handler *)
(* knows the last attempt only by the row's attemptsMade, which the runs   *)
(* set, the handlers raise, and a run that finds no row leaves alone.      *)
FailureReported ==
  \A j \in Jobs :
    (bull[j] = "failed" /\ made[j] = MaxAttempts /\ row[j] = "PROCESSING") ~>
      Told(j, "failed") \/ exits > 0

(* Every outcome is told in the end, unless a process has stopped.         *)
OutcomeReported == CompletionReported /\ FailureReported

(* queues.ts: "Event handler updates database (COMPLETED/FAILED)": an      *)
(* export that BullMQ has given up shows as FAILED.                        *)
FailureRecorded ==
  \A j \in Jobs : (bull[j] = "failed" /\ row[j] # "ABSENT") ~> row[j] = "FAILED"

-----------------------------------------------------------------------------
(* The inductive invariant behind the safety properties, in two layers.    *)
(* QueueInv: what the producer, BullMQ and the runs keep true. A run past  *)
(* its first update has seen the row, and only an active job is locked, so *)
(* that a final job stays as it is.                                        *)
QueueInv ==
  /\ \A j \in Jobs :
       /\ producer[j] = "idle" => bull[j] = "none"
       /\ producer[j] \in {"idle", "added"} => row[j] = "ABSENT"
       /\ bull[j] = "active" <=> lock[j] # 0
       /\ bull[j] = "completed" => row[j] # "ABSENT"
  /\ \A r \in runs : r.phase = "exporting" => row[r.job] # "ABSENT"

(* EventInv: a handler runs only on a final job, and how far it has come   *)
(* says what has been recorded.                                            *)
EventInv ==
  /\ \A p \in Procs, j \in Jobs :
       /\ handler[p][j] # "none" => bull[j] \in Final /\ heard[p][j] = bull[j]
       /\ handler[p][j] \in CompletedPhases => bull[j] = "completed"
       /\ handler[p][j] \in FailedPhases => bull[j] = "failed"
       /\ handler[p][j] \notin {"none", "mark"} /\ bull[j] = "completed" =>
            completedAt[j]
       /\ handler[p][j] = "enqueue" => Notice(p, j) \in deliveries
  /\ \A m \in emails \union deliveries \union hooks : m.event \in Final

Safety ==
  /\ CompletedHasRow
  /\ NoticesMatchOutcome
  /\ ToldAfterRecorded
  /\ BilledOnce
  /\ HooksAreTracked

IInv == QueueInv /\ EventInv /\ Safety

(* While no live run loses its lock, every run holds its job's lock, and   *)
(* only a completed job shows as COMPLETED.                                *)
OneRunPerJob ==
  /\ \A r \in runs : Holds(r) /\ r.n <= started[r.job]
  /\ \A r, s \in runs : r.job = s.job => r = s
  /\ \A j \in Jobs : row[j] = "COMPLETED" => bull[j] = "completed"

(* In that case, too, the row follows the one run of its job.              *)
RowFollowsRun ==
  /\ \A r \in runs : r.phase = "exporting" => row[r.job] = "PROCESSING"
  /\ \A j \in Jobs :
       /\ bull[j] = "completed" => row[j] \in {"PROCESSING", "COMPLETED"}
       /\ completedAt[j] => row[j] = "COMPLETED"

-----------------------------------------------------------------------------
(* What a client of the API is promised: module JobLifecycle.              *)
OutcomeOf(j) == IF bull[j] \in Final THEN bull[j] ELSE "open"
ToldOf(j) == {m.event : m \in {n \in emails \union deliveries : n.job = j}}

Lifecycle == INSTANCE JobLifecycle WITH
  status <- row,
  outcome <- [j \in Jobs |-> OutcomeOf(j)],
  told <- [j \in Jobs |-> ToldOf(j)]

(* Without live runs that lose their lock, the pipeline implements         *)
(* JobLifecycle.                                                           *)
LifecycleSpec == Lifecycle!Spec
=============================================================================
