--------------------------- MODULE ScheduleChecker ---------------------------
(***************************************************************************)
(* Scheduled exports: every minute a BullMQ job "check-due-schedules" is   *)
(* taken by the schedule worker of some process, which reads the schedules *)
(* that are due and, one after another, queues an export, creates its row  *)
(* and moves nextRunAt on. Meanwhile customers edit their schedules.       *)
(*                                                                         *)
(* A cron expression is abstracted to a period. getDueSchedules, getNext-  *)
(* RunTime and the edits are stubs in the repository; they do what their   *)
(* comments say.                                                           *)
(***************************************************************************)
EXTENDS Integers

CONSTANTS
  Procs,      \* processes that import workers.ts, each with a schedule worker
  Schedules,  \* ExportSchedule rows
  MaxPeriod,  \* bound: the longest period of a cron expression
  MaxTime,    \* bound: how long the clock runs
  MaxCrashes, \* bound: how often processes die
  MaxEdits,   \* bound: how often customers edit schedules
  Broken,     \* schedules whose database or queue calls may throw
  Faults      \* what else may go wrong: FaultKinds

(* slow: a check may last longer than the interval between checks.         *)
FaultKinds == {"slow", "crash"}

ASSUME ScheduleAssumption ==
  /\ MaxPeriod \in Nat \ {0}
  /\ MaxTime \in Nat
  /\ MaxCrashes \in Nat
  /\ MaxEdits \in Nat
  /\ Broken \subseteq Schedules
  /\ Faults \subseteq FaultKinds

VARIABLES
  now,      \* the clock, in check intervals
  waiting,  \* whether a check-due-schedules job waits
  state,    \* isActive of a schedule, and whether it exists
  cron,     \* cronExpr
  nextRun,  \* nextRunAt
  at,       \* where the worker of a process is
  due,      \* what it has read and not yet dealt with: schedules and dates
  current,  \* the schedule it is processing
  ranAt,    \* ranAt of markScheduleRun, then the nextRunAt that it will write
  ran,      \* history: dates of a schedule for which an export was queued
  twice,    \* history: dates for which another was
  cut,      \* history: dates whose processing ended after that and too early
  shared,   \* history: schedules that two workers have had at once
  crashes,  \* history: number of crashes
  edits     \* history: number of edits

rowVars == <<state, cron, nextRun>>
workerVars == <<at, due, current, ranAt>>
historyVars == <<ran, twice, cut, shared, crashes, edits>>
vars == <<now, waiting, rowVars, workerVars, historyVars>>

(* Cron expressions: an occurrence at every multiple of the period.        *)
Periods == 1 .. MaxPeriod

Dates == 0 .. MaxTime + MaxPeriod

(* Mutant: an occurrence at the given time itself counts as the next.      *)
NextRunTimeNow(c, t) == ((t + c - 1) \div c) * c

NextRunTime(c, t) == (t \div c + 1) * c

Init ==
  /\ now = 0
  /\ waiting = TRUE
  /\ state \in [Schedules -> {"active", "paused"}]
  /\ cron \in [Schedules -> Periods]
  /\ nextRun = [s \in Schedules |-> NextRunTime(cron[s], 0)]
  /\ at = [p \in Procs |-> "idle"]
  /\ due = [p \in Procs |-> {}]
  /\ current = [p \in Procs |-> <<>>]
  /\ ranAt = [p \in Procs |-> 0]
  /\ ran = [s \in Schedules |-> {}]
  /\ twice = [s \in Schedules |-> {}]
  /\ cut = [s \in Schedules |-> {}]
  /\ shared = {}
  /\ crashes = 0
  /\ edits = 0

Due(s) == state[s] = "active" /\ nextRun[s] <= now

(* The worker of p has read schedule s as due and is not done with it.     *)
Has(p, s) ==
  \/ \E e \in due[p] : e[1] = s
  \/ current[p] # <<>> /\ current[p][1] = s

Place(p, place) == at' = [at EXCEPT ![p] = place]

-----------------------------------------------------------------------------
(* The schedule worker                                                     *)

Check(p) ==
  /\ waiting
  /\ at[p] = "idle"
  /\ waiting' = FALSE
  /\ due' = [due EXCEPT ![p] = {<<s, nextRun[s]>> : s \in {t \in Schedules : Due(t)}}]
  /\ shared' = shared \union {s \in Schedules : Due(s) /\ \E q \in Procs : Has(q, s)}
  /\ Place(p, "loop")
  /\ UNCHANGED <<now, rowVars, current, ranAt, ran, twice, cut, crashes, edits>>

(* processSchedule adds the export to the queue.                           *)
QueueExport(p) ==
  /\ at[p] = "loop"
  /\ \E d \in due[p] :
       /\ due' = [due EXCEPT ![p] = @ \ {d}]
       /\ current' = [current EXCEPT ![p] = d]
       /\ ran' = [ran EXCEPT ![d[1]] = @ \union {d[2]}]
       /\ twice' = [twice EXCEPT ![d[1]] = @ \union (ran[d[1]] \intersect {d[2]})]
  /\ Place(p, "row")
  /\ UNCHANGED <<now, waiting, rowVars, ranAt, cut, shared, crashes, edits>>

(* When there is a row, markScheduleRun is called: it ran now.             *)
CreateRow(p) ==
  /\ at[p] = "row"
  /\ ranAt' = [ranAt EXCEPT ![p] = now]
  /\ Place(p, "read")
  /\ UNCHANGED <<now, waiting, rowVars, due, current, historyVars>>

(* markScheduleRun reads the schedule and computes its next date, from the *)
(* time of the call, ...                                                   *)
ReadCron(p) ==
  /\ at[p] = "read"
  /\ LET s == current[p][1] IN
       /\ state[s] # "deleted"
       /\ ranAt' = [ranAt EXCEPT ![p] = NextRunTime(cron[s], ranAt[p])]
  /\ Place(p, "write")
  /\ UNCHANGED <<now, waiting, rowVars, due, current, historyVars>>

(* ... and writes it.                                                      *)
WriteNextRun(p) ==
  /\ at[p] = "write"
  /\ LET s == current[p][1] IN
       /\ state[s] # "deleted"
       /\ nextRun' = [nextRun EXCEPT ![s] = ranAt[p]]
  /\ current' = [current EXCEPT ![p] = <<>>]
  /\ ranAt' = [ranAt EXCEPT ![p] = 0]
  /\ Place(p, "loop")
  /\ UNCHANGED <<now, waiting, state, cron, due, historyVars>>

(* The worker of p drops what it is processing.                            *)
CutShort(p) ==
  /\ cut' = IF current[p] = <<>> THEN cut
             ELSE [cut EXCEPT ![current[p][1]] = @ \union {current[p][2]}]
  /\ current' = [current EXCEPT ![p] = <<>>]
  /\ ranAt' = [ranAt EXCEPT ![p] = 0]

MayThrow(s) == s \in Broken \/ state[s] = "deleted"

(* A call throws before the export is queued: this schedule is skipped.    *)
SkipSchedule(p) ==
  /\ at[p] = "loop"
  /\ \E d \in due[p] :
       /\ d[1] \in Broken
       /\ due' = [due EXCEPT ![p] = @ \ {d}]
  /\ UNCHANGED <<now, waiting, rowVars, at, current, ranAt, historyVars>>

(* Mutant: the error is not caught, and the other schedules are not run.   *)
ScheduleThrowsUncaught(p) ==
  /\ at[p] \in {"row", "read", "write"}
  /\ MayThrow(current[p][1])
  /\ CutShort(p)
  /\ due' = [due EXCEPT ![p] = {}]
  /\ Place(p, "loop")
  /\ UNCHANGED <<now, waiting, rowVars, ran, twice, shared, crashes, edits>>

(* A call throws after the export is queued. The error is logged, and the  *)
(* next schedule is dealt with.                                            *)
ScheduleThrows(p) ==
  /\ at[p] \in {"row", "read", "write"}
  /\ MayThrow(current[p][1])
  /\ CutShort(p)
  /\ Place(p, "loop")
  /\ UNCHANGED <<now, waiting, rowVars, due, ran, twice, shared, crashes, edits>>

EndCheck(p) ==
  /\ at[p] = "loop"
  /\ due[p] = {}
  /\ Place(p, "idle")
  /\ UNCHANGED <<now, waiting, rowVars, due, current, ranAt, historyVars>>

(* The process dies: BullMQ's stalled check queues the job again.          *)
Crash(p) ==
  /\ "crash" \in Faults
  /\ crashes < MaxCrashes
  /\ at[p] # "idle"
  /\ crashes' = crashes + 1
  /\ waiting' = TRUE
  /\ due' = [due EXCEPT ![p] = {}]
  /\ CutShort(p)
  /\ Place(p, "idle")
  /\ UNCHANGED <<now, rowVars, ran, twice, shared, edits>>

-----------------------------------------------------------------------------
(* Time and customers                                                      *)

(* The next repetition of the job is due a minute after the last. It is    *)
(* scheduled when that one is taken, not when it is done.                  *)
Tick ==
  /\ now < MaxTime
  /\ "slow" \in Faults \/ \A p \in Procs : at[p] = "idle"
  /\ now' = now + 1
  /\ waiting' = TRUE
  /\ UNCHANGED <<rowVars, workerVars, historyVars>>

(* One more edit of a schedule that is there.                              *)
Edit(s) ==
  /\ state[s] # "deleted"
  /\ edits < MaxEdits
  /\ edits' = edits + 1
  /\ UNCHANGED <<now, waiting, workerVars, ran, twice, cut, shared, crashes>>

(* updateSchedule with another cron expression.                            *)
UpdateCron(s) ==
  /\ Edit(s)
  /\ \E c \in Periods :
       /\ cron' = [cron EXCEPT ![s] = c]
       /\ nextRun' = [nextRun EXCEPT ![s] = NextRunTime(c, now)]
  /\ UNCHANGED state

(* updateSchedule with isActive.                                           *)
Toggle(s) ==
  /\ Edit(s)
  /\ \/ /\ state[s] = "active"
        /\ state' = [state EXCEPT ![s] = "paused"]
        /\ UNCHANGED nextRun
     \/ /\ state[s] = "paused"
        /\ state' = [state EXCEPT ![s] = "active"]
        /\ nextRun' = [nextRun EXCEPT ![s] = NextRunTime(cron[s], now)]
  /\ UNCHANGED cron

DeleteSchedule(s) ==
  /\ Edit(s)
  /\ state' = [state EXCEPT ![s] = "deleted"]
  /\ UNCHANGED <<cron, nextRun>>

-----------------------------------------------------------------------------
WorkerStep(p) ==
  \/ QueueExport(p)
  \/ CreateRow(p)
  \/ ReadCron(p)
  \/ WriteNextRun(p)
  \/ SkipSchedule(p)
  \/ ScheduleThrows(p)
  \/ EndCheck(p)

Next ==
  \/ \E p \in Procs : Check(p) \/ WorkerStep(p) \/ Crash(p)
  \/ \E s \in Schedules : UpdateCron(s) \/ Toggle(s) \/ DeleteSchedule(s)
  \/ Tick

Spec == Init /\ [][Next]_vars

(* Some worker takes the job that waits, a worker goes on with what it has *)
(* begun, and the clock runs. Customers owe nothing.                       *)
Fairness ==
  /\ WF_vars(\E p \in Procs : Check(p))
  /\ \A p \in Procs : WF_vars(WorkerStep(p))
  /\ WF_vars(Tick)

FairSpec == Spec /\ Fairness

-----------------------------------------------------------------------------
(* Properties                                                              *)

TypeOK ==
  /\ now \in 0 .. MaxTime
  /\ waiting \in BOOLEAN
  /\ state \in [Schedules -> {"active", "paused", "deleted"}]
  /\ cron \in [Schedules -> Periods]
  /\ nextRun \in [Schedules -> Dates]
  /\ at \in [Procs -> {"idle", "loop", "row", "read", "write"}]
  /\ due \in [Procs -> SUBSET (Schedules \X Dates)]
  /\ current \in [Procs -> {<<>>} \union (Schedules \X Dates)]
  /\ ranAt \in [Procs -> Dates]
  /\ ran \in [Schedules -> SUBSET Dates]
  /\ twice \in [Schedules -> SUBSET Dates]
  /\ cut \in [Schedules -> SUBSET Dates]
  /\ shared \subseteq Schedules
  /\ crashes \in 0 .. MaxCrashes
  /\ edits \in 0 .. MaxEdits

(* schedule.ts:4-6: a schedule that is due gets "an export job", and its   *)
(* nextRunAt is updated. The export is queued first and nextRunAt written  *)
(* three awaits later; still a date is run again only if a call threw, or  *)
(* the process died, in between, or if two checks had the schedule at      *)
(* once, each in a process of its own. Edits meanwhile, an old date that a *)
(* slow worker writes late, and the other schedules make no difference.    *)
AgainOnlyIfCut == \A s \in Schedules : twice[s] \subseteq cut[s] \/ s \in shared

(* schedule.ts:8-9: "Failures for individual schedules are logged but do   *)
(* not block other schedules from running." A schedule whose own calls do  *)
(* not throw is run, or edited so that it is not due, whatever happens to  *)
(* the others. (The last minute of the clock is left to its last check.)   *)
OthersStillRun ==
  \A s \in Schedules \ Broken : (Due(s) /\ now < MaxTime) ~> ~Due(s)

=============================================================================
