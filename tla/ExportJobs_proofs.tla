-------------------------- MODULE ExportJobs_proofs --------------------------
(***************************************************************************)
(* Proofs about ExportJobs for every set of jobs and processes, every      *)
(* number of attempts and every choice of faults; and that it implements   *)
(* JobLifecycle as long as no live run loses its lock.                     *)
(***************************************************************************)
EXTENDS ExportJobs, TLAPS

-----------------------------------------------------------------------------
(* Type correctness, one step per action.                                  *)

(* The part of TypeOK that is about the handlers of events.                *)
HandlersTyped ==
  /\ handler \in [Procs -> [Jobs -> Phases]]
  /\ heard \in [Procs -> [Jobs -> {"none"} \union Final]]

(* Publishing an outcome keeps the type of the handlers.                   *)
LEMMA PublishType ==
  ASSUME TypeOK, NEW j \in Jobs, NEW o \in Final, Publish(j, o)
  PROVE  HandlersTyped'
  BY DEF HandlersTyped, TypeOK, Publish, FirstPhase, Phases, CompletedPhases, FailedPhases,
         TellPhases, Final

(* Moving one handler on keeps the type of the handlers.                   *)
LEMMA GoToType ==
  ASSUME TypeOK, NEW p \in Procs, NEW j \in Jobs, NEW phase \in Phases,
         GoTo(p, j, phase)
  PROVE  HandlersTyped'
  BY DEF HandlersTyped, TypeOK, GoTo

(* An expired lock keeps the types of what it changes.                     *)
LEMMA LockExpiredType ==
  ASSUME TypeOK, NEW j \in Jobs, LockExpired(j)
  PROVE  TypeOK'
<1> USE DEF LockExpired, bullVars, procVars, rowVars, outVars
<1>1. HandlersTyped'
  <2>1. CASE stalled[j] + 1 > MaxStalled
    <3>1. Publish(j, "failed")
      BY <2>1
    <3>2. QED
      BY <3>1, PublishType DEF Final
  <2>2. CASE ~(stalled[j] + 1 > MaxStalled)
    BY <2>2 DEF HandlersTyped, TypeOK
  <2>3. QED
    BY <2>1, <2>2
<1>2. lock' \in [Jobs -> Nat] /\ stalled' \in [Jobs -> Nat]
  BY DEF TypeOK
<1>3. bull' \in [Jobs -> BullStates]
  BY DEF TypeOK, BullStates, Final
<1>4. QED
  BY <1>1, <1>2, <1>3 DEF HandlersTyped, TypeOK

(* Every step keeps every variable in its type.                            *)
LEMMA TypeStep == TypeOK /\ [Next]_vars => TypeOK'
<1> SUFFICES ASSUME TypeOK, [Next]_vars PROVE TypeOK'
  OBVIOUS
<1> USE DEF TypeOK, bullVars, procVars, rowVars, eventVars, outVars
<1>1. ASSUME NEW j \in Jobs, Enqueue(j) PROVE TypeOK'
  BY <1>1 DEF Enqueue, BullStates
<1>2. ASSUME NEW j \in Jobs, CreateRow(j) PROVE TypeOK'
  BY <1>2 DEF CreateRow
<1>3. ASSUME NEW j \in Jobs, CreateRowLost(j) PROVE TypeOK'
  BY <1>3 DEF CreateRowLost
<1>4. ASSUME NEW j \in Jobs, RecoverDead(j) PROVE TypeOK'
  BY <1>4, LockExpiredType DEF RecoverDead
<1>5. ASSUME NEW j \in Jobs, StallAlive(j) PROVE TypeOK'
  BY <1>5, LockExpiredType DEF StallAlive
<1>6. ASSUME NEW r \in runs, StartRun(r) PROVE TypeOK'
  BY <1>6 DEF StartRun, AttemptNumber, Runs
<1>7. ASSUME NEW r \in runs, FinishRun(r) PROVE TypeOK'
  <2>1. HandlersTyped'
    <3>1. r.job \in Jobs
      BY DEF Runs
    <3>2. UNCHANGED <<handler, heard>> \/ Publish(r.job, "completed")
      BY <1>7 DEF FinishRun
    <3>3. QED
      BY <3>1, <3>2, PublishType DEF HandlersTyped, Final
  <2>2. r.job \in Jobs /\ runs' \subseteq Runs
    BY <1>7 DEF FinishRun, Runs
  <2>3. CASE Holds(r)
    <3>1. made' \in [Jobs -> Nat] /\ lock' \in [Jobs -> Nat]
      <4>1. made' = [made EXCEPT ![r.job] = @ + 1]
        BY <1>7, <2>3 DEF FinishRun
      <4>2. lock' = [lock EXCEPT ![r.job] = 0]
        BY <1>7, <2>3 DEF FinishRun
      <4>3. QED
        BY <2>2, <4>1, <4>2
    <3>2. bull' \in [Jobs -> BullStates]
      BY <1>7, <2>2, <2>3 DEF FinishRun, Final, BullStates
    <3>3. QED
      BY <1>7, <2>1, <2>2, <3>1, <3>2 DEF HandlersTyped, FinishRun
  <2>4. CASE ~Holds(r)
    BY <1>7, <2>2, <2>4 DEF FinishRun
  <2>5. QED
    BY <2>3, <2>4
<1>8. ASSUME NEW r \in runs, RunThrows(r) PROVE TypeOK'
  <2>1. HandlersTyped'
    <3>1. r.job \in Jobs
      BY DEF Runs
    <3>2. UNCHANGED <<handler, heard>> \/ Publish(r.job, "failed")
      BY <1>8 DEF RunThrows, FailAttempt
    <3>3. QED
      BY <3>1, <3>2, PublishType DEF HandlersTyped, Final
  <2>2. r.job \in Jobs /\ runs' \subseteq Runs
    BY <1>8 DEF RunThrows, FailAttempt, Runs
  <2>3. CASE Holds(r)
    <3>1. made' \in [Jobs -> Nat] /\ lock' \in [Jobs -> Nat]
      <4>1. made' = [made EXCEPT ![r.job] = @ + 1]
        BY <1>8, <2>3 DEF RunThrows, FailAttempt
      <4>2. lock' = [lock EXCEPT ![r.job] = 0]
        BY <1>8, <2>3 DEF RunThrows, FailAttempt
      <4>3. QED
        BY <2>2, <4>1, <4>2
    <3>2. bull' \in [Jobs -> BullStates]
      BY <1>8, <2>2, <2>3 DEF RunThrows, FailAttempt, Final, BullStates
    <3>3. QED
      BY <1>8, <2>1, <2>2, <3>1, <3>2 DEF HandlersTyped, RunThrows, FailAttempt
  <2>4. CASE ~Holds(r)
    BY <1>8, <2>2, <2>4 DEF RunThrows, FailAttempt
  <2>5. QED
    BY <2>3, <2>4
<1>9. ASSUME NEW p \in Procs, NEW j \in Jobs, PickUp(p, j) PROVE TypeOK'
  BY <1>9 DEF PickUp, At, GoTo, Notice, Notices, Runs, Final, BullStates, Phases,
     CompletedPhases, FailedPhases, TellPhases
<1>10. ASSUME NEW p \in Procs, NEW j \in Jobs, MarkCompleted(p, j) PROVE TypeOK'
  BY <1>10 DEF MarkCompleted, At, GoTo, Notice, Notices, Runs, Final, BullStates, Phases,
     CompletedPhases, FailedPhases, TellPhases
<1>11. ASSUME NEW p \in Procs, NEW j \in Jobs, SetJobExpiration(p, j) PROVE TypeOK'
  BY <1>11 DEF SetJobExpiration, At, GoTo, Notice, Notices, Runs, Final, BullStates, Phases,
     CompletedPhases, FailedPhases, TellPhases
<1>12. ASSUME NEW p \in Procs, NEW j \in Jobs, ScheduleWarning(p, j) PROVE TypeOK'
  BY <1>12 DEF ScheduleWarning, At, GoTo, Notice, Notices, Runs, Final, BullStates, Phases,
     CompletedPhases, FailedPhases, TellPhases
<1>13. ASSUME NEW p \in Procs, NEW j \in Jobs, RecordJobUsage(p, j) PROVE TypeOK'
  BY <1>13 DEF RecordJobUsage, At, GoTo, Notice, Notices, Runs, Final, BullStates, Phases,
     CompletedPhases, FailedPhases, TellPhases, UsageAfter
<1>14. ASSUME NEW p \in Procs, NEW j \in Jobs, ReadAttempts(p, j) PROVE TypeOK'
  BY <1>14 DEF ReadAttempts, At, GoTo, Notice, Notices, Runs, Final, BullStates, Phases,
     CompletedPhases, FailedPhases, TellPhases
<1>15. ASSUME NEW p \in Procs, NEW j \in Jobs, IncrementAttempts(p, j) PROVE TypeOK'
  BY <1>15 DEF IncrementAttempts, At, GoTo, Notice, Notices, Runs, Final, BullStates, Phases,
     CompletedPhases, FailedPhases, TellPhases
<1>16. ASSUME NEW p \in Procs, NEW j \in Jobs, QueueEmail(p, j) PROVE TypeOK'
  BY <1>16 DEF QueueEmail, At, GoTo, Notice, Notices, Runs, Final, BullStates, Phases,
     CompletedPhases, FailedPhases, TellPhases
<1>17. ASSUME NEW p \in Procs, NEW j \in Jobs, CreateDelivery(p, j) PROVE TypeOK'
  BY <1>17 DEF CreateDelivery, At, GoTo, Notice, Notices, Runs, Final, BullStates, Phases,
     CompletedPhases, FailedPhases, TellPhases
<1>18. ASSUME NEW p \in Procs, NEW j \in Jobs, EnqueueHook(p, j) PROVE TypeOK'
  BY <1>18 DEF EnqueueHook, At, GoTo, Notice, Notices, Runs, Final, BullStates, Phases,
     CompletedPhases, FailedPhases, TellPhases
<1>19. ASSUME NEW p \in Procs, NEW j \in Jobs, HandlerThrows(p, j) PROVE TypeOK'
  BY <1>19 DEF HandlerThrows, At, GoTo, Notice, Notices, Runs, Final, BullStates, Phases,
     CompletedPhases, FailedPhases, TellPhases
<1>20. ASSUME NEW p \in Procs, NEW j \in Jobs, StepSkipped(p, j) PROVE TypeOK'
  <2>1. \E phase \in Phases : GoTo(p, j, phase)
    BY <1>20 DEF StepSkipped, Phases, CompletedPhases, TellPhases
  <2>2. HandlersTyped'
    BY <2>1, GoToType
  <2>3. QED
    BY <1>20, <2>2 DEF HandlersTyped, StepSkipped
<1>21. ASSUME NEW p \in Procs, BeginShutdown(p) PROVE TypeOK'
  BY <1>21 DEF BeginShutdown
<1>22. ASSUME NEW p \in Procs, CloseRest(p) PROVE TypeOK'
  BY <1>22 DEF CloseRest
<1>23. ASSUME NEW p \in Procs, Exit(p) PROVE TypeOK'
  BY <1>23 DEF Exit, Settle, Phases, RunsOf
<1>24. ASSUME NEW p \in Procs, Crash(p) PROVE TypeOK'
  BY <1>24 DEF Crash, Settle, Phases, RunsOf
<1>25. ASSUME NEW p \in Procs, Restart(p) PROVE TypeOK'
  BY <1>25 DEF Restart
<1>26. CASE UNCHANGED vars
  BY <1>26 DEF vars
<1>27. QED
  BY <1>1, <1>2, <1>3, <1>4, <1>5, <1>6, <1>7, <1>8, <1>9, <1>10, <1>11, <1>12, <1>13, <1>14, <1>15, <1>16, <1>17, <1>18, <1>19, <1>20, <1>21, <1>22, <1>23, <1>24, <1>25, <1>26 DEF Next, Produce, RunStep, HandlerStep, ProcStep

(* Every variable keeps its type.                                          *)
THEOREM TypeCorrect == Spec => []TypeOK
<1>1. Init => TypeOK
  BY DEF Init, TypeOK, Final, BullStates, Phases
<1>2. QED
  BY <1>1, TypeStep, PTL DEF Spec
-----------------------------------------------------------------------------
(* QueueInv is inductive.                                                  *)

(* Every step keeps QueueInv: an update that finds no row throws, and a    *)
(* result is only taken from the holder of an active job's lock.           *)
LEMMA QueueStep == TypeOK /\ QueueInv /\ [Next]_vars => QueueInv'
<1> SUFFICES ASSUME TypeOK, QueueInv, [Next]_vars PROVE QueueInv'
  OBVIOUS
<1> USE DEF TypeOK, QueueInv, Runs, Final, bullVars, procVars, rowVars, outVars
<1>1. ASSUME NEW j \in Jobs, Enqueue(j) PROVE QueueInv'
  BY <1>1 DEF Enqueue
<1>2. ASSUME NEW j \in Jobs, CreateRow(j) PROVE QueueInv'
  BY <1>2 DEF CreateRow
<1>3. ASSUME NEW j \in Jobs, CreateRowLost(j) PROVE QueueInv'
  BY <1>3 DEF CreateRowLost
<1>4. ASSUME NEW j \in Jobs, RecoverDead(j) PROVE QueueInv'
  BY <1>4 DEF RecoverDead, LockExpired
<1>5. ASSUME NEW j \in Jobs, StallAlive(j) PROVE QueueInv'
  BY <1>5 DEF StallAlive, LockExpired
<1>6. ASSUME NEW r \in runs, StartRun(r) PROVE QueueInv'
  BY <1>6 DEF StartRun
<1>7. ASSUME NEW r \in runs, FinishRun(r) PROVE QueueInv'
  BY <1>7 DEF FinishRun, Holds
<1>8. ASSUME NEW r \in runs, RunThrows(r) PROVE QueueInv'
  BY <1>8 DEF RunThrows, FailAttempt, Holds
<1>9. ASSUME NEW p \in Procs, NEW j \in Jobs, PickUp(p, j) PROVE QueueInv'
  BY <1>9 DEF PickUp
<1>10. ASSUME NEW p \in Procs, NEW j \in Jobs, MarkCompleted(p, j) PROVE QueueInv'
  BY <1>10 DEF MarkCompleted
<1>11. ASSUME NEW p \in Procs, NEW j \in Jobs, SetJobExpiration(p, j) PROVE QueueInv'
  BY <1>11 DEF SetJobExpiration
<1>12. ASSUME NEW p \in Procs, NEW j \in Jobs, ScheduleWarning(p, j) PROVE QueueInv'
  BY <1>12 DEF ScheduleWarning
<1>13. ASSUME NEW p \in Procs, NEW j \in Jobs, RecordJobUsage(p, j) PROVE QueueInv'
  BY <1>13 DEF RecordJobUsage
<1>14. ASSUME NEW p \in Procs, NEW j \in Jobs, ReadAttempts(p, j) PROVE QueueInv'
  BY <1>14 DEF ReadAttempts
<1>15. ASSUME NEW p \in Procs, NEW j \in Jobs, IncrementAttempts(p, j) PROVE QueueInv'
  BY <1>15 DEF IncrementAttempts
<1>16. ASSUME NEW p \in Procs, NEW j \in Jobs, QueueEmail(p, j) PROVE QueueInv'
  BY <1>16 DEF QueueEmail
<1>17. ASSUME NEW p \in Procs, NEW j \in Jobs, CreateDelivery(p, j) PROVE QueueInv'
  BY <1>17 DEF CreateDelivery
<1>18. ASSUME NEW p \in Procs, NEW j \in Jobs, EnqueueHook(p, j) PROVE QueueInv'
  BY <1>18 DEF EnqueueHook
<1>19. ASSUME NEW p \in Procs, NEW j \in Jobs, HandlerThrows(p, j) PROVE QueueInv'
  BY <1>19 DEF HandlerThrows
<1>20. ASSUME NEW p \in Procs, NEW j \in Jobs, StepSkipped(p, j) PROVE QueueInv'
  BY <1>20 DEF StepSkipped
<1>21. ASSUME NEW p \in Procs, BeginShutdown(p) PROVE QueueInv'
  BY <1>21 DEF BeginShutdown
<1>22. ASSUME NEW p \in Procs, CloseRest(p) PROVE QueueInv'
  BY <1>22 DEF CloseRest
<1>23. ASSUME NEW p \in Procs, Exit(p) PROVE QueueInv'
  BY <1>23 DEF Exit, Settle
<1>24. ASSUME NEW p \in Procs, Crash(p) PROVE QueueInv'
  BY <1>24 DEF Crash, Settle
<1>25. ASSUME NEW p \in Procs, Restart(p) PROVE QueueInv'
  BY <1>25 DEF Restart
<1>26. CASE UNCHANGED vars
  BY <1>26 DEF vars
<1>27. QED
  BY <1>1, <1>2, <1>3, <1>4, <1>5, <1>6, <1>7, <1>8, <1>9, <1>10, <1>11,
     <1>12, <1>13, <1>14, <1>15, <1>16, <1>17, <1>18, <1>19, <1>20,
     <1>21, <1>22, <1>23, <1>24, <1>25, <1>26
  DEF Next, Produce, RunStep, HandlerStep, ProcStep
-----------------------------------------------------------------------------

(* What no step takes back: the outcome of a job, its recorded completion. *)
LEMMA Monotone ==
  ASSUME TypeOK, QueueInv, [Next]_vars
  PROVE  \A j \in Jobs : /\ bull[j] \in Final => bull'[j] = bull[j]
                         /\ completedAt[j] => completedAt'[j]
<1> DEFINE Kept == \A i \in Jobs : /\ bull[i] \in Final => bull'[i] = bull[i]
                                   /\ completedAt[i] => completedAt'[i]
<1> SUFFICES Kept
  OBVIOUS
<1> USE DEF TypeOK, QueueInv, Runs, Final, bullVars, procVars, rowVars, outVars
<1>1. ASSUME NEW j \in Jobs, Enqueue(j) PROVE Kept
  BY <1>1 DEF Enqueue
<1>2. ASSUME NEW j \in Jobs, CreateRow(j) PROVE Kept
  BY <1>2 DEF CreateRow
<1>3. ASSUME NEW j \in Jobs, CreateRowLost(j) PROVE Kept
  BY <1>3 DEF CreateRowLost
<1>4. ASSUME NEW j \in Jobs, RecoverDead(j) PROVE Kept
  BY <1>4 DEF RecoverDead, LockExpired
<1>5. ASSUME NEW j \in Jobs, StallAlive(j) PROVE Kept
  BY <1>5 DEF StallAlive, LockExpired
<1>6. ASSUME NEW r \in runs, StartRun(r) PROVE Kept
  BY <1>6 DEF StartRun
<1>7. ASSUME NEW r \in runs, FinishRun(r) PROVE Kept
  BY <1>7 DEF FinishRun, Holds
<1>8. ASSUME NEW r \in runs, RunThrows(r) PROVE Kept
  BY <1>8 DEF RunThrows, FailAttempt, Holds
<1>9. ASSUME NEW p \in Procs, NEW j \in Jobs, PickUp(p, j) PROVE Kept
  BY <1>9 DEF PickUp
<1>10. ASSUME NEW p \in Procs, NEW j \in Jobs, MarkCompleted(p, j) PROVE Kept
  BY <1>10 DEF MarkCompleted
<1>11. ASSUME NEW p \in Procs, NEW j \in Jobs, SetJobExpiration(p, j) PROVE Kept
  BY <1>11 DEF SetJobExpiration
<1>12. ASSUME NEW p \in Procs, NEW j \in Jobs, ScheduleWarning(p, j) PROVE Kept
  BY <1>12 DEF ScheduleWarning
<1>13. ASSUME NEW p \in Procs, NEW j \in Jobs, RecordJobUsage(p, j) PROVE Kept
  BY <1>13 DEF RecordJobUsage
<1>14. ASSUME NEW p \in Procs, NEW j \in Jobs, ReadAttempts(p, j) PROVE Kept
  BY <1>14 DEF ReadAttempts
<1>15. ASSUME NEW p \in Procs, NEW j \in Jobs, IncrementAttempts(p, j) PROVE Kept
  BY <1>15 DEF IncrementAttempts
<1>16. ASSUME NEW p \in Procs, NEW j \in Jobs, QueueEmail(p, j) PROVE Kept
  BY <1>16 DEF QueueEmail
<1>17. ASSUME NEW p \in Procs, NEW j \in Jobs, CreateDelivery(p, j) PROVE Kept
  BY <1>17 DEF CreateDelivery
<1>18. ASSUME NEW p \in Procs, NEW j \in Jobs, EnqueueHook(p, j) PROVE Kept
  BY <1>18 DEF EnqueueHook
<1>19. ASSUME NEW p \in Procs, NEW j \in Jobs, HandlerThrows(p, j) PROVE Kept
  BY <1>19 DEF HandlerThrows
<1>20. ASSUME NEW p \in Procs, NEW j \in Jobs, StepSkipped(p, j) PROVE Kept
  BY <1>20 DEF StepSkipped
<1>21. ASSUME NEW p \in Procs, BeginShutdown(p) PROVE Kept
  BY <1>21 DEF BeginShutdown
<1>22. ASSUME NEW p \in Procs, CloseRest(p) PROVE Kept
  BY <1>22 DEF CloseRest
<1>23. ASSUME NEW p \in Procs, Exit(p) PROVE Kept
  BY <1>23 DEF Exit, Settle
<1>24. ASSUME NEW p \in Procs, Crash(p) PROVE Kept
  BY <1>24 DEF Crash, Settle
<1>25. ASSUME NEW p \in Procs, Restart(p) PROVE Kept
  BY <1>25 DEF Restart
<1>26. CASE UNCHANGED vars
  BY <1>26 DEF vars
<1>27. QED
  BY <1>1, <1>2, <1>3, <1>4, <1>5, <1>6, <1>7, <1>8, <1>9, <1>10, <1>11,
     <1>12, <1>13, <1>14, <1>15, <1>16, <1>17, <1>18, <1>19, <1>20,
     <1>21, <1>22, <1>23, <1>24, <1>25, <1>26
  DEF Next, Produce, RunStep, HandlerStep, ProcStep

-----------------------------------------------------------------------------
(* EventInv is inductive: every step of a handler establishes what the     *)
(* next one relies on, and the other actions leave it alone.               *)

(* A step that touches neither the handlers nor what they have written.    *)
LEMMA EventFrame ==
  ASSUME TypeOK, QueueInv, EventInv, [Next]_vars, UNCHANGED <<handler, heard, outVars>>
  PROVE  EventInv'
<1> USE DEF EventInv, Notice, Final, CompletedPhases, FailedPhases, outVars
<1>1. ASSUME NEW p \in Procs, NEW j \in Jobs, handler[p][j] # "none"
      PROVE  bull'[j] = bull[j] /\ (completedAt[j] => completedAt'[j])
  BY <1>1, Monotone
<1>2. ASSUME NEW p \in Procs, NEW j \in Jobs
      PROVE  /\ handler'[p][j] # "none" => bull'[j] \in Final
             /\ handler'[p][j] # "none" => heard'[p][j] = bull'[j]
             /\ handler'[p][j] \in CompletedPhases => bull'[j] = "completed"
             /\ handler'[p][j] \in FailedPhases => bull'[j] = "failed"
             /\ handler'[p][j] \notin {"none", "mark"} /\ bull'[j] = "completed" =>
                  completedAt'[j]
             /\ handler'[p][j] = "enqueue" => Notice(p, j)' \in deliveries'
  <2>1. CASE handler[p][j] = "none"
    BY <2>1
  <2>2. CASE handler[p][j] # "none"
    BY <2>2, <1>1
  <2>3. QED
    BY <2>1, <2>2
<1>3. QED
  BY <1>2

(* A step in which BullMQ publishes the outcome of a job that was open.    *)
LEMMA EventPublish ==
  ASSUME TypeOK, QueueInv, EventInv, [Next]_vars, NEW j \in Jobs, NEW o \in Final,
         bull[j] \notin Final, bull' = [bull EXCEPT ![j] = o], Publish(j, o),
         UNCHANGED <<rowVars, outVars>>
  PROVE  EventInv'
<1> USE DEF EventInv, Notice, Final, CompletedPhases, FailedPhases, outVars, rowVars
<1>1. ASSUME NEW p \in Procs, NEW i \in Jobs
      PROVE  /\ i # j => handler'[p][i] = handler[p][i] /\ bull'[i] = bull[i]
             /\ i # j => heard'[p][i] = heard[p][i]
             /\ i = j => handler'[p][i] \in {"none", FirstPhase(o)} /\ bull'[i] = o
             /\ i = j /\ handler'[p][i] # "none" => heard'[p][i] = o
  <2>1. handler[p][j] = "none"
    OBVIOUS
  <2>2. CASE Listens(p)
    <3>1. /\ handler'[p] = [handler[p] EXCEPT ![j] = FirstPhase(o)]
          /\ heard'[p] = [heard[p] EXCEPT ![j] = o]
      BY <2>2 DEF Publish
    <3>2. handler[p] \in [Jobs -> Phases] /\ heard[p] \in [Jobs -> {"none"} \union Final]
      BY DEF TypeOK
    <3>3. QED
      BY <3>1, <3>2 DEF TypeOK
  <2>3. CASE ~Listens(p)
    <3>1. handler'[p] = handler[p] /\ heard'[p] = heard[p]
      BY <2>3 DEF Publish
    <3>2. QED
      BY <2>1, <3>1 DEF TypeOK
  <2>4. QED
    BY <2>2, <2>3
<1>2. ASSUME NEW p \in Procs, NEW i \in Jobs
      PROVE  /\ handler'[p][i] # "none" => bull'[i] \in Final
             /\ handler'[p][i] # "none" => heard'[p][i] = bull'[i]
             /\ handler'[p][i] \in CompletedPhases => bull'[i] = "completed"
             /\ handler'[p][i] \in FailedPhases => bull'[i] = "failed"
             /\ handler'[p][i] \notin {"none", "mark"} /\ bull'[i] = "completed" =>
                  completedAt'[i]
             /\ handler'[p][i] = "enqueue" => Notice(p, i)' \in deliveries'
  <2>1. CASE i # j
    BY <2>1, <1>1
  <2>2. CASE i = j
    BY <2>2, <1>1 DEF FirstPhase
  <2>3. QED
    BY <2>1, <2>2
<1>3. QED
  BY <1>2

(* Every step keeps EventInv.                                              *)
LEMMA EventStep == TypeOK /\ QueueInv /\ EventInv /\ [Next]_vars => EventInv'
<1> SUFFICES ASSUME TypeOK, QueueInv, EventInv, [Next]_vars PROVE EventInv'
  OBVIOUS
<1> USE DEF TypeOK, EventInv, Notice, Notices, Runs, Final, Phases, CompletedPhases,
        FailedPhases, TellPhases, bullVars, procVars, rowVars, eventVars, outVars
<1>1. ASSUME NEW j \in Jobs, Enqueue(j) PROVE EventInv'
  BY <1>1, EventFrame DEF Enqueue
<1>2. ASSUME NEW j \in Jobs, CreateRow(j) PROVE EventInv'
  BY <1>2, Monotone DEF CreateRow
<1>3. ASSUME NEW j \in Jobs, CreateRowLost(j) PROVE EventInv'
  BY <1>3, Monotone DEF CreateRowLost
<1>4. ASSUME NEW j \in Jobs, RecoverDead(j) PROVE EventInv'
  <2>1. CASE stalled[j] + 1 > MaxStalled
    BY <1>4, <2>1, EventPublish DEF RecoverDead, LockExpired
  <2>2. CASE ~(stalled[j] + 1 > MaxStalled)
    BY <1>4, <2>2, EventFrame DEF RecoverDead, LockExpired
  <2>3. QED
    BY <2>1, <2>2
<1>5. ASSUME NEW j \in Jobs, StallAlive(j) PROVE EventInv'
  <2>1. CASE stalled[j] + 1 > MaxStalled
    BY <1>5, <2>1, EventPublish DEF StallAlive, LockExpired
  <2>2. CASE ~(stalled[j] + 1 > MaxStalled)
    BY <1>5, <2>2, EventFrame DEF StallAlive, LockExpired
  <2>3. QED
    BY <2>1, <2>2
<1>6. ASSUME NEW r \in runs, StartRun(r) PROVE EventInv'
  BY <1>6, Monotone DEF StartRun
<1>7. ASSUME NEW r \in runs, FinishRun(r) PROVE EventInv'
  <2>1. r.job \in Jobs /\ (Holds(r) => bull[r.job] \notin Final)
    BY DEF QueueInv, Holds
  <2>2. CASE Holds(r)
    <3>1. /\ bull' = [bull EXCEPT ![r.job] = "completed"]
          /\ Publish(r.job, "completed") /\ UNCHANGED <<rowVars, outVars>>
      BY <1>7, <2>2 DEF FinishRun
    <3>2. QED
      BY <2>1, <2>2, <3>1, EventPublish
  <2>3. CASE ~(Holds(r))
    BY <1>7, <2>3, EventFrame DEF FinishRun
  <2>4. QED
    BY <2>2, <2>3
<1>8. ASSUME NEW r \in runs, RunThrows(r) PROVE EventInv'
  <2>1. r.job \in Jobs /\ (Holds(r) => bull[r.job] \notin Final)
    BY DEF QueueInv, Holds
  <2>2. CASE Holds(r) /\ ~(made[r.job] + 1 < MaxAttempts)
    <3>1. /\ bull' = [bull EXCEPT ![r.job] = "failed"]
          /\ Publish(r.job, "failed") /\ UNCHANGED <<rowVars, outVars>>
      BY <1>8, <2>2 DEF RunThrows, FailAttempt
    <3>2. QED
      BY <2>1, <2>2, <3>1, EventPublish
  <2>3. CASE ~(Holds(r) /\ ~(made[r.job] + 1 < MaxAttempts))
    BY <1>8, <2>3, EventFrame DEF RunThrows, FailAttempt
  <2>4. QED
    BY <2>2, <2>3
<1>9. ASSUME NEW p \in Procs, NEW j \in Jobs, PickUp(p, j) PROVE EventInv'
  BY <1>9, EventFrame DEF PickUp
<1>10. ASSUME NEW p \in Procs, NEW j \in Jobs, MarkCompleted(p, j) PROVE EventInv'
  BY <1>10, Monotone DEF MarkCompleted, At, GoTo
<1>11. ASSUME NEW p \in Procs, NEW j \in Jobs, SetJobExpiration(p, j) PROVE EventInv'
  BY <1>11, Monotone DEF SetJobExpiration, At, GoTo
<1>12. ASSUME NEW p \in Procs, NEW j \in Jobs, ScheduleWarning(p, j) PROVE EventInv'
  BY <1>12, Monotone DEF ScheduleWarning, At, GoTo
<1>13. ASSUME NEW p \in Procs, NEW j \in Jobs, RecordJobUsage(p, j) PROVE EventInv'
  BY <1>13, Monotone DEF RecordJobUsage, At, GoTo
<1>14. ASSUME NEW p \in Procs, NEW j \in Jobs, ReadAttempts(p, j) PROVE EventInv'
  BY <1>14, Monotone DEF ReadAttempts, At, GoTo
<1>15. ASSUME NEW p \in Procs, NEW j \in Jobs, IncrementAttempts(p, j) PROVE EventInv'
  BY <1>15, Monotone DEF IncrementAttempts, At, GoTo
<1>16. ASSUME NEW p \in Procs, NEW j \in Jobs, QueueEmail(p, j) PROVE EventInv'
  BY <1>16, Monotone DEF QueueEmail, At, GoTo
<1>17. ASSUME NEW p \in Procs, NEW j \in Jobs, CreateDelivery(p, j) PROVE EventInv'
  BY <1>17, Monotone DEF CreateDelivery, At, GoTo
<1>18. ASSUME NEW p \in Procs, NEW j \in Jobs, EnqueueHook(p, j) PROVE EventInv'
  BY <1>18, Monotone DEF EnqueueHook, At, GoTo
<1>19. ASSUME NEW p \in Procs, NEW j \in Jobs, HandlerThrows(p, j) PROVE EventInv'
  BY <1>19, Monotone DEF HandlerThrows, At, GoTo
<1>20. ASSUME NEW p \in Procs, NEW j \in Jobs, StepSkipped(p, j) PROVE EventInv'
  <2>1. UNCHANGED <<bull, completedAt, heard, outVars>>
    BY <1>20 DEF StepSkipped, GoTo
  <2>2. PICK phase \in {"usage", "email", "delivery", "none"} :
          handler' = [handler EXCEPT ![p][j] = phase]
    BY <1>20 DEF StepSkipped, GoTo
  <2>3. handler[p][j] \in {"expiry", "warn", "usage", "email"}
    BY <1>20 DEF StepSkipped, At
  <2>4. phase = "usage" => handler[p][j] \in {"expiry", "warn"}
    BY <1>20, <2>2 DEF StepSkipped, At, GoTo
  <2>5. QED
    BY <2>1, <2>2, <2>3, <2>4
<1>21. ASSUME NEW p \in Procs, BeginShutdown(p) PROVE EventInv'
  BY <1>21, Monotone DEF BeginShutdown
<1>22. ASSUME NEW p \in Procs, CloseRest(p) PROVE EventInv'
  BY <1>22, Monotone DEF CloseRest
<1>23. ASSUME NEW p \in Procs, Exit(p) PROVE EventInv'
  BY <1>23, Monotone DEF Exit, Settle
<1>24. ASSUME NEW p \in Procs, Crash(p) PROVE EventInv'
  BY <1>24, Monotone DEF Crash, Settle
<1>25. ASSUME NEW p \in Procs, Restart(p) PROVE EventInv'
  BY <1>25, Monotone DEF Restart
<1>26. CASE UNCHANGED vars
  BY <1>26, Monotone DEF vars
<1>27. QED
  BY <1>1, <1>2, <1>3, <1>4, <1>5, <1>6, <1>7, <1>8, <1>9, <1>10, <1>11,
     <1>12, <1>13, <1>14, <1>15, <1>16, <1>17, <1>18, <1>19, <1>20,
     <1>21, <1>22, <1>23, <1>24, <1>25, <1>26
  DEF Next, Produce, RunStep, HandlerStep, ProcStep

(* Each safety property is kept by every step.                             *)
LEMMA SafetyStep == TypeOK /\ IInv /\ [Next]_vars => Safety'
<1> SUFFICES ASSUME TypeOK, IInv, [Next]_vars PROVE Safety'
  OBVIOUS
<1>0. CompletedHasRow'
  BY QueueStep DEF IInv, QueueInv, CompletedHasRow
<1> USE DEF TypeOK, IInv, EventInv, Safety, NoticesMatchOutcome, ToldAfterRecorded,
        BilledOnce, HooksAreTracked, Notice, Notices, Runs, Final, CompletedPhases,
        FailedPhases, TellPhases, bullVars, procVars, rowVars, eventVars, outVars
<1> DEFINE Rest == NoticesMatchOutcome /\ ToldAfterRecorded /\ BilledOnce /\ HooksAreTracked
<1> SUFFICES Rest'
  BY <1>0
<1>1. ASSUME NEW j \in Jobs, Enqueue(j) PROVE Rest'
  BY <1>1, Monotone DEF Enqueue
<1>2. ASSUME NEW j \in Jobs, CreateRow(j) PROVE Rest'
  BY <1>2, Monotone DEF CreateRow
<1>3. ASSUME NEW j \in Jobs, CreateRowLost(j) PROVE Rest'
  BY <1>3, Monotone DEF CreateRowLost
<1>4. ASSUME NEW j \in Jobs, RecoverDead(j) PROVE Rest'
  BY <1>4, Monotone DEF RecoverDead, LockExpired
<1>5. ASSUME NEW j \in Jobs, StallAlive(j) PROVE Rest'
  BY <1>5, Monotone DEF StallAlive, LockExpired
<1>6. ASSUME NEW r \in runs, StartRun(r) PROVE Rest'
  BY <1>6, Monotone DEF StartRun
<1>7. ASSUME NEW r \in runs, FinishRun(r) PROVE Rest'
  BY <1>7, Monotone DEF FinishRun, Holds
<1>8. ASSUME NEW r \in runs, RunThrows(r) PROVE Rest'
  BY <1>8, Monotone DEF RunThrows, FailAttempt, Holds
<1>9. ASSUME NEW p \in Procs, NEW j \in Jobs, PickUp(p, j) PROVE Rest'
  BY <1>9, Monotone DEF PickUp
<1>10. ASSUME NEW p \in Procs, NEW j \in Jobs, MarkCompleted(p, j) PROVE Rest'
  BY <1>10, Monotone DEF MarkCompleted, At, GoTo
<1>11. ASSUME NEW p \in Procs, NEW j \in Jobs, SetJobExpiration(p, j) PROVE Rest'
  BY <1>11, Monotone DEF SetJobExpiration, At, GoTo
<1>12. ASSUME NEW p \in Procs, NEW j \in Jobs, ScheduleWarning(p, j) PROVE Rest'
  BY <1>12, Monotone DEF ScheduleWarning, At, GoTo
<1>13. ASSUME NEW p \in Procs, NEW j \in Jobs, RecordJobUsage(p, j) PROVE Rest'
  <2>1. usage'[j] <= 1 /\ completedAt[j] /\ UNCHANGED completedAt
    <3>1. handler[p][j] = "usage" /\ UNCHANGED completedAt
      BY <1>13 DEF RecordJobUsage, At
    <3>2. usage'[j] = IF j \in Billable THEN 1 ELSE usage[j]
      BY <1>13 DEF RecordJobUsage, UsageAfter
    <3>3. completedAt[j]
      BY <3>1
    <3>4. QED
      BY <3>1, <3>2, <3>3
  <2>2. UNCHANGED <<bull, outVars>> /\ \A i \in Jobs : i # j => usage'[i] = usage[i]
    BY <1>13 DEF RecordJobUsage
  <2>3. QED
    BY <2>1, <2>2
<1>14. ASSUME NEW p \in Procs, NEW j \in Jobs, ReadAttempts(p, j) PROVE Rest'
  BY <1>14, Monotone DEF ReadAttempts, At, GoTo
<1>15. ASSUME NEW p \in Procs, NEW j \in Jobs, IncrementAttempts(p, j) PROVE Rest'
  BY <1>15, Monotone DEF IncrementAttempts, At, GoTo
<1>16. ASSUME NEW p \in Procs, NEW j \in Jobs, QueueEmail(p, j) PROVE Rest'
  <2>1. /\ emails' \subseteq emails \union {Notice(p, j)}
        /\ UNCHANGED <<bull, completedAt, usage, deliveries, hooks>>
    BY <1>16 DEF QueueEmail
  <2>2. handler[p][j] = "email"
    BY <1>16 DEF QueueEmail, At
  <2>3. /\ Notice(p, j).job = j /\ Notice(p, j).event = bull[j]
        /\ bull[j] = "completed" => completedAt[j]
    BY <2>2
  <2>4. QED
    BY <2>1, <2>3
<1>17. ASSUME NEW p \in Procs, NEW j \in Jobs, CreateDelivery(p, j) PROVE Rest'
  BY <1>17, Monotone DEF CreateDelivery, At, GoTo
<1>18. ASSUME NEW p \in Procs, NEW j \in Jobs, EnqueueHook(p, j) PROVE Rest'
  BY <1>18, Monotone DEF EnqueueHook, At, GoTo
<1>19. ASSUME NEW p \in Procs, NEW j \in Jobs, HandlerThrows(p, j) PROVE Rest'
  BY <1>19, Monotone DEF HandlerThrows, At, GoTo
<1>20. ASSUME NEW p \in Procs, NEW j \in Jobs, StepSkipped(p, j) PROVE Rest'
  BY <1>20, Monotone DEF StepSkipped, At, GoTo
<1>21. ASSUME NEW p \in Procs, BeginShutdown(p) PROVE Rest'
  BY <1>21, Monotone DEF BeginShutdown
<1>22. ASSUME NEW p \in Procs, CloseRest(p) PROVE Rest'
  BY <1>22, Monotone DEF CloseRest
<1>23. ASSUME NEW p \in Procs, Exit(p) PROVE Rest'
  BY <1>23, Monotone DEF Exit, Settle
<1>24. ASSUME NEW p \in Procs, Crash(p) PROVE Rest'
  BY <1>24, Monotone DEF Crash, Settle
<1>25. ASSUME NEW p \in Procs, Restart(p) PROVE Rest'
  BY <1>25, Monotone DEF Restart
<1>26. CASE UNCHANGED vars
  BY <1>26, Monotone DEF vars
<1>27. QED
  BY <1>1, <1>2, <1>3, <1>4, <1>5, <1>6, <1>7, <1>8, <1>9, <1>10, <1>11,
     <1>12, <1>13, <1>14, <1>15, <1>16, <1>17, <1>18, <1>19, <1>20,
     <1>21, <1>22, <1>23, <1>24, <1>25, <1>26
  DEF Next, Produce, RunStep, HandlerStep, ProcStep

(* The inductive invariant behind the safety properties.                   *)
THEOREM Invariance == Spec => []IInv
<1>1. Init => IInv
  BY DEF Init, IInv, QueueInv, EventInv, Safety, CompletedHasRow, NoticesMatchOutcome,
         ToldAfterRecorded, BilledOnce, HooksAreTracked, Final, CompletedPhases,
         FailedPhases
<1>2. TypeOK /\ IInv /\ [Next]_vars => IInv'
  BY QueueStep, EventStep, SafetyStep DEF IInv
<1>3. QED
  BY <1>1, <1>2, TypeCorrect, PTL DEF Spec

(* The "completed" handler never misses the row of a completed job.        *)
THEOREM CompletedJobsHaveRows == Spec => []CompletedHasRow
<1>1. IInv => CompletedHasRow
  BY DEF IInv, Safety
<1>2. QED
  BY <1>1, Invariance, PTL

(* The customer is only told of an outcome that stands.                    *)
THEOREM NoticesTellTheOutcome == Spec => []NoticesMatchOutcome
<1>1. IInv => NoticesMatchOutcome
  BY DEF IInv, Safety
<1>2. QED
  BY <1>1, Invariance, PTL

(* A reported completion is recorded.                                      *)
THEOREM ReportedCompletionsAreRecorded == Spec => []ToldAfterRecorded
<1>1. IInv => ToldAfterRecorded
  BY DEF IInv, Safety
<1>2. QED
  BY <1>1, Invariance, PTL

(* No export is billed twice, and none whose completion is not recorded.   *)
THEOREM ExportsAreBilledOnce == Spec => []BilledOnce
<1>1. IInv => BilledOnce
  BY DEF IInv, Safety
<1>2. QED
  BY <1>1, Invariance, PTL

(* Every queued delivery has its row.                                      *)
THEOREM QueuedHooksAreTracked == Spec => []HooksAreTracked
<1>1. IInv => HooksAreTracked
  BY DEF IInv, Safety
<1>2. QED
  BY <1>1, Invariance, PTL

-----------------------------------------------------------------------------
(* While no live run loses its lock ("stall" \notin Faults), a completed   *)
(* export stays COMPLETED and the pipeline implements JobLifecycle, for    *)
(* every set of jobs and processes and all the other faults.               *)

(* Without stalls a run keeps the lock until it ends or its process dies,  *)
(* so that a job never has two runs.                                       *)
LEMMA OneRunStep ==
  ASSUME "stall" \notin Faults, TypeOK, QueueInv, EventInv, OneRunPerJob, [Next]_vars
  PROVE  OneRunPerJob'
<1> USE DEF TypeOK, QueueInv, EventInv, OneRunPerJob, Holds, Runs, Final,
        CompletedPhases, bullVars, procVars, rowVars, outVars
<1>1. ASSUME NEW j \in Jobs, Enqueue(j) PROVE OneRunPerJob'
  BY <1>1 DEF Enqueue
<1>2. ASSUME NEW j \in Jobs, CreateRow(j) PROVE OneRunPerJob'
  BY <1>2 DEF CreateRow
<1>3. ASSUME NEW j \in Jobs, CreateRowLost(j) PROVE OneRunPerJob'
  BY <1>3 DEF CreateRowLost
<1>4. ASSUME NEW j \in Jobs, RecoverDead(j) PROVE OneRunPerJob'
  BY <1>4 DEF RecoverDead, LockExpired
<1>5. ASSUME NEW j \in Jobs, StallAlive(j) PROVE OneRunPerJob'
  BY <1>5 DEF StallAlive
<1>6. ASSUME NEW r \in runs, StartRun(r) PROVE OneRunPerJob'
  <2> DEFINE q == [r EXCEPT !.phase = "exporting"]
  <2>1. /\ q.job = r.job /\ q.n = r.n
        /\ runs' = (runs \ {r}) \union {q}
        /\ row' = [row EXCEPT ![r.job] = "PROCESSING"]
        /\ UNCHANGED <<lock, started, bull>>
    BY <1>6 DEF StartRun
  <2> HIDE DEF q
  <2>2. \A s \in runs' : Holds(s)' /\ s.n <= started'[s.job]
    BY <2>1
  <2>3. \A s, t \in runs' : s.job = t.job => s = t
    BY <2>1
  <2>4. \A j \in Jobs : row'[j] = "COMPLETED" => bull'[j] = "completed"
    BY <2>1
  <2>5. QED
    BY <2>2, <2>3, <2>4
<1>7. ASSUME NEW r \in runs, FinishRun(r) PROVE OneRunPerJob'
  BY <1>7 DEF FinishRun
<1>8. ASSUME NEW r \in runs, RunThrows(r) PROVE OneRunPerJob'
  BY <1>8 DEF RunThrows, FailAttempt
<1>9. ASSUME NEW p \in Procs, NEW j \in Jobs, PickUp(p, j) PROVE OneRunPerJob'
  BY <1>9 DEF PickUp
<1>10. ASSUME NEW p \in Procs, NEW j \in Jobs, MarkCompleted(p, j) PROVE OneRunPerJob'
  BY <1>10 DEF MarkCompleted, At
<1>11. ASSUME NEW p \in Procs, NEW j \in Jobs, SetJobExpiration(p, j) PROVE OneRunPerJob'
  BY <1>11 DEF SetJobExpiration
<1>12. ASSUME NEW p \in Procs, NEW j \in Jobs, ScheduleWarning(p, j) PROVE OneRunPerJob'
  BY <1>12 DEF ScheduleWarning
<1>13. ASSUME NEW p \in Procs, NEW j \in Jobs, RecordJobUsage(p, j) PROVE OneRunPerJob'
  BY <1>13 DEF RecordJobUsage
<1>14. ASSUME NEW p \in Procs, NEW j \in Jobs, ReadAttempts(p, j) PROVE OneRunPerJob'
  BY <1>14 DEF ReadAttempts
<1>15. ASSUME NEW p \in Procs, NEW j \in Jobs, IncrementAttempts(p, j) PROVE OneRunPerJob'
  BY <1>15 DEF IncrementAttempts
<1>16. ASSUME NEW p \in Procs, NEW j \in Jobs, QueueEmail(p, j) PROVE OneRunPerJob'
  BY <1>16 DEF QueueEmail
<1>17. ASSUME NEW p \in Procs, NEW j \in Jobs, CreateDelivery(p, j) PROVE OneRunPerJob'
  BY <1>17 DEF CreateDelivery
<1>18. ASSUME NEW p \in Procs, NEW j \in Jobs, EnqueueHook(p, j) PROVE OneRunPerJob'
  BY <1>18 DEF EnqueueHook
<1>19. ASSUME NEW p \in Procs, NEW j \in Jobs, HandlerThrows(p, j) PROVE OneRunPerJob'
  BY <1>19 DEF HandlerThrows
<1>20. ASSUME NEW p \in Procs, NEW j \in Jobs, StepSkipped(p, j) PROVE OneRunPerJob'
  BY <1>20 DEF StepSkipped
<1>21. ASSUME NEW p \in Procs, BeginShutdown(p) PROVE OneRunPerJob'
  BY <1>21 DEF BeginShutdown
<1>22. ASSUME NEW p \in Procs, CloseRest(p) PROVE OneRunPerJob'
  BY <1>22 DEF CloseRest
<1>23. ASSUME NEW p \in Procs, Exit(p) PROVE OneRunPerJob'
  BY <1>23 DEF Exit, Settle
<1>24. ASSUME NEW p \in Procs, Crash(p) PROVE OneRunPerJob'
  BY <1>24 DEF Crash, Settle, RunsOf
<1>25. ASSUME NEW p \in Procs, Restart(p) PROVE OneRunPerJob'
  BY <1>25 DEF Restart
<1>26. CASE UNCHANGED vars
  BY <1>26 DEF vars
<1>27. QED
  BY <1>1, <1>2, <1>3, <1>4, <1>5, <1>6, <1>7, <1>8, <1>9, <1>10, <1>11,
     <1>12, <1>13, <1>14, <1>15, <1>16, <1>17, <1>18, <1>19, <1>20,
     <1>21, <1>22, <1>23, <1>24, <1>25, <1>26
  DEF Next, Produce, RunStep, HandlerStep, ProcStep

(* OneRunPerJob holds in every state.                                      *)
LEMMA OneRunInvariant ==
  ASSUME "stall" \notin Faults
  PROVE  Spec => []OneRunPerJob
<1>1. Init => OneRunPerJob
  BY DEF Init, OneRunPerJob
<1>2. TypeOK /\ IInv /\ OneRunPerJob /\ [Next]_vars => OneRunPerJob'
  BY OneRunStep DEF IInv
<1>3. QED
  BY <1>1, <1>2, TypeCorrect, Invariance, PTL DEF Spec

(* A run holds its job's lock, so the job it marks PROCESSING is active,   *)
(* and the row of an active job does not show COMPLETED.                   *)
LEMMA StayCompleted ==
  ASSUME TypeOK, QueueInv, OneRunPerJob, [Next]_vars, NEW j \in Jobs,
         row[j] = "COMPLETED"
  PROVE  row'[j] = "COMPLETED"
<1> DEFINE Stays == row'[j] = "COMPLETED"
<1> SUFFICES Stays
  OBVIOUS
<1>0. bull[j] = "completed" /\ producer[j] = "done"
  BY DEF TypeOK, QueueInv, OneRunPerJob
<1> USE DEF TypeOK, QueueInv, OneRunPerJob, Holds, Runs, rowVars
<1>1. ASSUME NEW i \in Jobs, Enqueue(i) PROVE Stays
  BY <1>1, <1>0 DEF Enqueue
<1>2. ASSUME NEW i \in Jobs, CreateRow(i) PROVE Stays
  BY <1>2, <1>0 DEF CreateRow
<1>3. ASSUME NEW i \in Jobs, CreateRowLost(i) PROVE Stays
  BY <1>3, <1>0 DEF CreateRowLost
<1>4. ASSUME NEW i \in Jobs, RecoverDead(i) PROVE Stays
  BY <1>4, <1>0 DEF RecoverDead, LockExpired
<1>5. ASSUME NEW i \in Jobs, StallAlive(i) PROVE Stays
  BY <1>5, <1>0 DEF StallAlive, LockExpired
<1>6. ASSUME NEW r \in runs, StartRun(r) PROVE Stays
  BY <1>6, <1>0 DEF StartRun
<1>7. ASSUME NEW r \in runs, FinishRun(r) PROVE Stays
  BY <1>7, <1>0 DEF FinishRun
<1>8. ASSUME NEW r \in runs, RunThrows(r) PROVE Stays
  BY <1>8, <1>0 DEF RunThrows, FailAttempt
<1>9. ASSUME NEW p \in Procs, NEW i \in Jobs, PickUp(p, i) PROVE Stays
  BY <1>9, <1>0 DEF PickUp
<1>10. ASSUME NEW p \in Procs, NEW i \in Jobs, MarkCompleted(p, i) PROVE Stays
  BY <1>10, <1>0 DEF MarkCompleted
<1>11. ASSUME NEW p \in Procs, NEW i \in Jobs, SetJobExpiration(p, i) PROVE Stays
  BY <1>11, <1>0 DEF SetJobExpiration
<1>12. ASSUME NEW p \in Procs, NEW i \in Jobs, ScheduleWarning(p, i) PROVE Stays
  BY <1>12, <1>0 DEF ScheduleWarning
<1>13. ASSUME NEW p \in Procs, NEW i \in Jobs, RecordJobUsage(p, i) PROVE Stays
  BY <1>13, <1>0 DEF RecordJobUsage
<1>14. ASSUME NEW p \in Procs, NEW i \in Jobs, ReadAttempts(p, i) PROVE Stays
  BY <1>14, <1>0 DEF ReadAttempts
<1>15. ASSUME NEW p \in Procs, NEW i \in Jobs, IncrementAttempts(p, i) PROVE Stays
  BY <1>15, <1>0 DEF IncrementAttempts
<1>16. ASSUME NEW p \in Procs, NEW i \in Jobs, QueueEmail(p, i) PROVE Stays
  BY <1>16, <1>0 DEF QueueEmail
<1>17. ASSUME NEW p \in Procs, NEW i \in Jobs, CreateDelivery(p, i) PROVE Stays
  BY <1>17, <1>0 DEF CreateDelivery
<1>18. ASSUME NEW p \in Procs, NEW i \in Jobs, EnqueueHook(p, i) PROVE Stays
  BY <1>18, <1>0 DEF EnqueueHook
<1>19. ASSUME NEW p \in Procs, NEW i \in Jobs, HandlerThrows(p, i) PROVE Stays
  BY <1>19, <1>0 DEF HandlerThrows
<1>20. ASSUME NEW p \in Procs, NEW i \in Jobs, StepSkipped(p, i) PROVE Stays
  BY <1>20, <1>0 DEF StepSkipped
<1>21. ASSUME NEW p \in Procs, BeginShutdown(p) PROVE Stays
  BY <1>21, <1>0 DEF BeginShutdown
<1>22. ASSUME NEW p \in Procs, CloseRest(p) PROVE Stays
  BY <1>22, <1>0 DEF CloseRest
<1>23. ASSUME NEW p \in Procs, Exit(p) PROVE Stays
  BY <1>23, <1>0 DEF Exit
<1>24. ASSUME NEW p \in Procs, Crash(p) PROVE Stays
  BY <1>24, <1>0 DEF Crash
<1>25. ASSUME NEW p \in Procs, Restart(p) PROVE Stays
  BY <1>25, <1>0 DEF Restart
<1>26. CASE UNCHANGED vars
  BY <1>26, <1>0 DEF vars
<1>27. QED
  BY <1>1, <1>2, <1>3, <1>4, <1>5, <1>6, <1>7, <1>8, <1>9, <1>10, <1>11,
     <1>12, <1>13, <1>14, <1>15, <1>16, <1>17, <1>18, <1>19, <1>20,
     <1>21, <1>22, <1>23, <1>24, <1>25, <1>26
  DEF Next, Produce, RunStep, HandlerStep, ProcStep

(* The row of a completed export stays COMPLETED.                          *)
THEOREM CompletedStays ==
  ASSUME "stall" \notin Faults
  PROVE  Spec => CompletedIsFinal
<1>1. TypeOK /\ IInv /\ OneRunPerJob /\ [Next]_vars =>
        [\A j \in Jobs : row[j] = "COMPLETED" => row'[j] = "COMPLETED"]_vars
  BY StayCompleted DEF IInv
<1>2. QED
  BY <1>1, TypeCorrect, Invariance, OneRunInvariant, PTL DEF Spec, CompletedIsFinal

-----------------------------------------------------------------------------
(* Refinement of JobLifecycle.                                             *)

(* The one run of a job and the listeners move its row in one order only.  *)
LEMMA RowStep ==
  ASSUME "stall" \notin Faults, TypeOK, QueueInv, EventInv, OneRunPerJob, RowFollowsRun,
         [Next]_vars
  PROVE  RowFollowsRun'
<1> USE DEF TypeOK, QueueInv, EventInv, OneRunPerJob, RowFollowsRun, Holds, Runs, Final,
        CompletedPhases, bullVars, procVars, rowVars, outVars
<1>1. ASSUME NEW j \in Jobs, Enqueue(j) PROVE RowFollowsRun'
  BY <1>1 DEF Enqueue
<1>2. ASSUME NEW j \in Jobs, CreateRow(j) PROVE RowFollowsRun'
  BY <1>2 DEF CreateRow
<1>3. ASSUME NEW j \in Jobs, CreateRowLost(j) PROVE RowFollowsRun'
  BY <1>3 DEF CreateRowLost
<1>4. ASSUME NEW j \in Jobs, RecoverDead(j) PROVE RowFollowsRun'
  BY <1>4 DEF RecoverDead, LockExpired
<1>5. ASSUME NEW j \in Jobs, StallAlive(j) PROVE RowFollowsRun'
  BY <1>5 DEF StallAlive, LockExpired
<1>6. ASSUME NEW r \in runs, StartRun(r) PROVE RowFollowsRun'
  BY <1>6 DEF StartRun
<1>7. ASSUME NEW r \in runs, FinishRun(r) PROVE RowFollowsRun'
  BY <1>7 DEF FinishRun
<1>8. ASSUME NEW r \in runs, RunThrows(r) PROVE RowFollowsRun'
  BY <1>8 DEF RunThrows, FailAttempt
<1>9. ASSUME NEW p \in Procs, NEW j \in Jobs, PickUp(p, j) PROVE RowFollowsRun'
  BY <1>9 DEF PickUp
<1>10. ASSUME NEW p \in Procs, NEW j \in Jobs, MarkCompleted(p, j) PROVE RowFollowsRun'
  BY <1>10 DEF MarkCompleted, At
<1>11. ASSUME NEW p \in Procs, NEW j \in Jobs, SetJobExpiration(p, j) PROVE RowFollowsRun'
  BY <1>11 DEF SetJobExpiration
<1>12. ASSUME NEW p \in Procs, NEW j \in Jobs, ScheduleWarning(p, j) PROVE RowFollowsRun'
  BY <1>12 DEF ScheduleWarning
<1>13. ASSUME NEW p \in Procs, NEW j \in Jobs, RecordJobUsage(p, j) PROVE RowFollowsRun'
  BY <1>13 DEF RecordJobUsage
<1>14. ASSUME NEW p \in Procs, NEW j \in Jobs, ReadAttempts(p, j) PROVE RowFollowsRun'
  BY <1>14 DEF ReadAttempts
<1>15. ASSUME NEW p \in Procs, NEW j \in Jobs, IncrementAttempts(p, j) PROVE RowFollowsRun'
  BY <1>15 DEF IncrementAttempts
<1>16. ASSUME NEW p \in Procs, NEW j \in Jobs, QueueEmail(p, j) PROVE RowFollowsRun'
  BY <1>16 DEF QueueEmail
<1>17. ASSUME NEW p \in Procs, NEW j \in Jobs, CreateDelivery(p, j) PROVE RowFollowsRun'
  BY <1>17 DEF CreateDelivery
<1>18. ASSUME NEW p \in Procs, NEW j \in Jobs, EnqueueHook(p, j) PROVE RowFollowsRun'
  BY <1>18 DEF EnqueueHook
<1>19. ASSUME NEW p \in Procs, NEW j \in Jobs, HandlerThrows(p, j) PROVE RowFollowsRun'
  BY <1>19 DEF HandlerThrows
<1>20. ASSUME NEW p \in Procs, NEW j \in Jobs, StepSkipped(p, j) PROVE RowFollowsRun'
  BY <1>20 DEF StepSkipped
<1>21. ASSUME NEW p \in Procs, BeginShutdown(p) PROVE RowFollowsRun'
  BY <1>21 DEF BeginShutdown
<1>22. ASSUME NEW p \in Procs, CloseRest(p) PROVE RowFollowsRun'
  BY <1>22 DEF CloseRest
<1>23. ASSUME NEW p \in Procs, Exit(p) PROVE RowFollowsRun'
  BY <1>23 DEF Exit, Settle
<1>24. ASSUME NEW p \in Procs, Crash(p) PROVE RowFollowsRun'
  BY <1>24 DEF Crash, Settle
<1>25. ASSUME NEW p \in Procs, Restart(p) PROVE RowFollowsRun'
  BY <1>25 DEF Restart
<1>26. CASE UNCHANGED vars
  BY <1>26 DEF vars
<1>27. QED
  BY <1>1, <1>2, <1>3, <1>4, <1>5, <1>6, <1>7, <1>8, <1>9, <1>10, <1>11,
     <1>12, <1>13, <1>14, <1>15, <1>16, <1>17, <1>18, <1>19, <1>20,
     <1>21, <1>22, <1>23, <1>24, <1>25, <1>26
  DEF Next, Produce, RunStep, HandlerStep, ProcStep

(* RowFollowsRun holds in every state.                                     *)
LEMMA RowInvariant ==
  ASSUME "stall" \notin Faults
  PROVE  Spec => []RowFollowsRun
<1>1. Init => RowFollowsRun
  BY DEF Init, RowFollowsRun
<1>2. TypeOK /\ IInv /\ OneRunPerJob /\ RowFollowsRun /\ [Next]_vars => RowFollowsRun'
  BY RowStep DEF IInv
<1>3. QED
  BY <1>1, <1>2, TypeCorrect, Invariance, OneRunInvariant, PTL DEF Spec

(* What a step must do to simulate each action of JobLifecycle.            *)
OutcomeBecomes(j, outcome) ==
  \A i \in Jobs : OutcomeOf(i)' = IF i = j THEN outcome ELSE OutcomeOf(i)

SameOutcomes == \A j \in Jobs : OutcomeOf(j)' = OutcomeOf(j)

(* A step that changes neither rows, outcomes nor notices is a stutter.    *)
LEMMA LifecycleStutter ==
  ASSUME UNCHANGED <<row, emails, deliveries>>, SameOutcomes
  PROVE  [Lifecycle!Next]_(Lifecycle!vars)
  BY DEF SameOutcomes, Lifecycle!vars, ToldOf

(* One that only moves the row of j does what Accept, Begin or Show does.  *)
LEMMA MoveRow ==
  ASSUME NEW j \in Jobs, SameOutcomes, UNCHANGED <<emails, deliveries>>,
         \/ row[j] = "ABSENT" /\ row' = [row EXCEPT ![j] = "QUEUED"]
         \/ /\ row[j] = "QUEUED" /\ OutcomeOf(j) = "open"
            /\ row' = [row EXCEPT ![j] = "PROCESSING"]
         \/ /\ row[j] = "PROCESSING" /\ OutcomeOf(j) = "completed"
            /\ row' = [row EXCEPT ![j] = "COMPLETED"]
  PROVE  [Lifecycle!Next]_(Lifecycle!vars)
<1> DEFINE outcome == [i \in Jobs |-> OutcomeOf(i)]
           told == [i \in Jobs |-> ToldOf(i)]
<1>1. outcome' = outcome /\ told' = told
  BY DEF SameOutcomes, ToldOf
<1>2. Lifecycle!Accept(j) \/ Lifecycle!Begin(j) \/ Lifecycle!Show(j)
  BY <1>1 DEF Lifecycle!Accept, Lifecycle!Begin, Lifecycle!Show
<1>3. QED
  BY <1>2 DEF Lifecycle!Next

(* One that only decides the outcome of j does what GiveUp or Complete     *)
(* does.                                                                   *)
LEMMA Decide ==
  ASSUME NEW j \in Jobs, UNCHANGED <<row, emails, deliveries>>,
         OutcomeOf(j) = "open",
         \/ OutcomeBecomes(j, "failed")
         \/ OutcomeBecomes(j, "completed") /\ row[j] = "PROCESSING"
  PROVE  [Lifecycle!Next]_(Lifecycle!vars)
<1> DEFINE outcome == [i \in Jobs |-> OutcomeOf(i)]
           told == [i \in Jobs |-> ToldOf(i)]
<1>1. told' = told
  BY DEF ToldOf
<1>2. CASE OutcomeBecomes(j, "failed")
  <2>1. outcome' = [outcome EXCEPT ![j] = "failed"]
    BY <1>2 DEF OutcomeBecomes
  <2>2. Lifecycle!GiveUp(j)
    BY <1>1, <2>1 DEF Lifecycle!GiveUp
  <2>3. QED
    BY <2>2 DEF Lifecycle!Next
<1>3. CASE OutcomeBecomes(j, "completed") /\ row[j] = "PROCESSING"
  <2>1. outcome' = [outcome EXCEPT ![j] = "completed"]
    BY <1>3 DEF OutcomeBecomes
  <2>2. Lifecycle!Complete(j)
    BY <1>1, <1>3, <2>1 DEF Lifecycle!Complete
  <2>3. QED
    BY <2>2 DEF Lifecycle!Next
<1>4. QED
  BY <1>2, <1>3

(* One that sends the notice of a decided job does what Tell does.         *)
LEMMA TellCustomer ==
  ASSUME NEW p \in Procs, NEW j \in Jobs, UNCHANGED <<row, bull>>,
         bull[j] \in Final, heard[p][j] = bull[j],
         bull[j] = "completed" => row[j] = "COMPLETED",
         emails' \union deliveries' = (emails \union deliveries) \union {Notice(p, j)}
  PROVE  [Lifecycle!Next]_(Lifecycle!vars)
<1> DEFINE outcome == [i \in Jobs |-> OutcomeOf(i)]
           told == [i \in Jobs |-> ToldOf(i)]
<1>1. outcome' = outcome
  BY DEF OutcomeOf
<1>2. OutcomeOf(j) = bull[j] /\ outcome[j] = bull[j]
  BY DEF OutcomeOf
<1>3. Notice(p, j).job = j /\ Notice(p, j).event = bull[j]
  BY DEF Notice
<1>4. ToldOf(j)' = ToldOf(j) \union {bull[j]}
  BY <1>3 DEF ToldOf
<1>5. \A i \in Jobs : i # j => ToldOf(i)' = ToldOf(i)
  BY <1>3 DEF ToldOf
<1>6. told' = [told EXCEPT ![j] = @ \union {outcome[j]}]
  BY <1>2, <1>4, <1>5
<1>7. Lifecycle!Tell(j)
  BY <1>1, <1>2, <1>6 DEF Lifecycle!Tell, Final
<1>8. QED
  BY <1>7 DEF Lifecycle!Next

(* Every step simulates a step of JobLifecycle, or none: a run begins a    *)
(* QUEUED row and leaves a PROCESSING one as it is, the listeners show a   *)
(* completed one, and a notice comes after that.                           *)
LEMMA LifecycleStep ==
  ASSUME "stall" \notin Faults, TypeOK, IInv, OneRunPerJob, RowFollowsRun, [Next]_vars
  PROVE  [Lifecycle!Next]_(Lifecycle!vars)
<1> DEFINE Simulates == [Lifecycle!Next]_(Lifecycle!vars)
<1> SUFFICES Simulates
  OBVIOUS
<1> USE DEF TypeOK, IInv, QueueInv, EventInv, OneRunPerJob, RowFollowsRun, OutcomeOf, Final, bullVars, procVars, rowVars, eventVars, outVars
<1>1. ASSUME NEW j \in Jobs, Enqueue(j) PROVE Simulates
  BY <1>1, LifecycleStutter DEF Enqueue, SameOutcomes
<1>2. ASSUME NEW j \in Jobs, CreateRow(j) PROVE Simulates
  <2>1. row[j] = "ABSENT" /\ row' = [row EXCEPT ![j] = "QUEUED"]
    BY <1>2 DEF CreateRow
  <2>2. SameOutcomes /\ UNCHANGED <<emails, deliveries>>
    BY <1>2 DEF CreateRow, SameOutcomes
  <2>3. QED
    BY <2>1, <2>2, MoveRow
<1>3. ASSUME NEW j \in Jobs, CreateRowLost(j) PROVE Simulates
  BY <1>3, LifecycleStutter DEF CreateRowLost, SameOutcomes
<1>4. ASSUME NEW j \in Jobs, RecoverDead(j) PROVE Simulates
  <2>1. UNCHANGED <<row, emails, deliveries>> /\ OutcomeOf(j) = "open"
    BY <1>4 DEF RecoverDead, LockExpired
  <2>2. SameOutcomes \/ OutcomeBecomes(j, "failed")
    BY <1>4 DEF RecoverDead, LockExpired, SameOutcomes, OutcomeBecomes
  <2>3. QED
    BY <2>1, <2>2, LifecycleStutter, Decide
<1>5. ASSUME NEW j \in Jobs, StallAlive(j) PROVE Simulates
  BY <1>5 DEF StallAlive
<1>6. ASSUME NEW r \in runs, StartRun(r) PROVE Simulates
  <2>1. r.job \in Jobs /\ Holds(r) /\ lock[r.job] # 0
    BY DEF Holds, Runs
  <2>2. /\ row' = [row EXCEPT ![r.job] = "PROCESSING"]
        /\ SameOutcomes /\ UNCHANGED <<emails, deliveries>>
    BY <1>6 DEF StartRun, SameOutcomes
  <2>3. OutcomeOf(r.job) = "open" /\ row[r.job] \in {"QUEUED", "PROCESSING"}
    BY <1>6, <2>1 DEF StartRun
  <2>4. CASE row[r.job] = "QUEUED"
    BY <2>1, <2>2, <2>3, <2>4, MoveRow
  <2>5. CASE row[r.job] = "PROCESSING"
    <3>1. row' = row
      BY <2>2, <2>5
    <3>2. QED
      BY <3>1, <2>2, LifecycleStutter
  <2>6. QED
    BY <2>3, <2>4, <2>5
<1>7. ASSUME NEW r \in runs, FinishRun(r) PROVE Simulates
  <2>1. r.job \in Jobs /\ Holds(r) /\ lock[r.job] # 0
    BY DEF Holds, Runs
  <2>2. OutcomeOf(r.job) = "open" /\ row[r.job] = "PROCESSING"
    BY <1>7, <2>1 DEF FinishRun
  <2>3. bull' = [bull EXCEPT ![r.job] = "completed"]
    BY <1>7, <2>1 DEF FinishRun
  <2>4. OutcomeBecomes(r.job, "completed") /\ UNCHANGED <<row, emails, deliveries>>
    BY <1>7, <2>1, <2>3 DEF FinishRun, OutcomeBecomes
  <2>5. QED
    BY <2>1, <2>2, <2>4, Decide
<1>8. ASSUME NEW r \in runs, RunThrows(r) PROVE Simulates
  <2>1. r.job \in Jobs /\ Holds(r) /\ lock[r.job] # 0
    BY DEF Holds, Runs
  <2>2. OutcomeOf(r.job) = "open" /\ UNCHANGED <<row, emails, deliveries>>
    BY <1>8, <2>1 DEF RunThrows, FailAttempt
  <2>3. \/ bull' = [bull EXCEPT ![r.job] = "waiting"]
        \/ bull' = [bull EXCEPT ![r.job] = "failed"]
    BY <1>8, <2>1 DEF RunThrows, FailAttempt
  <2>4. SameOutcomes \/ OutcomeBecomes(r.job, "failed")
    BY <2>1, <2>2, <2>3 DEF SameOutcomes, OutcomeBecomes
  <2>5. QED
    BY <2>1, <2>2, <2>4, LifecycleStutter, Decide
<1>9. ASSUME NEW p \in Procs, NEW j \in Jobs, PickUp(p, j) PROVE Simulates
  BY <1>9, LifecycleStutter DEF PickUp, SameOutcomes
<1>10. ASSUME NEW p \in Procs, NEW j \in Jobs, MarkCompleted(p, j) PROVE Simulates
  <2>1. OutcomeOf(j) = "completed" /\ row[j] \in {"PROCESSING", "COMPLETED"}
    BY <1>10 DEF MarkCompleted, At, CompletedPhases
  <2>2. /\ row' = [row EXCEPT ![j] = "COMPLETED"]
        /\ SameOutcomes /\ UNCHANGED <<emails, deliveries>>
    BY <1>10 DEF MarkCompleted, SameOutcomes
  <2>3. CASE row[j] = "PROCESSING"
    BY <2>1, <2>2, <2>3, MoveRow
  <2>4. CASE row[j] = "COMPLETED"
    <3>1. row' = row
      BY <2>2, <2>4
    <3>2. QED
      BY <3>1, <2>2, LifecycleStutter
  <2>5. QED
    BY <2>1, <2>3, <2>4
<1>11. ASSUME NEW p \in Procs, NEW j \in Jobs, SetJobExpiration(p, j) PROVE Simulates
  BY <1>11, LifecycleStutter DEF SetJobExpiration, SameOutcomes
<1>12. ASSUME NEW p \in Procs, NEW j \in Jobs, ScheduleWarning(p, j) PROVE Simulates
  BY <1>12, LifecycleStutter DEF ScheduleWarning, SameOutcomes
<1>13. ASSUME NEW p \in Procs, NEW j \in Jobs, RecordJobUsage(p, j) PROVE Simulates
  BY <1>13, LifecycleStutter DEF RecordJobUsage, SameOutcomes
<1>14. ASSUME NEW p \in Procs, NEW j \in Jobs, ReadAttempts(p, j) PROVE Simulates
  BY <1>14, LifecycleStutter DEF ReadAttempts, SameOutcomes
<1>15. ASSUME NEW p \in Procs, NEW j \in Jobs, IncrementAttempts(p, j) PROVE Simulates
  BY <1>15, LifecycleStutter DEF IncrementAttempts, SameOutcomes
<1>16. ASSUME NEW p \in Procs, NEW j \in Jobs, QueueEmail(p, j) PROVE Simulates
  <2>1. CASE "email" \in Channels
    <3>1. emails' = emails \union {Notice(p, j)} /\ UNCHANGED <<row, bull, deliveries>>
      BY <1>16, <2>1 DEF QueueEmail
    <3>2. /\ bull[j] \in Final /\ heard[p][j] = bull[j]
          /\ bull[j] = "completed" => row[j] = "COMPLETED"
      BY <1>16 DEF QueueEmail, At
    <3>3. QED
      BY <3>1, <3>2, TellCustomer
  <2>2. CASE "email" \notin Channels
    <3>1. UNCHANGED <<row, bull, emails, deliveries>>
      BY <1>16, <2>2 DEF QueueEmail
    <3>2. QED
      BY <3>1, LifecycleStutter DEF SameOutcomes
  <2>3. QED
    BY <2>1, <2>2
<1>17. ASSUME NEW p \in Procs, NEW j \in Jobs, CreateDelivery(p, j) PROVE Simulates
  <2>1. deliveries' = deliveries \union {Notice(p, j)} /\ UNCHANGED <<row, bull, emails>>
    BY <1>17 DEF CreateDelivery
  <2>2. /\ bull[j] \in Final /\ heard[p][j] = bull[j]
        /\ bull[j] = "completed" => row[j] = "COMPLETED"
    BY <1>17 DEF CreateDelivery, At
  <2>3. QED
    BY <2>1, <2>2, TellCustomer
<1>18. ASSUME NEW p \in Procs, NEW j \in Jobs, EnqueueHook(p, j) PROVE Simulates
  BY <1>18, LifecycleStutter DEF EnqueueHook, SameOutcomes
<1>19. ASSUME NEW p \in Procs, NEW j \in Jobs, HandlerThrows(p, j) PROVE Simulates
  BY <1>19, LifecycleStutter DEF HandlerThrows, SameOutcomes
<1>20. ASSUME NEW p \in Procs, NEW j \in Jobs, StepSkipped(p, j) PROVE Simulates
  BY <1>20, LifecycleStutter DEF StepSkipped, SameOutcomes
<1>21. ASSUME NEW p \in Procs, BeginShutdown(p) PROVE Simulates
  BY <1>21, LifecycleStutter DEF BeginShutdown, SameOutcomes
<1>22. ASSUME NEW p \in Procs, CloseRest(p) PROVE Simulates
  BY <1>22, LifecycleStutter DEF CloseRest, SameOutcomes
<1>23. ASSUME NEW p \in Procs, Exit(p) PROVE Simulates
  BY <1>23, LifecycleStutter DEF Exit, Settle, SameOutcomes
<1>24. ASSUME NEW p \in Procs, Crash(p) PROVE Simulates
  BY <1>24, LifecycleStutter DEF Crash, Settle, SameOutcomes
<1>25. ASSUME NEW p \in Procs, Restart(p) PROVE Simulates
  BY <1>25, LifecycleStutter DEF Restart, SameOutcomes
<1>26. CASE UNCHANGED vars
  BY <1>26, LifecycleStutter DEF vars, SameOutcomes
<1>27. QED
  BY <1>1, <1>2, <1>3, <1>4, <1>5, <1>6, <1>7, <1>8, <1>9, <1>10, <1>11,
     <1>12, <1>13, <1>14, <1>15, <1>16, <1>17, <1>18, <1>19, <1>20,
     <1>21, <1>22, <1>23, <1>24, <1>25, <1>26
  DEF Next, Produce, RunStep, HandlerStep, ProcStep

(* While no live run loses its lock, the pipeline implements JobLifecycle. *)
THEOREM Refinement ==
  ASSUME "stall" \notin Faults
  PROVE  Spec => LifecycleSpec
<1>1. Init => Lifecycle!Init
  BY DEF Init, Lifecycle!Init, OutcomeOf, ToldOf, Final
<1>2. TypeOK /\ IInv /\ OneRunPerJob /\ RowFollowsRun /\ [Next]_vars =>
        [Lifecycle!Next]_(Lifecycle!vars)
  BY LifecycleStep
<1>3. QED
  BY <1>1, <1>2, TypeCorrect, Invariance, OneRunInvariant, RowInvariant, PTL
  DEF Spec, LifecycleSpec, Lifecycle!Spec
=============================================================================
