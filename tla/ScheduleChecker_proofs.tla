------------------------ MODULE ScheduleChecker_proofs ------------------------
(***************************************************************************)
(* Proofs about ScheduleChecker: its type invariant; that a date of a      *)
(* schedule is run twice only if its processing was cut after its export   *)
(* was queued, or two workers had the schedule at once; and that none has  *)
(* while no check outlasts the interval.                                   *)
(***************************************************************************)
EXTENDS ScheduleChecker, TLAPS

USE ScheduleAssumption

(* While no check outlasts the interval, one process at most is checking,  *)
(* and none while a check waits.                                           *)
OneCheck ==
  /\ \A p, q \in Procs : at[p] # "idle" /\ at[q] # "idle" => p = q
  /\ waiting => \A p \in Procs : at[p] = "idle"

(* What a worker holds at each place. It ran no sooner than the date it    *)
(* ran for, and the date it is about to write is later than that.          *)
Places ==
  \A p \in Procs :
    /\ at[p] = "idle" => due[p] = {}
    /\ at[p] \in {"idle", "loop"} <=> current[p] = <<>>
    /\ at[p] = "read" => ranAt[p] <= now /\ ranAt[p] >= current[p][2]
    /\ at[p] = "write" => ranAt[p] > current[p][2]

(* A worker has one date of a schedule, and one worker has the schedule.   *)
OneDate ==
  \A p \in Procs :
    /\ \A e, f \in due[p] : e[1] = f[1] => e = f
    /\ current[p] # <<>> => \A e \in due[p] : e[1] # current[p][1]

OneHolder ==
  \A s \in Schedules \ shared : \A p, q \in Procs : Has(p, s) /\ Has(q, s) => p = q

(* A date that a worker has is past. It is later than the dates that were  *)
(* run and not cut, or it is the last of them.                             *)
Later(e) == e[1] \notin shared => \A d \in ran[e[1]] : d \in cut[e[1]] \/ d < e[2]
Latest(e) == e[1] \notin shared => \A d \in ran[e[1]] : d \in cut[e[1]] \/ d <= e[2]

HeldIsNewest ==
  \A p \in Procs :
    /\ \A e \in due[p] : e[2] <= now /\ Later(e)
    /\ current[p] # <<>> => current[p][2] <= now /\ Latest(current[p])

(* Of a date that was run and not cut, the row has moved on, or a worker   *)
(* is about to move it on.                                                 *)
RunMovesOn ==
  \A s \in Schedules : \A d \in ran[s] :
    /\ d <= now
    /\ s \in shared \/ d \in cut[s] \/ nextRun[s] > d \/ \E p \in Procs : current[p] = <<s, d>>

(* What holds besides while no check outlasts the interval, and what       *)
(* follows: AgainOnlyIfCut without its second exception.                   *)
Alone == OneCheck /\ shared = {}

OnlyIfCut == \A s \in Schedules : twice[s] \subseteq cut[s]

IInv ==
  TypeOK /\ Places /\ OneDate /\ OneHolder /\ HeldIsNewest /\ RunMovesOn /\ AgainOnlyIfCut

-----------------------------------------------------------------------------
(* The next occurrence of a cron expression is later than the given time,  *)
(* by its period at most.                                                  *)
LEMMA NextIsLater ==
  ASSUME NEW c \in Nat \ {0}, NEW t \in Nat
  PROVE  /\ NextRunTime(c, t) \in Nat
         /\ NextRunTime(c, t) > t
         /\ NextRunTime(c, t) <= t + c
<1> DEFINE q == t \div c
<1>1. q \in Nat /\ t = c * q + (t % c) /\ t % c \in 0 .. c - 1
  OBVIOUS
<1>2. NextRunTime(c, t) = c * q + c
  BY <1>1 DEF NextRunTime
<1>3. QED
  BY <1>1, <1>2

LEMMA NextIsDate ==
  ASSUME TypeOK, NEW c \in Periods, NEW t \in Nat, t <= now
  PROVE  NextRunTime(c, t) \in Dates /\ NextRunTime(c, t) > t
<1>1. c \in Nat \ {0} /\ c <= MaxPeriod /\ t <= MaxTime
  BY DEF Periods, TypeOK
<1>2. NextRunTime(c, t) \in Nat /\ NextRunTime(c, t) > t /\ NextRunTime(c, t) <= t + c
  BY <1>1, NextIsLater
<1>3. QED
  BY <1>1, <1>2 DEF Dates

LEMMA PairIsSome ==
  ASSUME NEW e \in Schedules \X Dates
  PROVE  e # <<>> /\ e = <<e[1], e[2]>> /\ e[1] \in Schedules /\ e[2] \in Dates
  OBVIOUS

-----------------------------------------------------------------------------
(* The first state.                                                        *)
LEMMA InitStep == Init => IInv
<1> SUFFICES ASSUME Init PROVE IInv
  OBVIOUS
<1>1. nextRun \in [Schedules -> Dates] /\ 0 \in Dates
  <2>1. ASSUME NEW s \in Schedules
        PROVE  NextRunTime(cron[s], 0) \in Dates
    <3>1. cron[s] \in Nat \ {0} /\ cron[s] <= MaxPeriod
      BY <2>1 DEF Init, Periods
    <3>2. NextRunTime(cron[s], 0) \in Nat /\ NextRunTime(cron[s], 0) <= 0 + cron[s]
      BY <3>1, NextIsLater
    <3>3. QED
      BY <3>1, <3>2 DEF Dates
  <2>2. QED
    BY <2>1 DEF Init, Dates
<1>2. TypeOK
  BY <1>1 DEF Init, TypeOK
<1>3. QED
  BY <1>2 DEF Init, IInv, Places, OneDate, OneHolder, Has, HeldIsNewest, RunMovesOn, AgainOnlyIfCut

(* What a worker drops is well typed.                                      *)
LEMMA CutStep ==
  ASSUME TypeOK, NEW p \in Procs, CutShort(p)
  PROVE  /\ cut' \in [Schedules -> SUBSET Dates]
         /\ current' \in [Procs -> {<<>>} \union (Schedules \X Dates)]
         /\ ranAt' \in [Procs -> Dates]
<1> USE DEF TypeOK, CutShort
<1>1. cut' \in [Schedules -> SUBSET Dates]
  <2>1. CASE current[p] = <<>>
    BY <2>1
  <2>2. CASE current[p] # <<>>
    <3>1. current[p] \in Schedules \X Dates
      BY <2>2
    <3>2. current[p][1] \in Schedules /\ current[p][2] \in Dates
      BY <3>1
    <3>3. QED
      BY <2>2, <3>2
  <2>3. QED
    BY <2>1, <2>2
<1>2. current' \in [Procs -> {<<>>} \union (Schedules \X Dates)]
  OBVIOUS
<1>3. ranAt' \in [Procs -> Dates]
  BY DEF Dates
<1>4. QED
  BY <1>1, <1>2, <1>3

(* A step keeps the types.                                                 *)
LEMMA TypeStep ==
  ASSUME TypeOK, Places, [Next]_vars
  PROVE  TypeOK'
<1> USE DEF TypeOK, rowVars, workerVars, historyVars, Place
<1>1. CASE UNCHANGED vars
  BY <1>1 DEF vars
<1>2. CASE Tick
  BY <1>2 DEF Tick
<1>3. ASSUME NEW p \in Procs, Check(p)
      PROVE  TypeOK'
  <2>1. {<<s, nextRun[s]>> : s \in {t \in Schedules : Due(t)}} \in SUBSET (Schedules \X Dates)
    OBVIOUS
  <2>2. due' \in [Procs -> SUBSET (Schedules \X Dates)]
    BY <1>3, <2>1 DEF Check
  <2>3. QED
    BY <1>3, <2>2 DEF Check
<1>4. ASSUME NEW p \in Procs, QueueExport(p)
      PROVE  TypeOK'
  <2>1. PICK d \in due[p] :
          /\ due' = [due EXCEPT ![p] = @ \ {d}]
          /\ current' = [current EXCEPT ![p] = d]
          /\ ran' = [ran EXCEPT ![d[1]] = @ \union {d[2]}]
          /\ twice' = [twice EXCEPT ![d[1]] = @ \union (ran[d[1]] \intersect {d[2]})]
    BY <1>4 DEF QueueExport
  <2>2. d \in Schedules \X Dates
    OBVIOUS
  <2>3. d[1] \in Schedules /\ d[2] \in Dates
    BY <2>2
  <2>4. due' \in [Procs -> SUBSET (Schedules \X Dates)]
    BY <2>1
  <2>5. current' \in [Procs -> {<<>>} \union (Schedules \X Dates)]
    BY <2>1, <2>2
  <2>6. ran' \in [Schedules -> SUBSET Dates]
    BY <2>1, <2>3
  <2>7. twice' \in [Schedules -> SUBSET Dates]
    BY <2>1, <2>3
  <2>8. QED
    BY <1>4, <2>4, <2>5, <2>6, <2>7 DEF QueueExport
<1>5. ASSUME NEW p \in Procs, CreateRow(p)
      PROVE  TypeOK'
  <2>1. now \in Dates
    BY DEF Dates
  <2>2. ranAt' \in [Procs -> Dates]
    BY <1>5, <2>1 DEF CreateRow
  <2>3. QED
    BY <1>5, <2>2 DEF CreateRow
<1>6. ASSUME NEW p \in Procs, ReadCron(p)
      PROVE  TypeOK'
  <2>1. current[p] \in Schedules \X Dates
    BY <1>6 DEF ReadCron, Places
  <2>2. cron[current[p][1]] \in Periods
    BY <2>1
  <2>3. ranAt[p] \in Nat /\ ranAt[p] <= now
    BY <1>6 DEF ReadCron, Places, Dates
  <2>4. NextRunTime(cron[current[p][1]], ranAt[p]) \in Dates
    BY <2>2, <2>3, NextIsDate
  <2>5. ranAt' \in [Procs -> Dates]
    BY <1>6, <2>4 DEF ReadCron
  <2>6. QED
    BY <1>6, <2>5 DEF ReadCron
<1>7. ASSUME NEW p \in Procs, WriteNextRun(p)
      PROVE  TypeOK'
  <2>1. nextRun' \in [Schedules -> Dates]
    BY <1>7 DEF WriteNextRun
  <2>2. current' \in [Procs -> {<<>>} \union (Schedules \X Dates)]
    BY <1>7 DEF WriteNextRun
  <2>3. ranAt' \in [Procs -> Dates]
    BY <1>7 DEF WriteNextRun, Dates
  <2>4. QED
    BY <1>7, <2>1, <2>2, <2>3 DEF WriteNextRun
<1>8. ASSUME NEW p \in Procs, SkipSchedule(p)
      PROVE  TypeOK'
  BY <1>8 DEF SkipSchedule
<1>9. ASSUME NEW p \in Procs, ScheduleThrows(p)
      PROVE  TypeOK'
  BY <1>9, CutStep DEF ScheduleThrows
<1>10. ASSUME NEW p \in Procs, EndCheck(p)
       PROVE  TypeOK'
  BY <1>10 DEF EndCheck
<1>11. ASSUME NEW p \in Procs, Crash(p)
       PROVE  TypeOK'
  <2>1. due' \in [Procs -> SUBSET (Schedules \X Dates)] /\ crashes' \in 0 .. MaxCrashes
    BY <1>11 DEF Crash
  <2>2. QED
    BY <1>11, <2>1, CutStep DEF Crash
<1>12. ASSUME NEW s \in Schedules, UpdateCron(s)
       PROVE  TypeOK'
  <2>1. now \in Nat /\ now <= now
    OBVIOUS
  <2>2. QED
    BY <1>12, <2>1, NextIsDate DEF UpdateCron, Edit
<1>13. ASSUME NEW s \in Schedules, Toggle(s)
       PROVE  TypeOK'
  <2>1. now \in Nat /\ now <= now
    OBVIOUS
  <2>2. QED
    BY <1>13, <2>1, NextIsDate DEF Toggle, Edit
<1>14. ASSUME NEW s \in Schedules, DeleteSchedule(s)
       PROVE  TypeOK'
  BY <1>14 DEF DeleteSchedule, Edit
<1>15. QED
  BY <1>1, <1>2, <1>3, <1>4, <1>5, <1>6, <1>7, <1>8, <1>9, <1>10, <1>11, <1>12, <1>13, <1>14
     DEF Next, WorkerStep

-----------------------------------------------------------------------------
(* A worker holds what its place says.                                     *)
LEMMA PlacesStep ==
  ASSUME TypeOK, Places, HeldIsNewest, [Next]_vars
  PROVE  Places'
<1> USE DEF TypeOK, Places, rowVars, workerVars, historyVars, Place
<1>1. CASE UNCHANGED vars
  BY <1>1 DEF vars
<1>2. CASE Tick
  <2>1. UNCHANGED <<at, due, current, ranAt>> /\ now' = now + 1 /\ now \in Nat
    BY <1>2 DEF Tick
  <2>2. \A p \in Procs : ranAt[p] \in Nat
    BY DEF Dates
  <2>3. QED
    BY <2>1, <2>2
<1>3. ASSUME NEW p \in Procs, Check(p)
      PROVE  Places'
  BY <1>3 DEF Check
<1>4. ASSUME NEW p \in Procs, QueueExport(p)
      PROVE  Places'
  <2>1. PICK d \in due[p] : due' = [due EXCEPT ![p] = @ \ {d}] /\ current' = [current EXCEPT ![p] = d]
    BY <1>4 DEF QueueExport
  <2>2. d # <<>>
    <3>1. d \in Schedules \X Dates
      OBVIOUS
    <3>2. QED
      BY <3>1, PairIsSome
  <2>3. QED
    BY <1>4, <2>1, <2>2 DEF QueueExport
<1>5. ASSUME NEW p \in Procs, CreateRow(p)
      PROVE  Places'
  <2>1. current[p] \in Schedules \X Dates /\ current[p][2] <= now
    BY <1>5 DEF CreateRow, HeldIsNewest
  <2>2. current[p][2] \in Nat /\ now \in Nat
    BY <2>1 DEF Dates
  <2>3. ranAt'[p] = now /\ now' = now /\ current' = current /\ due' = due
    BY <1>5 DEF CreateRow
  <2>4. QED
    BY <1>5, <2>1, <2>2, <2>3 DEF CreateRow
<1>6. ASSUME NEW p \in Procs, ReadCron(p)
      PROVE  Places'
  <2>1. cron[current[p][1]] \in Periods
    BY <1>6 DEF ReadCron
  <2>2. current[p] \in Schedules \X Dates /\ current[p][2] \in Nat
    <3>1. current[p] \in Schedules \X Dates
      BY <1>6 DEF ReadCron
    <3>2. QED
      BY <3>1 DEF Dates
  <2>3. ranAt[p] \in Nat /\ ranAt[p] <= now /\ ranAt[p] >= current[p][2]
    BY <1>6 DEF ReadCron, Dates
  <2>4. ranAt'[p] > current[p][2]
    <3>1. ranAt'[p] = NextRunTime(cron[current[p][1]], ranAt[p])
      BY <1>6 DEF ReadCron
    <3>2. ranAt'[p] \in Nat /\ ranAt'[p] > ranAt[p]
      BY <2>1, <2>3, <3>1, NextIsDate DEF Dates
    <3>3. QED
      BY <2>2, <2>3, <3>2
  <2>5. QED
    BY <1>6, <2>4 DEF ReadCron
<1>7. ASSUME NEW p \in Procs, WriteNextRun(p)
      PROVE  Places'
  BY <1>7 DEF WriteNextRun
<1>8. ASSUME NEW p \in Procs, SkipSchedule(p)
      PROVE  Places'
  BY <1>8 DEF SkipSchedule
<1>9. ASSUME NEW p \in Procs, ScheduleThrows(p)
      PROVE  Places'
  BY <1>9 DEF ScheduleThrows, CutShort
<1>10. ASSUME NEW p \in Procs, EndCheck(p)
       PROVE  Places'
  BY <1>10 DEF EndCheck
<1>11. ASSUME NEW p \in Procs, Crash(p)
       PROVE  Places'
  BY <1>11 DEF Crash, CutShort
<1>12. ASSUME NEW s \in Schedules, UpdateCron(s) \/ Toggle(s) \/ DeleteSchedule(s)
       PROVE  Places'
  BY <1>12 DEF UpdateCron, Toggle, DeleteSchedule, Edit
<1>13. QED
  BY <1>1, <1>2, <1>3, <1>4, <1>5, <1>6, <1>7, <1>8, <1>9, <1>10, <1>11, <1>12
     DEF Next, WorkerStep

-----------------------------------------------------------------------------
(* A worker gets schedules only when it checks.                            *)
LEMMA HasShrinks ==
  ASSUME TypeOK, Places, [Next]_vars, \A p \in Procs : ~Check(p)
  PROVE  UNCHANGED shared /\ \A q \in Procs, s \in Schedules : Has(q, s)' => Has(q, s)
<1> USE DEF TypeOK, Has, rowVars, workerVars, historyVars, Place
<1>1. CASE UNCHANGED vars \/ Tick
  BY <1>1 DEF vars, Tick
<1>2. ASSUME NEW p \in Procs, QueueExport(p)
      PROVE  UNCHANGED shared /\ \A q \in Procs, s \in Schedules : Has(q, s)' => Has(q, s)
  <2>1. PICK d \in due[p] : due' = [due EXCEPT ![p] = @ \ {d}] /\ current' = [current EXCEPT ![p] = d]
    BY <1>2 DEF QueueExport
  <2>2. QED
    BY <1>2, <2>1 DEF QueueExport
<1>3. ASSUME NEW p \in Procs,
             CreateRow(p) \/ ReadCron(p) \/ WriteNextRun(p) \/ SkipSchedule(p) \/ EndCheck(p)
      PROVE  UNCHANGED shared /\ \A q \in Procs, s \in Schedules : Has(q, s)' => Has(q, s)
  BY <1>3 DEF CreateRow, ReadCron, WriteNextRun, SkipSchedule, EndCheck
<1>4. ASSUME NEW p \in Procs, ScheduleThrows(p) \/ Crash(p)
      PROVE  UNCHANGED shared /\ \A q \in Procs, s \in Schedules : Has(q, s)' => Has(q, s)
  BY <1>4 DEF ScheduleThrows, Crash, CutShort
<1>5. ASSUME NEW s \in Schedules, UpdateCron(s) \/ Toggle(s) \/ DeleteSchedule(s)
      PROVE  UNCHANGED <<shared, due, current>>
  BY <1>5 DEF UpdateCron, Toggle, DeleteSchedule, Edit
<1>6. QED
  BY <1>1, <1>2, <1>3, <1>4, <1>5 DEF Next, WorkerStep

(* A worker keeps one date of each schedule that it has.                   *)
LEMMA OneDateStep ==
  ASSUME TypeOK, Places, OneDate, [Next]_vars
  PROVE  OneDate'
<1> USE DEF TypeOK, OneDate, rowVars, workerVars, historyVars, Place
<1>1. CASE UNCHANGED vars \/ Tick
  BY <1>1 DEF vars, Tick
<1>2. ASSUME NEW p \in Procs, Check(p)
      PROVE  OneDate'
  <2>1. current[p] = <<>> /\ UNCHANGED current
    BY <1>2 DEF Check, Places
  <2>2. ASSUME NEW e \in due'[p], NEW f \in due'[p], e[1] = f[1]
        PROVE  e = f
    <3>1. PICK s \in Schedules : e = <<s, nextRun[s]>>
      BY <1>2, <2>2 DEF Check
    <3>2. PICK t \in Schedules : f = <<t, nextRun[t]>>
      BY <1>2, <2>2 DEF Check
    <3>3. QED
      BY <2>2, <3>1, <3>2
  <2>3. \A q \in Procs \ {p} : due'[q] = due[q]
    BY <1>2 DEF Check
  <2>4. QED
    BY <2>1, <2>2, <2>3
<1>3. ASSUME NEW p \in Procs, QueueExport(p)
      PROVE  OneDate'
  <2>1. PICK d \in due[p] : due' = [due EXCEPT ![p] = @ \ {d}] /\ current' = [current EXCEPT ![p] = d]
    BY <1>3 DEF QueueExport
  <2>2. \A e \in due'[p] : e \in due[p] /\ e[1] # d[1]
    BY <2>1
  <2>3. QED
    BY <2>1, <2>2
<1>4. ASSUME NEW p \in Procs,
             \/ CreateRow(p) \/ ReadCron(p) \/ WriteNextRun(p) \/ SkipSchedule(p)
             \/ EndCheck(p) \/ ScheduleThrows(p) \/ Crash(p)
      PROVE  OneDate'
  <2>1. \A q \in Procs : due'[q] \subseteq due[q] /\ current'[q] \in {current[q], <<>>}
    BY <1>4 DEF CreateRow, ReadCron, WriteNextRun, SkipSchedule, EndCheck, ScheduleThrows,
       Crash, CutShort
  <2>2. QED
    BY <2>1
<1>5. ASSUME NEW s \in Schedules, UpdateCron(s) \/ Toggle(s) \/ DeleteSchedule(s)
      PROVE  OneDate'
  BY <1>5 DEF UpdateCron, Toggle, DeleteSchedule, Edit
<1>6. QED
  BY <1>1, <1>2, <1>3, <1>4, <1>5 DEF Next, WorkerStep

(* A schedule that a second worker gets is counted among the shared ones.  *)
LEMMA OneHolderStep ==
  ASSUME TypeOK, Places, OneHolder, [Next]_vars
  PROVE  OneHolder'
<1>1. CASE \A p \in Procs : ~Check(p)
  BY <1>1, HasShrinks DEF OneHolder
<1>2. ASSUME NEW p \in Procs, Check(p)
      PROVE  OneHolder'
  <2>1. /\ shared' = shared \union {s \in Schedules : Due(s) /\ \E q \in Procs : Has(q, s)}
        /\ UNCHANGED current /\ current[p] = <<>>
        /\ \A q \in Procs \ {p} : due'[q] = due[q]
    BY <1>2 DEF Check, Places, TypeOK
  <2>2. ASSUME NEW s \in Schedules, Has(p, s)'
        PROVE  Due(s)
    <3>1. PICK e \in due'[p] : e[1] = s
      BY <2>1, <2>2 DEF Has
    <3>2. PICK t \in Schedules : Due(t) /\ e = <<t, nextRun[t]>>
      BY <1>2, <3>1 DEF Check, TypeOK
    <3>3. QED
      BY <3>1, <3>2
  <2>3. \A q \in Procs \ {p}, s \in Schedules : Has(q, s)' => Has(q, s)
    BY <2>1 DEF Has
  <2>4. SUFFICES ASSUME NEW s \in Schedules \ shared', NEW q \in Procs, NEW r \in Procs,
                        Has(q, s)', Has(r, s)', q # r
                 PROVE  FALSE
    BY DEF OneHolder
  <2>5. CASE q # p /\ r # p
    BY <2>1, <2>3, <2>4, <2>5 DEF OneHolder
  <2>6. CASE q = p
    BY <2>1, <2>2, <2>3, <2>4, <2>6
  <2>7. CASE r = p
    BY <2>1, <2>2, <2>3, <2>4, <2>7
  <2>8. QED
    BY <2>5, <2>6, <2>7
<1>3. QED
  BY <1>1, <1>2

-----------------------------------------------------------------------------
(* A date that a worker has is past, and not run before unless it was cut  *)
(* then.                                                                   *)
LEMMA NewestStep ==
  ASSUME IInv, TypeOK', [Next]_vars
  PROVE  HeldIsNewest'
<1> USE DEF IInv, TypeOK, rowVars, workerVars, historyVars, Place
<1>1. CASE UNCHANGED vars
  BY <1>1 DEF vars, HeldIsNewest, Later, Latest
<1>2. CASE Tick
  <2>1. UNCHANGED <<due, current, ran, cut, shared>> /\ now' >= now
    BY <1>2 DEF Tick
  <2>2. \A p \in Procs : \A e \in due[p] : e[2] \in Nat
    BY DEF Dates
  <2>3. \A p \in Procs : current[p] # <<>> => current[p] \in Schedules \X Dates
    OBVIOUS
  <2>4. \A p \in Procs : current[p] # <<>> => current[p][2] \in Nat
    BY <2>3 DEF Dates
  <2>5. now \in Nat /\ now' \in Nat
    BY <1>2 DEF Tick
  <2>6. QED
    BY <2>1, <2>2, <2>4, <2>5 DEF HeldIsNewest, Later, Latest
<1>3. ASSUME NEW p \in Procs, Check(p)
      PROVE  HeldIsNewest'
  <2>1. /\ UNCHANGED <<now, ran, cut, current>>
        /\ shared' = shared \union {s \in Schedules : Due(s) /\ \E q \in Procs : Has(q, s)}
    BY <1>3 DEF Check
  <2>2. ASSUME NEW e \in due'[p]
        PROVE  e[2] <= now /\ Later(e)'
    <3>1. PICK s \in Schedules : Due(s) /\ e = <<s, nextRun[s]>>
      BY <1>3 DEF Check
    <3>2. nextRun[s] <= now
      BY <3>1 DEF Due
    <3>3. ASSUME s \notin shared', NEW d \in ran[s]
          PROVE  d \in cut[s] \/ d < nextRun[s]
      <4>1. ~ \E q \in Procs : Has(q, s)
        BY <2>1, <3>1, <3>3
      <4>2. \A q \in Procs : current[q] # <<s, d>>
        <5>1. <<s, d>> \in Schedules \X Dates
          OBVIOUS
        <5>2. QED
          BY <4>1, <5>1, PairIsSome DEF Has
      <4>3. d \in cut[s] \/ nextRun[s] > d
        BY <2>1, <3>3, <4>2 DEF RunMovesOn
      <4>4. d \in Nat /\ nextRun[s] \in Nat
        BY DEF Dates
      <4>5. QED
        BY <4>3, <4>4
    <3>4. QED
      BY <2>1, <3>1, <3>2, <3>3 DEF Later
  <2>3. \A q \in Procs \ {p} : due'[q] = due[q]
    BY <1>3 DEF Check
  <2>4. shared \subseteq shared'
    BY <2>1
  <2>5. \A q \in Procs \ {p} : \A e \in due'[q] : e[2] <= now /\ Later(e)'
    BY <2>1, <2>3, <2>4 DEF HeldIsNewest, Later
  <2>6. \A q \in Procs : current[q] # <<>> => current[q][2] <= now /\ Latest(current[q])'
    BY <2>1, <2>4 DEF HeldIsNewest, Latest
  <2>7. QED
    BY <2>1, <2>2, <2>5, <2>6 DEF HeldIsNewest, Latest
<1>4. ASSUME NEW p \in Procs, QueueExport(p)
      PROVE  HeldIsNewest'
  <2>1. PICK d \in due[p] :
          /\ due' = [due EXCEPT ![p] = @ \ {d}]
          /\ current' = [current EXCEPT ![p] = d]
          /\ ran' = [ran EXCEPT ![d[1]] = @ \union {d[2]}]
    BY <1>4 DEF QueueExport
  <2>2. d = <<d[1], d[2]>> /\ d[1] \in Schedules /\ d[2] \in Dates /\ d # <<>>
    <3>1. d \in Schedules \X Dates
      OBVIOUS
    <3>2. QED
      BY <3>1, PairIsSome
  <2>3. UNCHANGED <<now, cut, shared>> /\ Has(p, d[1]) /\ current[p] = <<>>
    BY <1>4, <2>1 DEF QueueExport, Has, Places
  <2>4. ran'[d[1]] = ran[d[1]] \union {d[2]} /\ \A s \in Schedules \ {d[1]} : ran'[s] = ran[s]
    BY <2>1, <2>2
  <2>5. ASSUME NEW q \in Procs, NEW e \in due'[q]
        PROVE  e[2] <= now' /\ Later(e)'
    <3>1. e \in due[q] /\ e[1] \in Schedules
      <4>1. e \in due[q] /\ e \in Schedules \X Dates
        BY <2>1, <2>5
      <4>2. QED
        BY <4>1, PairIsSome
    <3>2. e[2] <= now /\ Later(e)
      BY <3>1 DEF HeldIsNewest
    <3>3. e[1] = d[1] => e[1] \in shared
      <4>1. CASE q = p
        BY <2>1, <2>5, <3>1, <4>1 DEF OneDate
      <4>2. CASE q # p
        BY <2>2, <2>3, <3>1, <4>2 DEF OneHolder, Has
      <4>3. QED
        BY <4>1, <4>2
    <3>4. QED
      BY <2>3, <2>4, <3>1, <3>2, <3>3 DEF Later
  <2>6. d[2] <= now /\ Latest(d)'
    <3>1. d[2] <= now /\ Later(d) /\ d[2] \in Nat
      BY <2>2 DEF HeldIsNewest, Dates
    <3>2. \A x \in ran[d[1]] : x \in Nat
      BY <2>2 DEF Dates
    <3>3. QED
      BY <2>3, <2>4, <3>1, <3>2 DEF Later, Latest
  <2>7. ASSUME NEW q \in Procs, q # p, current[q] # <<>>
        PROVE  current[q][2] <= now /\ Latest(current[q])'
    <3>1. current[q] \in Schedules \X Dates /\ current'[q] = current[q]
      BY <2>1, <2>7
    <3>2. current[q][1] \in Schedules
      BY <3>1
    <3>3. current[q][1] = d[1] => d[1] \in shared
      BY <2>2, <2>3, <2>7 DEF OneHolder, Has
    <3>4. current[q][2] <= now /\ Latest(current[q])
      BY <2>7 DEF HeldIsNewest
    <3>5. QED
      BY <2>3, <2>4, <3>1, <3>2, <3>3, <3>4 DEF Latest
  <2>8. ASSUME NEW q \in Procs, current'[q] # <<>>
        PROVE  current'[q][2] <= now' /\ Latest(current[q])'
    <3>1. CASE q = p
      <4>1. current'[p] = d
        BY <2>1
      <4>2. QED
        BY <2>3, <2>6, <3>1, <4>1 DEF Latest
    <3>2. CASE q # p
      <4>1. current'[q] = current[q]
        BY <2>1, <3>2
      <4>2. QED
        BY <2>3, <2>7, <2>8, <3>2, <4>1 DEF Latest
    <3>3. QED
      BY <3>1, <3>2
  <2>9. QED
    BY <2>5, <2>8 DEF HeldIsNewest
<1>5. ASSUME NEW p \in Procs,
             \/ CreateRow(p) \/ ReadCron(p) \/ WriteNextRun(p) \/ SkipSchedule(p)
             \/ EndCheck(p) \/ ScheduleThrows(p) \/ Crash(p)
      PROVE  HeldIsNewest'
  <2>1. UNCHANGED <<now, ran, shared>>
    BY <1>5 DEF CreateRow, ReadCron, WriteNextRun, SkipSchedule, EndCheck, ScheduleThrows, Crash
  <2>2. \A q \in Procs : due'[q] \subseteq due[q] /\ current'[q] \in {current[q], <<>>}
    BY <1>5 DEF CreateRow, ReadCron, WriteNextRun, SkipSchedule, EndCheck, ScheduleThrows,
       Crash, CutShort
  <2>3. \A s \in Schedules : cut[s] \subseteq cut'[s]
    BY <1>5 DEF CreateRow, ReadCron, WriteNextRun, SkipSchedule, EndCheck, ScheduleThrows,
       Crash, CutShort
  <2>4. ASSUME NEW q \in Procs, NEW e \in due'[q]
        PROVE  e[2] <= now' /\ Later(e)'
    <3>1. e \in due[q] /\ e \in Schedules \X Dates
      BY <2>2, <2>4
    <3>2. e[1] \in Schedules /\ e[2] <= now /\ Later(e)
      BY <3>1, PairIsSome DEF HeldIsNewest
    <3>3. QED
      BY <2>1, <2>3, <3>2 DEF Later
  <2>5. ASSUME NEW q \in Procs, current'[q] # <<>>
        PROVE  current'[q][2] <= now' /\ Latest(current[q])'
    <3>1. current'[q] = current[q] /\ current[q] \in Schedules \X Dates
      BY <2>2, <2>5
    <3>2. current[q][1] \in Schedules /\ current[q][2] <= now /\ Latest(current[q])
      BY <2>5, <3>1 DEF HeldIsNewest
    <3>3. QED
      BY <2>1, <2>3, <3>1, <3>2 DEF Latest
  <2>6. QED
    BY <2>4, <2>5 DEF HeldIsNewest
<1>6. ASSUME NEW s \in Schedules, UpdateCron(s) \/ Toggle(s) \/ DeleteSchedule(s)
      PROVE  HeldIsNewest'
  BY <1>6 DEF UpdateCron, Toggle, DeleteSchedule, Edit, HeldIsNewest, Later, Latest
<1>7. QED
  BY <1>1, <1>2, <1>3, <1>4, <1>5, <1>6 DEF Next, WorkerStep

(* A worker that stops in between leaves the date it holds among those cut. *)
LEMMA CutKeeps ==
  ASSUME TypeOK, RunMovesOn, NEW p \in Procs, CutShort(p), UNCHANGED <<now, ran, nextRun, shared>>
  PROVE  RunMovesOn'
<1> SUFFICES ASSUME NEW s \in Schedules, NEW d \in ran[s]
             PROVE  /\ d <= now
                    /\ \/ s \in shared \/ d \in cut'[s] \/ nextRun[s] > d
                       \/ \E q \in Procs : current'[q] = <<s, d>>
  BY DEF RunMovesOn
<1> USE DEF TypeOK, CutShort
<1>1. d <= now /\ (s \in shared \/ d \in cut[s] \/ nextRun[s] > d \/ \E q \in Procs : current[q] = <<s, d>>)
  BY DEF RunMovesOn
<1>2. cut[s] \subseteq cut'[s]
  OBVIOUS
<1>3. ASSUME NEW q \in Procs, current[q] = <<s, d>>
      PROVE  d \in cut'[s] \/ current'[q] = <<s, d>>
  <2>1. CASE q = p
    <3>1. <<s, d>> \in Schedules \X Dates
      OBVIOUS
    <3>2. <<s, d>> # <<>>
      BY <3>1, PairIsSome
    <3>3. current[p] # <<>>
      BY <1>3, <2>1, <3>2
    <3>4. cut' = [cut EXCEPT ![current[p][1]] = @ \union {current[p][2]}]
      BY <3>3
    <3>5. current[p][1] = s /\ current[p][2] = d
      BY <1>3, <2>1
    <3>6. QED
      BY <3>4, <3>5
  <2>2. CASE q # p
    BY <1>3, <2>2
  <2>3. QED
    BY <2>1, <2>2
<1>4. QED
  BY <1>1, <1>2, <1>3

(* Of a date that was run, the row moves on.                               *)
LEMMA RunStep ==
  ASSUME IInv, TypeOK', [Next]_vars
  PROVE  RunMovesOn'
<1> USE DEF IInv, TypeOK, RunMovesOn, rowVars, workerVars, historyVars, Place
<1>1. CASE UNCHANGED vars
  BY <1>1 DEF vars
<1>2. CASE Tick
  <2>1. UNCHANGED <<ran, cut, shared, nextRun, current>> /\ now' >= now /\ now \in Nat /\ now' \in Nat
    BY <1>2 DEF Tick
  <2>2. ASSUME NEW s \in Schedules, NEW d \in ran[s]
        PROVE  d <= now'
    <3>1. d \in Nat /\ d <= now
      BY DEF Dates
    <3>2. QED
      BY <2>1, <3>1
  <2>3. QED
    BY <2>1, <2>2
<1>3. ASSUME NEW p \in Procs, QueueExport(p)
      PROVE  RunMovesOn'
  <2>1. PICK e \in due[p] :
          /\ current' = [current EXCEPT ![p] = e]
          /\ ran' = [ran EXCEPT ![e[1]] = @ \union {e[2]}]
    BY <1>3 DEF QueueExport
  <2>2. e = <<e[1], e[2]>> /\ e[1] \in Schedules /\ e[2] <= now
    <3>1. e \in Schedules \X Dates
      OBVIOUS
    <3>2. QED
      BY <3>1, PairIsSome DEF HeldIsNewest
  <2>3. UNCHANGED <<now, cut, shared, nextRun>> /\ current[p] = <<>>
    BY <1>3 DEF QueueExport, Places
  <2>4. ASSUME NEW s \in Schedules, NEW d \in ran'[s]
        PROVE  /\ d <= now
               /\ \/ s \in shared \/ d \in cut[s] \/ nextRun[s] > d
                  \/ \E q \in Procs : current'[q] = <<s, d>>
    <3>1. CASE s = e[1] /\ d = e[2]
      BY <2>1, <2>2, <3>1
    <3>2. CASE ~(s = e[1] /\ d = e[2])
      <4>1. d \in ran[s]
        BY <2>1, <2>2, <2>4, <3>2
      <4>2. ASSUME NEW q \in Procs, current[q] = <<s, d>>
            PROVE  current'[q] = <<s, d>>
        BY <2>1, <2>3, <4>2
      <4>3. QED
        BY <4>1, <4>2
    <3>3. QED
      BY <3>1, <3>2
  <2>5. QED
    BY <2>3, <2>4
<1>4. ASSUME NEW p \in Procs, WriteNextRun(p)
      PROVE  RunMovesOn'
  <2>1. current[p] \in Schedules \X Dates /\ ranAt[p] > current[p][2] /\ Latest(current[p])
    BY <1>4 DEF WriteNextRun, Places, HeldIsNewest
  <2>2. current[p][1] \in Schedules /\ current[p] = <<current[p][1], current[p][2]>>
    BY <2>1, PairIsSome
  <2>3. /\ UNCHANGED <<now, ran, cut, shared>>
        /\ nextRun' = [nextRun EXCEPT ![current[p][1]] = ranAt[p]]
        /\ current' = [current EXCEPT ![p] = <<>>]
    BY <1>4 DEF WriteNextRun
  <2>4. ASSUME NEW s \in Schedules, NEW d \in ran[s]
        PROVE  /\ d <= now
               /\ \/ s \in shared \/ d \in cut[s] \/ nextRun'[s] > d
                  \/ \E q \in Procs : current'[q] = <<s, d>>
    <3>1. CASE s = current[p][1]
      <4>1. d \in Nat /\ ranAt[p] \in Nat /\ current[p][2] \in Nat
        BY <2>1 DEF Dates
      <4>2. s \in shared \/ d \in cut[s] \/ d <= current[p][2]
        BY <2>1, <2>4, <3>1 DEF Latest
      <4>3. s \in shared \/ d \in cut[s] \/ ranAt[p] > d
        BY <2>1, <4>1, <4>2
      <4>4. QED
        BY <2>3, <3>1, <4>3
    <3>2. CASE s # current[p][1]
      <4>1. ASSUME NEW q \in Procs, current[q] = <<s, d>>
            PROVE  current'[q] = <<s, d>>
        BY <2>2, <2>3, <3>2, <4>1
      <4>2. QED
        BY <2>3, <3>2, <4>1
    <3>3. QED
      BY <3>1, <3>2
  <2>5. QED
    BY <2>3, <2>4
<1>5. ASSUME NEW p \in Procs,
             Check(p) \/ CreateRow(p) \/ ReadCron(p) \/ SkipSchedule(p) \/ EndCheck(p)
      PROVE  RunMovesOn'
  <2>1. UNCHANGED <<now, ran, cut, nextRun, current>> /\ shared \subseteq shared'
    BY <1>5 DEF Check, CreateRow, ReadCron, SkipSchedule, EndCheck
  <2>2. QED
    BY <2>1
<1>6. ASSUME NEW p \in Procs, ScheduleThrows(p) \/ Crash(p)
      PROVE  RunMovesOn'
  <2>1. CutShort(p) /\ UNCHANGED <<now, ran, nextRun, shared>>
    BY <1>6 DEF ScheduleThrows, Crash
  <2>2. QED
    BY <2>1, CutKeeps
<1>7. ASSUME NEW s \in Schedules, UpdateCron(s) \/ Toggle(s) \/ DeleteSchedule(s)
      PROVE  RunMovesOn'
  <2>1. UNCHANGED <<now, ran, cut, shared, current>>
    BY <1>7 DEF UpdateCron, Toggle, DeleteSchedule, Edit
  <2>2. \A t \in Schedules : nextRun'[t] = nextRun[t] \/ nextRun'[t] > now
    <3>1. now \in Nat /\ now <= now
      OBVIOUS
    <3>2. QED
      BY <1>7, <3>1, NextIsDate DEF UpdateCron, Toggle, DeleteSchedule, Edit
  <2>3. ASSUME NEW t \in Schedules, NEW d \in ran[t]
        PROVE  nextRun'[t] = nextRun[t] \/ nextRun'[t] > d
    <3>1. d \in Nat /\ d <= now /\ now \in Nat /\ nextRun'[t] \in Nat
      BY DEF Dates
    <3>2. QED
      BY <2>2, <3>1
  <2>4. QED
    BY <2>1, <2>3
<1>8. QED
  BY <1>1, <1>2, <1>3, <1>4, <1>5, <1>6, <1>7 DEF Next, WorkerStep

(* Only a date that was cut, or of a shared schedule, is run again.        *)
LEMMA AgainStep ==
  ASSUME IInv, [Next]_vars
  PROVE  AgainOnlyIfCut'
<1> USE DEF IInv, TypeOK, AgainOnlyIfCut, rowVars, workerVars, historyVars, Place
<1>1. CASE UNCHANGED vars \/ Tick
  BY <1>1 DEF vars, Tick
<1>2. ASSUME NEW p \in Procs, QueueExport(p)
      PROVE  AgainOnlyIfCut'
  <2>1. PICK e \in due[p] :
          twice' = [twice EXCEPT ![e[1]] = @ \union (ran[e[1]] \intersect {e[2]})]
    BY <1>2 DEF QueueExport
  <2>2. e[2] \in ran[e[1]] => e[1] \in shared \/ e[2] \in cut[e[1]]
    <3>1. e \in Schedules \X Dates /\ Later(e)
      BY DEF HeldIsNewest
    <3>2. e[2] \in Nat
      BY <3>1 DEF Dates
    <3>3. ~(e[2] < e[2])
      BY <3>2
    <3>4. QED
      BY <3>1, <3>3 DEF Later
  <2>3. QED
    BY <1>2, <2>1, <2>2 DEF QueueExport
<1>3. ASSUME NEW p \in Procs,
             \/ Check(p) \/ CreateRow(p) \/ ReadCron(p) \/ WriteNextRun(p)
             \/ SkipSchedule(p) \/ EndCheck(p)
      PROVE  AgainOnlyIfCut'
  BY <1>3 DEF Check, CreateRow, ReadCron, WriteNextRun, SkipSchedule, EndCheck
<1>4. ASSUME NEW p \in Procs, ScheduleThrows(p) \/ Crash(p)
      PROVE  AgainOnlyIfCut'
  <2>1. UNCHANGED <<twice, shared>>
    BY <1>4 DEF ScheduleThrows, Crash
  <2>2. \A s \in Schedules : cut[s] \subseteq cut'[s]
    BY <1>4 DEF ScheduleThrows, Crash, CutShort
  <2>3. QED
    BY <2>1, <2>2
<1>5. ASSUME NEW s \in Schedules, UpdateCron(s) \/ Toggle(s) \/ DeleteSchedule(s)
      PROVE  AgainOnlyIfCut'
  BY <1>5 DEF UpdateCron, Toggle, DeleteSchedule, Edit
<1>6. QED
  BY <1>1, <1>2, <1>3, <1>4, <1>5 DEF Next, WorkerStep

-----------------------------------------------------------------------------
(* The inductive invariant.                                                *)
LEMMA Invariant == Spec => []IInv
<1>1. IInv /\ [Next]_vars => IInv'
  <2> SUFFICES ASSUME IInv, [Next]_vars PROVE IInv'
    OBVIOUS
  <2>1. TypeOK'
    BY TypeStep DEF IInv
  <2>2. Places' /\ OneDate' /\ OneHolder'
    BY PlacesStep, OneDateStep, OneHolderStep DEF IInv
  <2>3. HeldIsNewest' /\ RunMovesOn' /\ AgainOnlyIfCut'
    BY <2>1, NewestStep, RunStep, AgainStep
  <2>4. QED
    BY <2>1, <2>2, <2>3 DEF IInv
<1>2. QED
  BY <1>1, InitStep, PTL DEF Spec

(* The types of what the rows and the workers hold (schedule.ts,           *)
(* schedule-service.ts).                                                   *)
THEOREM ScheduleTypes == Spec => []TypeOK
<1>1. IInv => TypeOK
  BY DEF IInv
<1>2. QED
  BY <1>1, Invariant, PTL

(* Whatever is edited, throws, dies or is slow: processSchedule queues an  *)
(* export again only for a date of which its own call was cut before       *)
(* nextRunAt was written, or for a schedule that two checks had at once.   *)
THEOREM RunAgainOnlyIfCut == Spec => []AgainOnlyIfCut
<1>1. IInv => AgainOnlyIfCut
  BY DEF IInv
<1>2. QED
  BY <1>1, Invariant, PTL

-----------------------------------------------------------------------------
(* While no check outlasts the interval, checks do not overlap: a check    *)
(* waits only while nobody checks, because the clock stands still          *)
(* meanwhile.                                                              *)
LEMMA OneCheckStep ==
  ASSUME TypeOK, OneCheck, "slow" \notin Faults, [Next]_vars
  PROVE  OneCheck'
<1> USE DEF TypeOK, OneCheck, rowVars, workerVars, historyVars, Place
<1>1. CASE UNCHANGED vars
  BY <1>1 DEF vars
<1>2. CASE Tick
  BY <1>2 DEF Tick
<1>3. ASSUME NEW p \in Procs, Check(p)
      PROVE  OneCheck'
  BY <1>3 DEF Check
<1>4. ASSUME NEW p \in Procs, WorkerStep(p)
      PROVE  OneCheck'
  <2>1. at[p] # "idle" /\ UNCHANGED waiting /\ \A q \in Procs \ {p} : at'[q] = at[q]
    BY <1>4 DEF WorkerStep, QueueExport, CreateRow, ReadCron, WriteNextRun, SkipSchedule,
       ScheduleThrows, EndCheck
  <2>2. QED
    BY <2>1
<1>5. ASSUME NEW p \in Procs, Crash(p)
      PROVE  OneCheck'
  BY <1>5 DEF Crash
<1>6. ASSUME NEW s \in Schedules, UpdateCron(s) \/ Toggle(s) \/ DeleteSchedule(s)
      PROVE  OneCheck'
  BY <1>6 DEF UpdateCron, Toggle, DeleteSchedule, Edit
<1>7. QED
  BY <1>1, <1>2, <1>3, <1>4, <1>5, <1>6 DEF Next

(* The worker that checks then finds no other with a schedule.             *)
LEMMA NoneSharedStep ==
  ASSUME TypeOK, Places, OneCheck, shared = {}, [Next]_vars
  PROVE  shared' = {}
<1>1. CASE \A p \in Procs : ~Check(p)
  BY <1>1, HasShrinks
<1>2. ASSUME NEW p \in Procs, Check(p)
      PROVE  shared' = {}
  <2>1. \A q \in Procs : due[q] = {} /\ current[q] = <<>>
    BY <1>2 DEF Check, OneCheck, Places
  <2>2. QED
    BY <1>2, <2>1 DEF Check, Has
<1>3. QED
  BY <1>1, <1>2

(* While no check outlasts the interval no two checks have a schedule at   *)
(* once, although every process that imports workers.ts checks; so then    *)
(* only a date that was cut is run again.                                  *)
THEOREM OneCheckAtATime ==
  ASSUME "slow" \notin Faults
  PROVE  Spec => []OnlyIfCut
<1>1. Init => Alone
  BY DEF Init, Alone, OneCheck
<1>2. IInv /\ Alone /\ [Next]_vars => Alone'
  BY OneCheckStep, NoneSharedStep DEF IInv, Alone
<1>3. AgainOnlyIfCut /\ Alone => OnlyIfCut
  BY DEF AgainOnlyIfCut, Alone, OnlyIfCut
<1>4. QED
  BY <1>1, <1>2, <1>3, Invariant, RunAgainOnlyIfCut, PTL DEF Spec
=============================================================================
