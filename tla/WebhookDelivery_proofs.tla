------------------------ MODULE WebhookDelivery_proofs ------------------------
(***************************************************************************)
(* Proofs about WebhookDelivery: its type invariant, the bound on posts to *)
(* a failing endpoint, that the breaker opens only for a cause, and that a *)
(* delivery shown as DELIVERED stays so.                                   *)
(***************************************************************************)
EXTENDS WebhookDelivery, FiniteSetTheorems, TLAPS

(* An attempt is where its pc says only while its job is active, and has   *)
(* updates to come only after its post; a job goes on only while it may.   *)
Shape ==
  \A d \in Deliveries :
    /\ pc[d] # "none" => job[d] = "active"
    /\ todo[d] # {} => pc[d] = "record"
    /\ job[d] \in {"waiting", "active"} => tries[d] < MaxTries /\ stalled[d] <= MaxStalled

SlotsKept == Cardinality(Active) <= Slots

CauseKnown == failCount <= failedRow \/ failedRow = Threshold

IInv == TypeOK /\ Shape /\ SlotsKept /\ OvershootBounded /\ CauseKnown

USE DeliveriesAssumption, SlotsAssumption, MaxTriesAssumption, MaxStalledAssumption,
    ThresholdAssumption, CooldownAssumption

-----------------------------------------------------------------------------
(* The sets that the invariant counts are finite, and what is in flight is *)
(* active.                                                                 *)
LEMMA FiniteParts ==
  ASSUME TypeOK, Shape
  PROVE  /\ IsFiniteSet(Active) /\ Cardinality(Active) \in Nat
         /\ IsFiniteSet(InFlight) /\ Cardinality(InFlight) \in Nat
         /\ Cardinality(InFlight) <= Cardinality(Active)
<1>1. Active \subseteq Deliveries /\ InFlight \subseteq Active
  BY DEF Active, InFlight, Shape, TypeOK
<1>2. IsFiniteSet(Active)
  BY <1>1, FS_Subset
<1>3. IsFiniteSet(InFlight) /\ Cardinality(InFlight) <= Cardinality(Active)
  BY <1>1, <1>2, FS_Subset
<1>4. QED
  BY <1>2, <1>3, FS_CardinalityType

(* A step that neither lets another post through nor raises the count      *)
(* keeps the bound.                                                        *)
LEMMA NoMoreOut ==
  ASSUME TypeOK, Shape, TypeOK', Shape', OvershootBounded,
         InFlight' \subseteq InFlight, failCount' <= failCount
  PROVE  OvershootBounded'
<1>1. Cardinality(InFlight') <= Cardinality(InFlight)
  BY FiniteParts, FS_Subset
<1>2. Cardinality(InFlight') \in Nat /\ Cardinality(InFlight) \in Nat
  BY FiniteParts, FS_CardinalityType, FS_Subset
<1>3. failCount \in Nat /\ failCount' \in Nat
  BY DEF TypeOK
<1>4. QED
  BY <1>1, <1>2, <1>3 DEF OvershootBounded

(* A step after which the count is below the threshold keeps the bound,    *)
(* because only what is active can be in flight.                           *)
LEMMA BelowAfter ==
  ASSUME TypeOK', Shape', SlotsKept', failCount' < Threshold
  PROVE  OvershootBounded'
<1>1. IsFiniteSet(Active') /\ InFlight' \subseteq Active'
  <2>1. Active' \subseteq Deliveries
    BY DEF Active
  <2>2. InFlight' \subseteq Active'
    BY DEF Active, InFlight, Shape, TypeOK
  <2>3. QED
    BY <2>1, <2>2, FS_Subset
<1>2. Cardinality(InFlight') <= Cardinality(Active')
  BY <1>1, FS_Subset
<1>3. Cardinality(InFlight') \in Nat /\ Cardinality(Active') \in Nat
  BY <1>1, FS_CardinalityType, FS_Subset
<1>4. failCount' \in Nat
  BY DEF TypeOK
<1>5. QED
  BY <1>2, <1>3, <1>4 DEF OvershootBounded, SlotsKept

(* The active deliveries that remain, or lose one, still fit the slots.    *)
LEMMA NoMoreActive ==
  ASSUME TypeOK, Shape, SlotsKept, Active' \subseteq Active
  PROVE  SlotsKept'
<1>1. IsFiniteSet(Active) /\ Cardinality(Active) \in Nat
  BY FiniteParts
<1>2. Cardinality(Active') <= Cardinality(Active)
  BY <1>1, FS_Subset
<1>3. Cardinality(Active') \in Nat
  BY <1>1, FS_Subset, FS_CardinalityType
<1>4. QED
  BY <1>1, <1>2, <1>3 DEF SlotsKept

-----------------------------------------------------------------------------
(* How an attempt ends: with a throw, or completed.                        *)
LEMMA EndStep ==
  ASSUME TypeOK, Shape, NEW d \in Deliveries, job[d] = "active",
         AttemptThrows(d) \/ (Done(d, "completed") /\ UNCHANGED <<tries, stalled>>),
         UNCHANGED <<status, breakerVars, customer, historyVars>>
  PROVE  TypeOK' /\ Shape'
<1> USE DEF TypeOK, Shape, breakerVars, historyVars
<1>1. CASE AttemptThrows(d)
  <2>1. Shape'
    BY <1>1 DEF AttemptThrows, Done
  <2>2. tries' \in [Deliveries -> 0 .. MaxTries]
    BY <1>1 DEF AttemptThrows
  <2>3. TypeOK'
    BY <1>1, <2>2 DEF AttemptThrows, Done
  <2>4. QED
    BY <2>1, <2>3
<1>2. CASE Done(d, "completed") /\ UNCHANGED <<tries, stalled>>
  BY <1>2 DEF Done
<1>3. QED
  BY <1>1, <1>2

(* The state that a step leaves is of the right type and shape.            *)
LEMMA TypeStep ==
  ASSUME TypeOK, Shape, [Next]_vars
  PROVE  TypeOK' /\ Shape'
<1> USE DEF TypeOK, Shape
<1>1. CASE UNCHANGED vars
  BY <1>1 DEF vars, jobVars, workVars, breakerVars, historyVars
<1>2. CASE DeleteCustomer
  BY <1>2 DEF DeleteCustomer, jobVars, workVars, breakerVars, historyVars
<1>3. CASE Tick
  BY <1>3 DEF Tick, jobVars, workVars, historyVars
<1>4. ASSUME NEW d \in Deliveries, Take(d)
      PROVE  TypeOK' /\ Shape'
  BY <1>4 DEF Take, breakerVars, historyVars
<1>5. ASSUME NEW d \in Deliveries, Lose(d)
      PROVE  TypeOK' /\ Shape'
  <2>1. Shape'
    BY <1>5 DEF Lose, Done
  <2>2. stalled' \in [Deliveries -> 0 .. MaxStalled + 1]
    BY <1>5 DEF Lose
  <2>3. TypeOK'
    BY <1>5, <2>2 DEF Lose, Done, Doubt, breakerVars, historyVars
  <2>4. QED
    BY <2>1, <2>3
<1>6. ASSUME NEW d \in Deliveries, CheckCircuit(d)
      PROVE  TypeOK' /\ Shape'
  BY <1>6 DEF CheckCircuit, jobVars, breakerVars, historyVars
<1>7. ASSUME NEW d \in Deliveries, Pause(d)
      PROVE  TypeOK' /\ Shape'
  <2>1. job[d] = "active"
    BY <1>7 DEF Pause
  <2>2. QED
    BY <1>7, <2>1, EndStep DEF Pause
<1>8. ASSUME NEW d \in Deliveries, ResetCircuit(d)
      PROVE  TypeOK' /\ Shape'
  BY <1>8 DEF ResetCircuit, jobVars, historyVars
<1>9. ASSUME NEW d \in Deliveries, ResetThrows(d)
      PROVE  TypeOK' /\ Shape'
  <2>1. job[d] = "active"
    BY <1>9 DEF ResetThrows
  <2>2. QED
    BY <1>9, <2>1, EndStep DEF ResetThrows
<1>10. ASSUME NEW d \in Deliveries, NEW a \in Answers, Post(d, a)
       PROVE  TypeOK' /\ Shape'
  BY <1>10 DEF Post, jobVars, breakerVars, historyVars
<1>11. ASSUME NEW d \in Deliveries, UpdateRow(d)
       PROVE  TypeOK' /\ Shape'
  BY <1>11 DEF UpdateRow, jobVars, breakerVars, historyVars
<1>12. ASSUME NEW d \in Deliveries, UpdateCustomer(d)
       PROVE  TypeOK' /\ Shape'
  <2>1. Shape'
    BY <1>12 DEF UpdateCustomer, jobVars
  <2>2. failCount' \in Nat
    BY <1>12 DEF UpdateCustomer, CountAfter
  <2>3. failedRow' \in 0 .. Threshold /\ sinceOk' \in 0 .. Cooldown
    BY <1>12 DEF UpdateCustomer
  <2>4. todo' \in [Deliveries -> SUBSET Updates]
    BY <1>12 DEF UpdateCustomer
  <2>5. TypeOK'
    BY <1>12, <2>2, <2>3, <2>4 DEF UpdateCustomer, jobVars
  <2>6. QED
    BY <2>1, <2>5
<1>13. ASSUME NEW d \in Deliveries, UpdateThrows(d)
       PROVE  TypeOK' /\ Shape'
  BY <1>13 DEF UpdateThrows, Doubt, jobVars, breakerVars, historyVars
<1>14. ASSUME NEW d \in Deliveries, EndAttempt(d)
       PROVE  TypeOK' /\ Shape'
  <2>1. job[d] = "active"
    BY <1>14 DEF EndAttempt
  <2>2. QED
    BY <1>14, <2>1, EndStep DEF EndAttempt
<1>15. QED
  BY <1>1, <1>2, <1>3, <1>4, <1>5, <1>6, <1>7, <1>8, <1>9, <1>10, <1>11, <1>12, <1>13, <1>14
     DEF Next, Attempt

(* A delivery is taken only into a free slot, and no other step makes one  *)
(* active.                                                                 *)
LEMMA SlotsStep ==
  ASSUME IInv, [Next]_vars
  PROVE  SlotsKept'
<1> USE DEF IInv
<1>1. ASSUME NEW d \in Deliveries, Take(d)
      PROVE  SlotsKept'
  <2>1. Active' = Active \union {d} /\ d \notin Active
    BY <1>1 DEF Take, Active, TypeOK
  <2>2. Cardinality(Active') = Cardinality(Active) + 1
    BY <2>1, FiniteParts, FS_AddElement
  <2>3. QED
    BY <1>1, <2>2, FiniteParts DEF Take, SlotsKept
<1>2. CASE ~\E d \in Deliveries : Take(d)
  <2>1. Active' \subseteq Active
    <3>1. ASSUME NEW e \in Deliveries, job'[e] = "active" PROVE job[e] = "active"
      BY <1>2, <3>1 DEF Next, vars, Attempt, CheckCircuit, Pause, ResetCircuit, ResetThrows,
         Post, UpdateRow, UpdateCustomer, UpdateThrows, EndAttempt, AttemptThrows, Done, Lose,
         DeleteCustomer, Tick, jobVars, TypeOK
    <3>2. QED
      BY <3>1 DEF Active
  <2>2. QED
    BY <2>1, NoMoreActive
<1>3. QED
  BY <1>1, <1>2

(* The bound on the count and what is in flight.                           *)
LEMMA OvershootStep ==
  ASSUME IInv, [Next]_vars, TypeOK', Shape', SlotsKept'
  PROVE  OvershootBounded'
<1> USE DEF IInv
<1>1. ASSUME NEW d \in Deliveries, CheckCircuit(d)
      PROVE  OvershootBounded'
  <2>1. CASE BelowThreshold
    BY <1>1, <2>1, BelowAfter DEF CheckCircuit, BelowThreshold, breakerVars, historyVars
  <2>2. CASE ~BelowThreshold
    <3>1. InFlight' \subseteq InFlight /\ failCount' = failCount
      BY <1>1, <2>2 DEF CheckCircuit, InFlight, TypeOK, breakerVars, historyVars
    <3>2. QED
      BY <3>1, NoMoreOut DEF TypeOK
  <2>3. QED
    BY <2>1, <2>2
<1>2. ASSUME NEW d \in Deliveries, ResetCircuit(d)
      PROVE  OvershootBounded'
  BY <1>2, BelowAfter DEF ResetCircuit
<1>3. ASSUME NEW d \in Deliveries, UpdateCustomer(d)
      PROVE  OvershootBounded'
  <2>1. InFlight' = InFlight \ {d} /\ d \in InFlight
    BY <1>3 DEF UpdateCustomer, InFlight, TypeOK, Shape
  <2>2. IsFiniteSet(InFlight) /\ Cardinality(InFlight) \in Nat
    BY FiniteParts
  <2>3. Cardinality(InFlight') = Cardinality(InFlight) - 1
    BY <2>1, <2>2, FS_RemoveElement
  <2>4. failCount' <= failCount + 1 /\ failCount \in Nat /\ failCount' \in Nat
    BY <1>3 DEF UpdateCustomer, CountAfter, TypeOK
  <2>5. QED
    BY <2>2, <2>3, <2>4 DEF OvershootBounded
<1>4. ASSUME NEW d \in Deliveries, NEW a \in Answers, Post(d, a)
      PROVE  OvershootBounded'
  <2>1. InFlight' \subseteq InFlight /\ failCount' = failCount
    BY <1>4 DEF Post, InFlight, TypeOK, breakerVars, historyVars, Updates
  <2>2. QED
    BY <2>1, NoMoreOut DEF TypeOK
<1>5. ASSUME NEW d \in Deliveries,
             Take(d) \/ Lose(d) \/ Pause(d) \/ ResetThrows(d) \/ UpdateRow(d) \/ UpdateThrows(d)
               \/ EndAttempt(d)
      PROVE  OvershootBounded'
  <2>1. failCount' = failCount
    BY <1>5 DEF Take, Lose, Pause, ResetThrows, UpdateRow, UpdateThrows, EndAttempt, breakerVars, historyVars
  <2>2. InFlight' \subseteq InFlight
    BY <1>5 DEF Take, Lose, Pause, ResetThrows, UpdateRow, UpdateThrows, EndAttempt,
       AttemptThrows, Done, InFlight, TypeOK
  <2>3. QED
    BY <2>1, <2>2, NoMoreOut DEF TypeOK
<1>6. CASE DeleteCustomer \/ Tick \/ UNCHANGED vars
  BY <1>6, NoMoreOut DEF DeleteCustomer, Tick, vars, workVars, breakerVars, historyVars, InFlight, TypeOK
<1>7. QED
  BY <1>1, <1>2, <1>3, <1>4, <1>5, <1>6 DEF Next, Attempt

(* The count never runs ahead of the failures recorded since a success.    *)
LEMMA CauseStep ==
  ASSUME IInv, [Next]_vars
  PROVE  CauseKnown'
<1> USE DEF IInv, CauseKnown
<1>1. ASSUME NEW d \in Deliveries, UpdateCustomer(d)
      PROVE  CauseKnown'
  BY <1>1 DEF UpdateCustomer, CountAfter, TypeOK
<1>2. ASSUME NEW d \in Deliveries, ResetCircuit(d)
      PROVE  CauseKnown'
  BY <1>2 DEF ResetCircuit, historyVars, TypeOK
<1>3. CASE ~\E d \in Deliveries : UpdateCustomer(d) \/ ResetCircuit(d)
  <2>1. failCount' = failCount /\ failedRow' = failedRow
    BY <1>3 DEF Next, vars, Attempt, Take, CheckCircuit, Pause, ResetThrows, Post, UpdateRow,
       UpdateThrows, Doubt, EndAttempt, Lose, DeleteCustomer, Tick, breakerVars, historyVars
  <2>2. QED
    BY <2>1
<1>4. QED
  BY <1>1, <1>2, <1>3

-----------------------------------------------------------------------------
(* The inductive invariant.                                                *)
LEMMA Invariant == Spec => []IInv
<1>1. Init => IInv
  <2> SUFFICES ASSUME Init PROVE IInv
    OBVIOUS
  <2>1. TypeOK /\ Shape /\ CauseKnown
    BY DEF Init, TypeOK, Shape, CauseKnown
  <2>2. Active = {} /\ InFlight = {}
    BY DEF Init, Active, InFlight
  <2>3. SlotsKept /\ OvershootBounded
    BY <2>2, FS_EmptySet DEF SlotsKept, OvershootBounded, Init
  <2>4. QED
    BY <2>1, <2>3 DEF IInv
<1>2. IInv /\ [Next]_vars => IInv'
  <2> SUFFICES ASSUME IInv, [Next]_vars PROVE IInv'
    OBVIOUS
  <2>1. TypeOK' /\ Shape'
    BY TypeStep DEF IInv
  <2>2. SlotsKept' /\ CauseKnown'
    BY SlotsStep, CauseStep
  <2>3. OvershootBounded'
    BY <2>1, <2>2, OvershootStep
  <2>4. QED
    BY <2>1, <2>2, <2>3 DEF IInv
<1>3. QED
  BY <1>1, <1>2, PTL DEF Spec

(* The variables of WebhookDelivery keep their types.                      *)
THEOREM WebhookTypes == Spec => []TypeOK
<1>1. IInv => TypeOK
  BY DEF IInv
<1>2. QED
  BY <1>1, Invariant, PTL

(* However many deliveries run at once, posts to a failing endpoint exceed *)
(* the threshold of isCircuitOpen by less than the number of slots.        *)
THEOREM Overshoot == Spec => []OvershootBounded
<1>1. IInv => OvershootBounded
  BY DEF IInv
<1>2. QED
  BY <1>1, Invariant, PTL

(* The breaker opens only after Threshold failures without a success.      *)
THEOREM OpensOnlyForCause == Spec => []OpensForCause
<1>1. IInv => OpensForCause
  BY DEF IInv, TypeOK, CauseKnown, OpensForCause, BelowThreshold
<1>2. QED
  BY <1>1, Invariant, PTL

-----------------------------------------------------------------------------
(* A delivery that is shown as DELIVERED without a doubt is over, or at    *)
(* the end of the attempt that delivered it.                               *)

ThrowsDoubted ==
  \A d \in Deliveries : threw[d] => pc[d] = "record" /\ (answer[d] = "ok" => d \in doubted)

DeliveredOnce ==
  \A d \in Deliveries \ doubted :
    status[d] = "DELIVERED" => job[d] = "completed" \/ (pc[d] = "record" /\ answer[d] = "ok")

(* An attempt that ends with a success and no throw completes its job; one *)
(* of another end delivered nothing, or is in doubt.                       *)
LEMMA EndDelivered ==
  ASSUME TypeOK, Shape, ThrowsDoubted, DeliveredOnce, NEW d \in Deliveries, job[d] = "active",
         NEW outcome \in {"waiting", "completed", "failed"}, Done(d, outcome), UNCHANGED status,
         doubted \subseteq doubted',
         d \in doubted' \/ outcome = "completed" \/ ~ (pc[d] = "record" /\ answer[d] = "ok")
  PROVE  ThrowsDoubted' /\ DeliveredOnce'
<1>1. \A e \in Deliveries \ {d} : /\ job'[e] = job[e] /\ pc'[e] = pc[e]
                                  /\ answer'[e] = answer[e] /\ threw'[e] = threw[e]
  BY DEF Done, TypeOK
<1>2. job'[d] = outcome /\ threw'[d] = FALSE
  BY DEF Done, TypeOK
<1>3. ThrowsDoubted'
  BY <1>1, <1>2 DEF ThrowsDoubted
<1>4. DeliveredOnce'
  BY <1>1, <1>2 DEF DeliveredOnce
<1>5. QED
  BY <1>3, <1>4

LEMMA DeliveredStep ==
  ASSUME TypeOK, Shape, ThrowsDoubted, DeliveredOnce, [Next]_vars
  PROVE  ThrowsDoubted' /\ DeliveredOnce'
<1>1. CASE DeleteCustomer \/ Tick \/ UNCHANGED vars
  BY <1>1 DEF DeleteCustomer, Tick, vars, jobVars, workVars, historyVars, ThrowsDoubted, DeliveredOnce
<1>2. ASSUME NEW d \in Deliveries, Take(d) \/ CheckCircuit(d) \/ ResetCircuit(d)
      PROVE  ThrowsDoubted' /\ DeliveredOnce'
  <2>1. UNCHANGED <<status, answer, threw, doubted>>
    BY <1>2 DEF Take, CheckCircuit, ResetCircuit, historyVars
  <2>2. pc[d] # "record" /\ job[d] # "completed"
    BY <1>2 DEF Take, CheckCircuit, ResetCircuit, Shape
  <2>3. \A e \in Deliveries \ {d} : job'[e] = job[e] /\ pc'[e] = pc[e]
    BY <1>2 DEF Take, CheckCircuit, ResetCircuit, jobVars, TypeOK
  <2>4. ~ threw[d] /\ (d \in doubted \/ status[d] # "DELIVERED")
    BY <2>2 DEF ThrowsDoubted, DeliveredOnce
  <2>5. QED
    BY <2>1, <2>3, <2>4 DEF ThrowsDoubted, DeliveredOnce
<1>3. ASSUME NEW d \in Deliveries, NEW a \in Answers, Post(d, a)
      PROVE  ThrowsDoubted' /\ DeliveredOnce'
  <2>1. UNCHANGED <<job, status, threw, doubted>> /\ pc[d] = "post" /\ job[d] = "active"
    BY <1>3 DEF Post, jobVars, historyVars, Shape
  <2>2. \A e \in Deliveries \ {d} : answer'[e] = answer[e] /\ pc'[e] = pc[e]
    BY <1>3 DEF Post, TypeOK
  <2>3. ~ threw[d] /\ (d \in doubted \/ status[d] # "DELIVERED")
    BY <2>1 DEF ThrowsDoubted, DeliveredOnce
  <2>4. QED
    BY <2>1, <2>2, <2>3 DEF ThrowsDoubted, DeliveredOnce
<1>4. ASSUME NEW d \in Deliveries, UpdateRow(d)
      PROVE  ThrowsDoubted' /\ DeliveredOnce'
  <2>1. UNCHANGED <<job, pc, answer, threw, doubted>> /\ pc[d] = "record"
    BY <1>4 DEF UpdateRow, jobVars, historyVars, Shape
  <2>2. /\ \A e \in Deliveries \ {d} : status'[e] = status[e]
        /\ status'[d] = "DELIVERED" => answer[d] = "ok"
    BY <1>4 DEF UpdateRow, TypeOK
  <2>3. QED
    BY <2>1, <2>2 DEF ThrowsDoubted, DeliveredOnce
<1>5. ASSUME NEW d \in Deliveries, UpdateCustomer(d)
      PROVE  ThrowsDoubted' /\ DeliveredOnce'
  BY <1>5 DEF UpdateCustomer, jobVars, ThrowsDoubted, DeliveredOnce
<1>6. ASSUME NEW d \in Deliveries, UpdateThrows(d)
      PROVE  ThrowsDoubted' /\ DeliveredOnce'
  <2>1. UNCHANGED <<job, pc, answer, status>> /\ pc[d] = "record"
    BY <1>6 DEF UpdateThrows, jobVars, Shape
  <2>2. /\ \A e \in Deliveries \ {d} : threw'[e] = threw[e]
        /\ doubted \subseteq doubted' /\ (answer[d] = "ok" => d \in doubted')
    BY <1>6 DEF UpdateThrows, Doubt, TypeOK
  <2>3. QED
    BY <2>1, <2>2 DEF ThrowsDoubted, DeliveredOnce
<1>7. ASSUME NEW d \in Deliveries, Pause(d) \/ ResetThrows(d)
      PROVE  ThrowsDoubted' /\ DeliveredOnce'
  <2>1. UNCHANGED <<status, doubted>> /\ pc[d] # "record" /\ job[d] = "active"
    BY <1>7 DEF Pause, ResetThrows, historyVars, Shape
  <2>2. \E outcome \in {"waiting", "completed", "failed"} : Done(d, outcome)
    BY <1>7 DEF Pause, ResetThrows, AttemptThrows
  <2>3. QED
    BY <2>1, <2>2, EndDelivered
<1>8. ASSUME NEW d \in Deliveries, EndAttempt(d)
      PROVE  ThrowsDoubted' /\ DeliveredOnce'
  <2>1. UNCHANGED <<status, doubted>> /\ job[d] = "active"
    BY <1>8 DEF EndAttempt, historyVars, Shape
  <2>2. PICK outcome \in {"waiting", "completed", "failed"} :
          Done(d, outcome) /\ (outcome = "completed" \/ answer[d] # "ok" \/ threw[d])
    BY <1>8 DEF EndAttempt, AttemptThrows
  <2>3. d \in doubted' \/ outcome = "completed" \/ ~ (pc[d] = "record" /\ answer[d] = "ok")
    BY <2>1, <2>2 DEF ThrowsDoubted
  <2>4. QED
    BY <2>1, <2>2, <2>3, EndDelivered
<1>9. ASSUME NEW d \in Deliveries, Lose(d)
      PROVE  ThrowsDoubted' /\ DeliveredOnce'
  <2>1. UNCHANGED status /\ job[d] = "active" /\ doubted \subseteq doubted'
        /\ (answer[d] = "ok" => d \in doubted')
    BY <1>9 DEF Lose, Doubt
  <2>2. \E outcome \in {"waiting", "completed", "failed"} : Done(d, outcome)
    BY <1>9 DEF Lose
  <2>3. QED
    BY <2>1, <2>2, EndDelivered
<1>10. QED
  BY <1>1, <1>2, <1>3, <1>4, <1>5, <1>6, <1>7, <1>8, <1>9 DEF Next, Attempt

(* Only the row's update changes a status, and for a delivery in no doubt  *)
(* it is that of the attempt that delivered it.                            *)
LEMMA DeliveredStays ==
  ASSUME TypeOK, Shape, DeliveredOnce, [Next]_vars, NEW d \in Deliveries \ doubted,
         status[d] = "DELIVERED"
  PROVE  status'[d] = "DELIVERED"
<1>1. CASE \E e \in Deliveries : UpdateRow(e)
  <2>1. PICK e \in Deliveries : UpdateRow(e)
    BY <1>1
  <2>2. CASE e # d
    BY <2>1, <2>2 DEF UpdateRow, TypeOK
  <2>3. CASE e = d
    <3>1. pc[d] = "record" /\ job[d] = "active"
      BY <2>1, <2>3 DEF UpdateRow, Shape
    <3>2. answer[d] = "ok"
      BY <3>1 DEF DeliveredOnce
    <3>3. QED
      BY <2>1, <2>3, <3>2 DEF UpdateRow, TypeOK
  <2>4. QED
    BY <2>2, <2>3
<1>2. CASE ~ \E e \in Deliveries : UpdateRow(e)
  <2>1. UNCHANGED status
    BY <1>2 DEF Next, vars, Attempt, Take, CheckCircuit, Pause, ResetCircuit, ResetThrows, Post,
       UpdateCustomer, UpdateThrows, EndAttempt, Lose, DeleteCustomer, Tick
  <2>2. QED
    BY <2>1
<1>3. QED
  BY <1>1, <1>2

(* A delivery shown as DELIVERED is not shown otherwise later, unless an   *)
(* attempt that delivered it was lost or one of its two updates threw      *)
(* (recordSuccess, recordFailure): for every number of deliveries, slots   *)
(* and attempts.                                                           *)
THEOREM DeliveredStaysDelivered == Spec => DeliveredIsFinal
<1>1. Init => ThrowsDoubted /\ DeliveredOnce
  BY DEF Init, ThrowsDoubted, DeliveredOnce
<1>2. IInv => TypeOK /\ Shape
  BY DEF IInv
<1>3. TypeOK /\ Shape /\ ThrowsDoubted /\ DeliveredOnce /\ [Next]_vars
        => (ThrowsDoubted /\ DeliveredOnce)'
  BY DeliveredStep
<1>4. TypeOK /\ Shape /\ ThrowsDoubted /\ DeliveredOnce /\ [Next]_vars
        => [\A d \in Deliveries \ doubted : status[d] = "DELIVERED" => status'[d] = "DELIVERED"]_vars
  BY DeliveredStays
<1>5. QED
  BY <1>1, <1>2, <1>3, <1>4, Invariant, PTL DEF Spec, DeliveredIsFinal
=============================================================================
