--------------------------- MODULE WebhookDelivery ---------------------------
(***************************************************************************)
(* Webhook deliveries of one customer: the BullMQ jobs of the              *)
(* webhook-notifications queue, of which Slots run at once, and the        *)
(* circuit breaker kept in two columns of the customer's row. Every        *)
(* delivery reads and writes those columns in calls of its own.            *)
(*                                                                         *)
(* The body of deliverWebhook is not in the repository: the order of its   *)
(* calls (check the breaker, post, record) and what it throws are those of *)
(* its comment, and where the comment leaves a choice, so does this module.*)
(***************************************************************************)
EXTENDS Integers, FiniteSets

CONSTANTS
  Deliveries,   \* WebhookDelivery rows and their queue jobs
  Slots,        \* concurrency of webhookWorker, over all processes
  MaxTries,     \* attempts of webhookQueue
  MaxStalled,   \* BullMQ's maxStalledCount
  Threshold,    \* CIRCUIT_BREAKER_THRESHOLD
  Cooldown,     \* CIRCUIT_BREAKER_RESET_MS, in ticks
  Faults        \* what may go wrong: FaultKinds

FaultKinds == {"crash", "db", "delete"}

ASSUME DeliveriesAssumption == IsFiniteSet(Deliveries)
ASSUME SlotsAssumption == Slots \in Nat \ {0}
ASSUME MaxTriesAssumption == MaxTries \in Nat \ {0}
ASSUME MaxStalledAssumption == MaxStalled \in Nat
ASSUME ThresholdAssumption == Threshold \in Nat \ {0}
ASSUME CooldownAssumption == Cooldown \in Nat \ {0}
ASSUME FaultsAssumption == Faults \subseteq FaultKinds

VARIABLES
  job,         \* state of the queue job
  tries,       \* BullMQ's attemptsMade
  stalled,     \* BullMQ's stalled count
  pc,          \* where the attempt in progress is
  answer,      \* what the endpoint answered to the last post
  todo,        \* updates of recordSuccess / recordFailure still to come
  threw,       \* whether one of them threw
  status,      \* status column of the delivery row
  failCount,   \* webhookFailCount of the customer
  sinceOk,     \* time since webhookLastSuccess, at most Cooldown
  customer,    \* whether the customer's row exists
  failedRow,   \* history: failed posts recorded since the last success, at most Threshold
  doubted      \* history: deliveries of which a successful attempt was lost or threw

jobVars == <<job, tries, stalled>>
workVars == <<pc, answer, todo, threw>>
breakerVars == <<failCount, sinceOk>>
historyVars == <<failedRow, doubted>>
vars == <<jobVars, workVars, status, breakerVars, customer, historyVars>>

(* 4xx, 5xx and no answer at all are one: BullMQ retries every error.       *)
Answers == {"ok", "error"}
Updates == {"row", "customer"}
Active == {d \in Deliveries : job[d] = "active"}

Init ==
  /\ job = [d \in Deliveries |-> "waiting"]
  /\ tries = [d \in Deliveries |-> 0]
  /\ stalled = [d \in Deliveries |-> 0]
  /\ pc = [d \in Deliveries |-> "none"]
  /\ answer = [d \in Deliveries |-> "none"]
  /\ todo = [d \in Deliveries |-> {}]
  /\ threw = [d \in Deliveries |-> FALSE]
  /\ status = [d \in Deliveries |-> "PENDING"]
  /\ failCount = 0
  /\ sinceOk \in {0, Cooldown}
  /\ customer = TRUE
  /\ failedRow = 0
  /\ doubted = {}

-----------------------------------------------------------------------------
(* BullMQ: a delivery is taken while a slot is free; an attempt that       *)
(* throws is retried until MaxTries, whatever the class of the error.      *)

Take(d) ==
  /\ job[d] = "waiting"
  /\ Cardinality(Active) < Slots
  /\ job' = [job EXCEPT ![d] = "active"]
  /\ pc' = [pc EXCEPT ![d] = "check"]
  /\ UNCHANGED <<tries, stalled, answer, todo, threw, status, breakerVars, customer, historyVars>>

Done(d, outcome) ==
  /\ job' = [job EXCEPT ![d] = outcome]
  /\ pc' = [pc EXCEPT ![d] = "none"]
  /\ todo' = [todo EXCEPT ![d] = {}]
  /\ threw' = [threw EXCEPT ![d] = FALSE]
  /\ answer' = [answer EXCEPT ![d] = "none"]

(* Mutant: an attempt that throws is not counted.                          *)
AttemptThrowsUncounted(d) ==
  /\ Done(d, IF tries[d] + 1 < MaxTries THEN "waiting" ELSE "failed")
  /\ UNCHANGED <<tries, stalled>>

AttemptThrows(d) ==
  /\ UNCHANGED stalled
  /\ tries' = [tries EXCEPT ![d] = @ + 1]
  /\ Done(d, IF tries[d] + 1 < MaxTries THEN "waiting" ELSE "failed")

-----------------------------------------------------------------------------
(* isCircuitOpen                                                           *)

(* Mutant: the count is compared one too late.                             *)
BelowThresholdLate == failCount <= Threshold

BelowThreshold == failCount < Threshold

(* The cooldown counts from the last success, and a customer that is gone  *)
(* is treated as an open circuit.                                          *)
CircuitOpen == ~customer \/ (~BelowThreshold /\ sinceOk < Cooldown)

CheckCircuit(d) ==
  /\ pc[d] = "check"
  /\ ~CircuitOpen
  /\ pc' = [pc EXCEPT ![d] = IF BelowThreshold THEN "post" ELSE "reset"]
  /\ UNCHANGED <<jobVars, answer, todo, threw, status, breakerVars, customer, historyVars>>

(* The delivery is paused: deliverWebhook throws, or returns a result that *)
(* the worker does not look at.                                            *)
Pause(d) ==
  /\ pc[d] = "check"
  /\ CircuitOpen
  /\ \/ AttemptThrows(d)
     \/ Done(d, "completed") /\ UNCHANGED <<tries, stalled>>
  /\ UNCHANGED <<status, breakerVars, customer, historyVars>>

ResetCircuit(d) ==
  /\ pc[d] = "reset"
  /\ customer
  /\ failCount' = 0
  /\ pc' = [pc EXCEPT ![d] = "post"]
  /\ UNCHANGED <<jobVars, answer, todo, threw, status, sinceOk, customer, historyVars>>

(* The reset throws: the row is not there, or the database fails.          *)
ResetThrows(d) ==
  /\ pc[d] = "reset"
  /\ ~customer \/ "db" \in Faults
  /\ AttemptThrows(d)
  /\ UNCHANGED <<status, breakerVars, customer, historyVars>>

-----------------------------------------------------------------------------
(* The post, and recordSuccess or recordFailure: two updates under one     *)
(* Promise.all, in either order. A retry comes 5 s later at the earliest,  *)
(* when both have settled.                                                 *)

Post(d, a) ==
  /\ pc[d] = "post"
  /\ answer' = [answer EXCEPT ![d] = a]
  /\ pc' = [pc EXCEPT ![d] = "record"]
  /\ todo' = [todo EXCEPT ![d] = Updates]
  /\ UNCHANGED <<jobVars, threw, status, breakerVars, customer, historyVars>>

UpdateRow(d) ==
  /\ customer
  /\ "row" \in todo[d]
  /\ todo' = [todo EXCEPT ![d] = @ \ {"row"}]
  /\ status' = [status EXCEPT ![d] = IF answer[d] = "ok" THEN "DELIVERED" ELSE "FAILED"]
  /\ UNCHANGED <<jobVars, pc, answer, threw, breakerVars, customer, historyVars>>

(* Mutant: a success forgets to reset the count.                           *)
CountAfterNoReset(d) == failCount + (IF answer[d] = "ok" THEN 0 ELSE 1)

CountAfter(d) == IF answer[d] = "ok" THEN 0 ELSE failCount + 1

UpdateCustomer(d) ==
  /\ customer
  /\ "customer" \in todo[d]
  /\ todo' = [todo EXCEPT ![d] = @ \ {"customer"}]
  /\ failCount' = CountAfter(d)
  /\ IF answer[d] = "ok"
     THEN sinceOk' = 0 /\ failedRow' = 0
     ELSE /\ failedRow' = IF failedRow < Threshold THEN failedRow + 1 ELSE Threshold
          /\ UNCHANGED sinceOk
  /\ UNCHANGED <<jobVars, pc, answer, threw, status, customer, doubted>>

Doubt(d) == doubted' = IF answer[d] = "ok" THEN doubted \union {d} ELSE doubted

UpdateThrows(d) ==
  /\ ~customer \/ "db" \in Faults
  /\ \E u \in todo[d] : todo' = [todo EXCEPT ![d] = @ \ {u}]
  /\ threw' = [threw EXCEPT ![d] = TRUE]
  /\ Doubt(d)
  /\ UNCHANGED <<jobVars, pc, answer, status, breakerVars, customer, failedRow>>

(* Mutant: a delivery that succeeded falls through to the throw.           *)
EndAttemptThrows(d) ==
  /\ pc[d] = "record"
  /\ todo[d] = {}
  /\ AttemptThrows(d)
  /\ UNCHANGED <<status, breakerVars, customer, historyVars>>

EndAttempt(d) ==
  /\ pc[d] = "record"
  /\ todo[d] = {}
  /\ IF answer[d] = "ok" /\ ~threw[d]
     THEN Done(d, "completed") /\ UNCHANGED <<tries, stalled>>
     ELSE AttemptThrows(d)
  /\ UNCHANGED <<status, breakerVars, customer, historyVars>>

-----------------------------------------------------------------------------
(* The process dies in an attempt: BullMQ's stalled check queues the       *)
(* delivery again, or fails it. The post may have reached the endpoint.    *)
Lose(d) ==
  /\ "crash" \in Faults
  /\ job[d] = "active"
  /\ stalled' = [stalled EXCEPT ![d] = @ + 1]
  /\ Done(d, IF stalled[d] < MaxStalled THEN "waiting" ELSE "failed")
  /\ Doubt(d)
  /\ UNCHANGED <<tries, status, breakerVars, customer, failedRow>>

DeleteCustomer ==
  /\ "delete" \in Faults
  /\ customer
  /\ customer' = FALSE
  /\ UNCHANGED <<jobVars, workVars, status, breakerVars, historyVars>>

Tick ==
  /\ sinceOk < Cooldown
  /\ sinceOk' = sinceOk + 1
  /\ UNCHANGED <<jobVars, workVars, status, failCount, customer, historyVars>>

-----------------------------------------------------------------------------
Attempt(d) ==
  \/ CheckCircuit(d)
  \/ Pause(d)
  \/ ResetCircuit(d)
  \/ ResetThrows(d)
  \/ \E a \in Answers : Post(d, a)
  \/ UpdateRow(d)
  \/ UpdateCustomer(d)
  \/ UpdateThrows(d)
  \/ EndAttempt(d)

Next ==
  \/ \E d \in Deliveries : Take(d) \/ Attempt(d) \/ Lose(d)
  \/ DeleteCustomer
  \/ Tick

Spec == Init /\ [][Next]_vars

(* A running worker takes what waits and carries on what it has begun; the *)
(* post is given up after WEBHOOK_TIMEOUT_MS.                              *)
Fairness ==
  \A d \in Deliveries : WF_vars(Attempt(d)) /\ SF_vars(Take(d))

FairSpec == Spec /\ Fairness

-----------------------------------------------------------------------------
(* Properties                                                              *)

TypeOK ==
  /\ job \in [Deliveries -> {"waiting", "active", "completed", "failed"}]
  /\ tries \in [Deliveries -> 0 .. MaxTries]
  /\ stalled \in [Deliveries -> 0 .. MaxStalled + 1]
  /\ pc \in [Deliveries -> {"none", "check", "reset", "post", "record"}]
  /\ answer \in [Deliveries -> Answers \union {"none"}]
  /\ todo \in [Deliveries -> SUBSET Updates]
  /\ threw \in [Deliveries -> BOOLEAN]
  /\ status \in [Deliveries -> {"PENDING", "DELIVERED", "FAILED"}]
  /\ failCount \in Nat
  /\ sinceOk \in 0 .. Cooldown
  /\ customer \in BOOLEAN
  /\ failedRow \in 0 .. Threshold
  /\ doubted \subseteq Deliveries

(* The posts let through whose outcome is not yet in the customer's count. *)
InFlight == {d \in Deliveries : pc[d] = "post" \/ "customer" \in todo[d]}

(* Deliveries check the count, post and add to the count in calls of their *)
(* own, so more failures than the threshold can be let through (isCircuit- *)
(* Open, recordFailure); but the count, with all that are still out, never *)
(* exceeds the threshold by as much as the number of slots.                *)
OvershootBounded == failCount + Cardinality(InFlight) < Threshold + Slots

(* The breaker opens for a cause: Threshold failures were recorded and no  *)
(* success in between, whatever the order in which the updates of           *)
(* concurrent deliveries, and the reset after the cooldown, take effect.   *)
OpensForCause == ~BelowThreshold => failedRow = Threshold

(* A delivery shown as DELIVERED is not shown otherwise later, unless an   *)
(* attempt that delivered it was lost with its process, or one of its two  *)
(* updates threw: the retry may fail (recordSuccess, recordFailure).       *)
DeliveredIsFinal ==
  [][\A d \in Deliveries \ doubted : status[d] = "DELIVERED" => status'[d] = "DELIVERED"]_vars

(* Every delivery ends, delivered or given up, however often it is paused, *)
(* reset, lost or retried.                                                 *)
EveryDeliveryEnds ==
  \A d \in Deliveries : <>[](job[d] \in {"completed", "failed"})
=============================================================================
