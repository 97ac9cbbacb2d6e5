------------------------- MODULE UsageBilling_proofs -------------------------
(***************************************************************************)
(* Proofs about UsageBilling: that the plan follows the subscription, that *)
(* usage counts once and goes beyond the free plan's limit only by what    *)
(* was in flight and what schedules made, and that each threshold is       *)
(* alerted about once.                                                     *)
(***************************************************************************)
EXTENDS UsageBilling, FiniteSetTheorems, TLAPS

USE PlansAssumption, JobsAssumption, StartsAssumption, BoundsAssumption

-----------------------------------------------------------------------------
(* What the steps leave alone                                              *)

HandleStep(k) == HandleCheckout(k) \/ FindRow(k) \/ WriteRow(k)
StripeStep ==
  \/ \E t \in Paid : Checkout(t)
  \/ \E t \in Paid, s \in {"active", "past_due"}, c \in BOOLEAN : Update(t, s, c)
  \/ Delete

(* Stripe and its events on the one hand, exports on the other: each step  *)
(* changes one of the two.                                                 *)
LEMMA StepKinds ==
  ASSUME [Next]_vars
  PROVE  \/ StripeStep /\ UNCHANGED <<start, month, usage, faults>>
         \/ /\ \E k \in DOMAIN events : HandleStep(k)
            /\ UNCHANGED <<start, month, stripe, events, usage>>
            /\ faults' = faults \union {"plan"}
         \/ (\E j \in Jobs : JobStep(j)) /\ UNCHANGED <<start, month, billing>>
         \/ NextMonth /\ UNCHANGED <<start, billing, usage>>
         \/ UNCHANGED vars
<1>1. ASSUME StripeStep PROVE UNCHANGED <<start, month, usage, faults>>
  BY <1>1 DEF StripeStep, Checkout, Update, Delete, Happens
<1>2. ASSUME NEW k \in DOMAIN events, HandleStep(k)
      PROVE  UNCHANGED <<start, month, stripe, events, usage>> /\ faults' = faults \union {"plan"}
  BY <1>2 DEF HandleStep, HandleCheckout, FindRow, WriteRow, Deliver
<1>3. ASSUME NEW j \in Jobs, JobStep(j) PROVE UNCHANGED <<start, month, billing>>
  BY <1>3 DEF JobStep, QueueScheduled, ReadPlan, CheckCap, RecordUsage, RecordAgain, LookAtPlan, LookAtUsage,
              CreateAlert, QueueEmail, AlertFails
<1>4. ASSUME NextMonth PROVE UNCHANGED <<start, billing, usage>>
  BY <1>4 DEF NextMonth
<1>5. QED
  BY <1>1, <1>2, <1>3, <1>4 DEF Next, StripeStep, HandleStep

-----------------------------------------------------------------------------
(* Types                                                                   *)

Event == [kind : {"checkout", "updated", "deleted"}, sid : Nat \ {0},
          tier : Plans, status : Statuses, cancel : BOOLEAN]

BillingTypes ==
  /\ start \in Starts /\ month \in Months
  /\ stripe \in [sid : Nat, tier : Plans, status : Statuses]
  /\ events \in Seq(Event)
  /\ deliveries \in [DOMAIN events -> Nat]
  /\ handled \union open \subseteq DOMAIN events
  /\ order \subseteq Orders
  /\ row \in [plan : Plans, sid : Nat, status : Statuses, cancel : BOOLEAN]

UsageTypes ==
  /\ job \in [Jobs -> Places] /\ tierSeen \in [Jobs -> Plans]
  /\ peak \in Nat /\ used \in [Months -> Nat]
  /\ records \subseteq Jobs \X Months /\ alerts \subseteq Months \X Thresholds
  /\ look \in [Jobs -> [limit : Nat, month : Months, todo : SUBSET Thresholds]]
  /\ queued \in [Months \X Thresholds -> Nat]
  /\ faults \subseteq {"plan", "month", "failed", "silent"}
  /\ \A j \in Jobs : job[j] \in {"alert", "email"} <=> look[j].todo # {}

LEMMA TypesSplit == TypeOK <=> BillingTypes /\ UsageTypes
BY DEF TypeOK, BillingTypes, UsageTypes, Event

(* An event that happens is appended, and not yet delivered.               *)
LEMMA Happened ==
  ASSUME BillingTypes, StripeStep
  PROVE  /\ \E e \in Event : events' = Append(events, e)
         /\ Len(events') = Len(events) + 1 /\ Len(events) \in Nat
         /\ DOMAIN events = 1..Len(events) /\ DOMAIN events' = 1..(Len(events) + 1)
         /\ \A k \in DOMAIN events : events'[k] = events[k] /\ deliveries'[k] = deliveries[k]
         /\ deliveries' \in [DOMAIN events' -> Nat] /\ deliveries'[Len(events) + 1] = 0
         /\ UNCHANGED <<open, handled, order, row>>
<1> USE DEF BillingTypes
<1>1. events \in Seq(Event)
  OBVIOUS
<1>2. PICK e \in Event : events' = Append(events, e) /\ deliveries' = Append(deliveries, 0)
  <2>1. ASSUME NEW t \in Paid, Checkout(t) PROVE \E e \in Event : events' = Append(events, e)
    <3> DEFINE e == [kind |-> "checkout", sid |-> Len(events) + 1, tier |-> t,
                     status |-> "active", cancel |-> FALSE]
    <3>1. Len(events) + 1 \in Nat \ {0}
      BY <1>1
    <3>2. e \in Event
      BY <3>1 DEF Event, Plans, Statuses
    <3>3. events' = Append(events, e)
      BY <2>1 DEF Checkout, Happens
    <3>4. QED
      BY <3>2, <3>3
  <2>2. ASSUME NEW t \in Paid, NEW s \in {"active", "past_due"}, NEW c \in BOOLEAN, Update(t, s, c)
        PROVE  \E e \in Event : events' = Append(events, e)
    BY <2>2 DEF Update, Happens, Event, Plans, Statuses
  <2>3. ASSUME Delete PROVE \E e \in Event : events' = Append(events, e)
    BY <2>3 DEF Delete, Happens, Event, Plans, Statuses
  <2>4. deliveries' = Append(deliveries, 0)
    BY DEF StripeStep, Checkout, Update, Delete, Happens
  <2>5. QED
    BY <2>1, <2>2, <2>3, <2>4 DEF StripeStep
<1>3. Len(events') = Len(events) + 1 /\ Len(events) \in Nat /\ DOMAIN events = 1..Len(events)
      /\ DOMAIN events' = 1..(Len(events) + 1)
  BY <1>1, <1>2
<1>4. \A k \in DOMAIN events : events'[k] = events[k]
  BY <1>1, <1>2
<1>5. deliveries \in Seq(Nat) /\ Len(deliveries) = Len(events)
  <2>1. deliveries \in [1..Len(events) -> Nat]
    BY <1>3
  <2>2. QED
    BY <1>3, <2>1
<1>6. /\ deliveries' \in [DOMAIN events' -> Nat] /\ deliveries'[Len(events) + 1] = 0
      /\ \A k \in DOMAIN events : deliveries'[k] = deliveries[k]
  <2>1. /\ deliveries' \in Seq(Nat) /\ Len(deliveries') = Len(events) + 1
        /\ deliveries'[Len(events) + 1] = 0
        /\ \A k \in 1..Len(events) : deliveries'[k] = deliveries[k]
    BY <1>2, <1>5
  <2>2. deliveries' \in [1..(Len(events) + 1) -> Nat]
    BY <2>1
  <2>3. QED
    BY <1>3, <2>1, <2>2
<1>7. UNCHANGED <<open, handled, order, row>>
  BY DEF StripeStep, Checkout, Update, Delete, Happens
<1>8. QED
  BY <1>2, <1>3, <1>4, <1>6, <1>7

(* Stripe's events, and what is written for them, keep their types.        *)
LEMMA BillingTypeStep ==
  ASSUME BillingTypes, [Next]_vars
  PROVE  BillingTypes'
<1>1. CASE StripeStep
  <2>1. UNCHANGED <<start, month, open, handled, order, row>>
    BY <1>1, Happened, StepKinds DEF StripeStep, Checkout, Update, Delete, Happens
  <2>2. PICK e \in Event : events' = Append(events, e)
    BY <1>1, Happened
  <2>3. events' \in Seq(Event)
    BY <2>2 DEF BillingTypes
  <2>4. deliveries' \in [DOMAIN events' -> Nat] /\ DOMAIN events \subseteq DOMAIN events'
    BY <1>1, Happened
  <2>5. stripe' \in [sid : Nat, tier : Plans, status : Statuses]
    <3>1. ASSUME NEW t \in Paid, Checkout(t) PROVE stripe' \in [sid : Nat, tier : Plans, status : Statuses]
      <4>1. Len(events) + 1 \in Nat
        BY DEF BillingTypes
      <4>2. QED
        BY <3>1, <4>1 DEF Checkout, Plans, Statuses
    <3>2. ASSUME NEW t \in Paid, NEW s \in {"active", "past_due"}, NEW c \in BOOLEAN, Update(t, s, c)
          PROVE  stripe' \in [sid : Nat, tier : Plans, status : Statuses]
      BY <3>2 DEF Update, BillingTypes, Plans, Statuses
    <3>3. ASSUME Delete PROVE stripe' \in [sid : Nat, tier : Plans, status : Statuses]
      BY <3>3 DEF Delete, Plans, Statuses
    <3>4. QED
      BY <1>1, <3>1, <3>2, <3>3 DEF StripeStep
  <2>6. QED
    BY <2>1, <2>3, <2>4, <2>5 DEF BillingTypes
<1>2. ASSUME NEW k \in DOMAIN events, HandleStep(k) PROVE BillingTypes'
  <2>1. UNCHANGED <<start, month, stripe, events>>
    BY <1>2 DEF HandleStep, HandleCheckout, FindRow, WriteRow, Deliver
  <2>2. events[k] \in Event
    BY DEF BillingTypes
  <2>3. deliveries' \in [DOMAIN events -> Nat]
    <3>1. Deliver(k) \/ UNCHANGED deliveries
      BY <1>2 DEF HandleStep, HandleCheckout, FindRow, WriteRow
    <3>2. deliveries \in [DOMAIN events -> Nat]
      BY DEF BillingTypes
    <3>3. QED
      BY <3>1, <3>2 DEF Deliver
  <2>4. order' \subseteq Orders
    BY <1>2 DEF BillingTypes, HandleStep, HandleCheckout, FindRow, WriteRow, Disorder, Misplaced, Orders
  <2>5. handled' \union open' \subseteq DOMAIN events
    BY <1>2 DEF BillingTypes, HandleStep, HandleCheckout, FindRow, WriteRow
  <2>6. row' \in [plan : Plans, sid : Nat, status : Statuses, cancel : BOOLEAN]
    <3>1. CASE HandleCheckout(k)
      BY <2>2, <3>1 DEF HandleCheckout, BillingTypes, Event, Statuses
    <3>2. CASE FindRow(k)
      BY <3>2 DEF FindRow, BillingTypes
    <3>3. CASE WriteRow(k)
      <4>1. Updated(events[k]) \in [plan : Plans, sid : Nat, status : Statuses, cancel : BOOLEAN]
        BY <2>2 DEF Updated, BillingTypes, Event
      <4>2. Deleted(events[k]) \in [plan : Plans, sid : Nat, status : Statuses, cancel : BOOLEAN]
        BY DEF Deleted, Plans, Statuses
      <4>3. QED
        BY <3>3, <4>1, <4>2 DEF WriteRow
    <3>4. QED
      BY <1>2, <3>1, <3>2, <3>3 DEF HandleStep
  <2>7. QED
    BY <2>1, <2>3, <2>4, <2>5, <2>6 DEF BillingTypes
<1>3. ASSUME UNCHANGED billing, start' = start, month' \in Months PROVE BillingTypes'
  BY <1>3 DEF billing, BillingTypes
<1>4. CASE NextMonth
  <2>1. month' \in Months
    BY <1>4 DEF NextMonth, BillingTypes, Months
  <2>2. QED
    BY <1>3, <1>4, <2>1 DEF NextMonth
<1>5. CASE UNCHANGED vars
  BY <1>3, <1>5 DEF vars, BillingTypes
<1>6. CASE (\E j \in Jobs : JobStep(j)) /\ UNCHANGED <<start, month, billing>>
  BY <1>3, <1>6 DEF BillingTypes
<1>7. QED
  BY <1>1, <1>2, <1>4, <1>5, <1>6, StepKinds

(* The lowest of the thresholds to alert about is one of them.             *)
LEMMA LowestIsOne ==
  ASSUME UsageTypes, NEW j \in Jobs, job[j] \in {"alert", "email"}
  PROVE  Lowest(j) \in look[j].todo /\ Lowest(j) \in Thresholds
<1>1. look[j].todo \subseteq {80, 100} /\ look[j].todo # {}
  BY DEF UsageTypes, Thresholds
<1>2. \E t \in look[j].todo : \A s \in look[j].todo : t <= s
  <2>1. CASE 80 \in look[j].todo
    BY <1>1, <2>1
  <2>2. CASE 80 \notin look[j].todo
    BY <1>1, <2>2
  <2>3. QED
    BY <2>1, <2>2
<1>3. Lowest(j) \in look[j].todo
  BY <1>2 DEF Lowest
<1>4. QED
  BY <1>1, <1>3 DEF Thresholds

(* A step that drops the lowest threshold of an export.                    *)
LEMMA Dropped ==
  ASSUME UsageTypes, NEW j \in Jobs, job[j] \in {"alert", "email"}, Drop(j)
  PROVE  /\ look' = [look EXCEPT ![j] = [look[j] EXCEPT !.todo = look[j].todo \ {Lowest(j)}]]
         /\ look' \in [Jobs -> [limit : Nat, month : Months, todo : SUBSET Thresholds]]
         /\ job' \in [Jobs -> Places]
         /\ \A i \in Jobs \ {j} : job'[i] = job[i] /\ look'[i] = look[i]
         /\ look'[j].todo = look[j].todo \ {Lowest(j)} /\ look'[j].month = look[j].month
         /\ look'[j].limit = look[j].limit
         /\ job'[j] = IF look'[j].todo = {} THEN "done" ELSE "alert"
<1>1. look' = [look EXCEPT ![j] = [look[j] EXCEPT !.todo = look[j].todo \ {Lowest(j)}]]
  BY DEF Drop
<1>2. look[j] \in [limit : Nat, month : Months, todo : SUBSET Thresholds]
  BY DEF UsageTypes
<1>3. [look[j] EXCEPT !.todo = look[j].todo \ {Lowest(j)}]
        \in [limit : Nat, month : Months, todo : SUBSET Thresholds]
  BY <1>2
<1>4. look' \in [Jobs -> [limit : Nat, month : Months, todo : SUBSET Thresholds]]
  BY <1>1, <1>3 DEF UsageTypes
<1>5. job' = [job EXCEPT ![j] = IF look[j].todo = {Lowest(j)} THEN "done" ELSE "alert"]
  BY DEF Drop, GoTo
<1>6. look'[j].todo = look[j].todo \ {Lowest(j)} /\ look'[j].month = look[j].month
      /\ look'[j].limit = look[j].limit
  BY <1>1, <1>2 DEF UsageTypes
<1>7. look[j].todo = {Lowest(j)} <=> look'[j].todo = {}
  BY <1>6, LowestIsOne
<1>8. QED
  BY <1>1, <1>4, <1>5, <1>6, <1>7 DEF UsageTypes, Places

(* Usage steps keep their types; an export is at an alert while one is to  *)
(* be made.                                                                *)
LEMMA UsageTypeStep ==
  ASSUME BillingTypes, UsageTypes, [Next]_vars
  PROVE  UsageTypes'
<1> DEFINE LookType == [limit : Nat, month : Months, todo : SUBSET Thresholds]
<1>1. ASSUME UNCHANGED usage, faults' \subseteq faults \union {"plan", "month", "failed", "silent"}
      PROVE  UsageTypes'
  BY <1>1 DEF usage, UsageTypes
<1>2. ASSUME NEW j \in Jobs, JobStep(j) PROVE UsageTypes'
  <2>1. CASE QueueScheduled(j) \/ ReadPlan(j)
    <3>1. job' \in [Jobs -> Places] /\ tierSeen' \in [Jobs -> Plans]
      BY <2>1 DEF QueueScheduled, ReadPlan, GoTo, UsageTypes, BillingTypes, Places
    <3>2. \A i \in Jobs : job'[i] \in {"alert", "email"} <=> job[i] \in {"alert", "email"}
      BY <2>1 DEF QueueScheduled, ReadPlan, GoTo, UsageTypes
    <3>3. UNCHANGED <<peak, used, records, alerts, look, queued, faults>>
      BY <2>1 DEF QueueScheduled, ReadPlan
    <3>4. QED
      BY <3>1, <3>2, <3>3 DEF UsageTypes
  <2>2. CASE CheckCap(j)
    <3>1. job' \in [Jobs -> Places] /\ \A i \in Jobs : job'[i] = job[i] \/ (i = j /\ job'[i] \in {"running", "refused"})
      BY <2>2 DEF CheckCap, GoTo, UsageTypes, Places
    <3>2. peak' \in Nat
      <4>1. IsFiniteSet(InFlight')
        BY FS_Subset DEF InFlight
      <4>2. QED
        BY <2>2, <4>1, FS_CardinalityType DEF CheckCap, UsageTypes
    <3>3. QED
      BY <2>2, <3>1, <3>2 DEF CheckCap, UsageTypes
  <2>3. CASE RecordUsage(j) \/ RecordAgain(j)
    <3>1. used' \in [Months -> Nat] /\ records' \subseteq Jobs \X Months
      BY <2>3 DEF RecordUsage, RecordAgain, Record, UsageTypes, BillingTypes
    <3>2. job' \in [Jobs -> Places] /\ \A i \in Jobs : job'[i] = job[i] \/ (i = j /\ job'[i] \in {"lookPlan", "again"})
      BY <2>3 DEF RecordUsage, RecordAgain, GoTo, UsageTypes, Places
    <3>3. job[j] \notin {"alert", "email"} /\ look' = look
      BY <2>3 DEF RecordUsage, RecordAgain
    <3>4. QED
      BY <2>3, <3>1, <3>2, <3>3 DEF RecordUsage, RecordAgain, UsageTypes
  <2>4. CASE LookAtPlan(j)
    <3>1. job' \in [Jobs -> Places] /\ \A i \in Jobs : job'[i] = job[i] \/ (i = j /\ job'[i] \in {"done", "lookUsage"})
      BY <2>4 DEF LookAtPlan, GoTo, UsageTypes, Places
    <3>2. CASE row.plan = "none"
      BY <2>4, <3>1, <3>2 DEF LookAtPlan, UsageTypes
    <3>3. CASE row.plan # "none"
      <4>1. Limit[row.plan] \in Nat
        BY <3>3 DEF BillingTypes, Plans
      <4>2. look' = [look EXCEPT ![j] = [limit |-> Limit[row.plan], month |-> month, todo |-> {}]]
        BY <2>4, <3>3 DEF LookAtPlan
      <4>3. job[j] = "lookPlan"
        BY <2>4 DEF LookAtPlan
      <4>4. look' \in [Jobs -> LookType] /\ \A i \in Jobs : look'[i].todo = look[i].todo
        BY <4>1, <4>2, <4>3 DEF UsageTypes, BillingTypes
      <4>5. QED
        BY <2>4, <3>1, <4>4 DEF LookAtPlan, UsageTypes
    <3>4. QED
      BY <3>2, <3>3
  <2>5. CASE LookAtUsage(j)
    <3>1. PICK notify \in BOOLEAN :
            LET todo == IF notify THEN Reached(look[j].limit, used[month]) ELSE {}
            IN /\ look' = [look EXCEPT ![j].todo = todo]
               /\ GoTo(j, IF todo = {} THEN "done" ELSE "alert")
               /\ faults' = IF notify THEN faults ELSE faults \union {"silent"}
      BY <2>5 DEF LookAtUsage
    <3> DEFINE todo == IF notify THEN Reached(look[j].limit, used[month]) ELSE {}
    <3>2. todo \subseteq Thresholds
      BY DEF Reached
    <3>3. look' \in [Jobs -> LookType] /\ look'[j].todo = todo /\ \A i \in Jobs \ {j} : look'[i] = look[i]
      BY <3>1, <3>2 DEF UsageTypes
    <3>4. job' = [job EXCEPT ![j] = IF todo = {} THEN "done" ELSE "alert"]
      BY <3>1 DEF GoTo
    <3>5. job' \in [Jobs -> Places] /\ (job'[j] \in {"alert", "email"} <=> todo # {})
          /\ \A i \in Jobs \ {j} : job'[i] = job[i]
      BY <3>4 DEF UsageTypes, Places
    <3>6. faults' \subseteq {"plan", "month", "failed", "silent"}
      BY <3>1 DEF UsageTypes
    <3>7. QED
      BY <2>5, <3>3, <3>5, <3>6 DEF LookAtUsage, UsageTypes
  <2>6. ASSUME job[j] \in {"alert", "email"}, Drop(j),
               UNCHANGED <<tierSeen, peak, records, used>>, alerts' \subseteq Months \X Thresholds,
               queued' \in [Months \X Thresholds -> Nat],
               faults' \subseteq {"plan", "month", "failed", "silent"}
        PROVE  UsageTypes'
    <3>1. job'[j] \in {"alert", "email"} <=> look'[j].todo # {}
      BY <2>6, Dropped
    <3>2. QED
      BY <2>6, <3>1, Dropped DEF UsageTypes
  <2>7. ASSUME job[j] \in {"alert", "email"} PROVE Alert(j) \in Months \X Thresholds
    BY <2>7, LowestIsOne DEF Alert, UsageTypes
  <2>8. CASE CreateAlert(j)
    <3>1. job[j] \in {"alert", "email"} /\ Alert(j) \in Months \X Thresholds
      BY <2>7, <2>8 DEF CreateAlert
    <3>2. CASE IsNew(Alert(j))
      <4>1. /\ alerts' \subseteq Months \X Thresholds /\ job' = [job EXCEPT ![j] = "email"]
            /\ UNCHANGED <<look, tierSeen, peak, records, used, queued, faults>>
        BY <2>8, <3>1, <3>2 DEF CreateAlert, GoTo, UsageTypes
      <4>2. /\ job' \in [Jobs -> Places]
            /\ \A i \in Jobs : job'[i] \in {"alert", "email"} <=> job[i] \in {"alert", "email"}
        BY <3>1, <4>1 DEF UsageTypes, Places
      <4>3. QED
        BY <4>1, <4>2 DEF UsageTypes
    <3>3. CASE ~IsNew(Alert(j))
      BY <2>6, <2>8, <3>1, <3>3 DEF CreateAlert, UsageTypes
    <3>4. QED
      BY <3>2, <3>3
  <2>9. CASE QueueEmail(j)
    <3>1. job[j] \in {"alert", "email"} /\ Alert(j) \in Months \X Thresholds
      BY <2>7, <2>9 DEF QueueEmail
    <3>2. queued' \in [Months \X Thresholds -> Nat]
      BY <2>9, <3>1 DEF QueueEmail, UsageTypes
    <3>3. QED
      BY <2>6, <2>9, <3>1, <3>2 DEF QueueEmail, UsageTypes
  <2>10. CASE AlertFails(j)
    <3>1. faults' \subseteq {"plan", "month", "failed", "silent"}
      BY <2>10 DEF AlertFails, UsageTypes
    <3>2. CASE job[j] \in {"lookPlan", "lookUsage"} /\ GoTo(j, "done") /\ UNCHANGED look
      BY <2>10, <3>1, <3>2 DEF AlertFails, GoTo, UsageTypes, Places
    <3>3. CASE job[j] \in {"alert", "email"} /\ Drop(j)
      BY <2>6, <2>10, <3>1, <3>3 DEF AlertFails, UsageTypes
    <3>4. QED
      BY <2>10, <3>2, <3>3 DEF AlertFails
  <2>11. QED
    BY <1>2, <2>1, <2>2, <2>3, <2>4, <2>5, <2>8, <2>9, <2>10 DEF JobStep
<1>3. CASE NextMonth
  BY <1>1, <1>3, StepKinds DEF NextMonth
<1>4. CASE UNCHANGED vars
  BY <1>1, <1>4 DEF vars
<1>5. QED
  BY <1>1, <1>2, <1>3, <1>4, StepKinds

(* Initially a paid customer has bought a subscription, that was handled.  *)
LEMMA InitRow ==
  ASSUME Init
  PROVE  \/ /\ start.plan \in Paid /\ IsPaid
            /\ row = [plan |-> start.plan, sid |-> 1, status |-> "active", cancel |-> FALSE]
            /\ events = <<[kind |-> "checkout", sid |-> 1, tier |-> start.plan,
                           status |-> "active", cancel |-> FALSE]>>
         \/ /\ start.plan \in {"FREE", "none"} /\ ~IsPaid
            /\ row \in {NoSub, [plan |-> "FREE", sid |-> 0, status |-> "canceled", cancel |-> FALSE]}
            /\ row.plan = start.plan /\ row.sid = 0
            /\ events = << >>
<1>1. start.plan \in Paid \union {"FREE", "none"}
  BY DEF Init
<1>2. events = IF IsPaid THEN <<[kind |-> "checkout", sid |-> 1, tier |-> start.plan,
                                 status |-> "active", cancel |-> FALSE]>> ELSE << >>
  BY DEF Init
<1>3. ASSUME start.plan \in Paid
      PROVE  row = [plan |-> start.plan, sid |-> 1, status |-> "active", cancel |-> FALSE]
  BY <1>3 DEF Init
<1>4. ASSUME start.plan \in {"FREE", "none"}
      PROVE  /\ row \in {NoSub, [plan |-> "FREE", sid |-> 0, status |-> "canceled", cancel |-> FALSE]}
             /\ row.plan = start.plan /\ row.sid = 0
  BY <1>4 DEF Init, NoSub
<1>5. CASE start.plan \in Paid
  <2>1. IsPaid
    BY <1>3, <1>5 DEF IsPaid
  <2>2. QED
    BY <1>2, <1>3, <1>5, <2>1
<1>6. CASE start.plan \in {"FREE", "none"}
  <2>1. ~IsPaid
    BY <1>4, <1>6 DEF IsPaid
  <2>2. QED
    BY <1>2, <1>4, <1>6, <2>1
<1>7. QED
  BY <1>1, <1>5, <1>6

(* The variables of UsageBilling keep their types.                         *)
THEOREM BillingTypesHold == Spec => []TypeOK
<1>1. Init => BillingTypes /\ UsageTypes
  <2> SUFFICES ASSUME Init PROVE BillingTypes /\ UsageTypes
    OBVIOUS
  <2>1. start \in [plan : Plans, jobs : SUBSET Jobs, scheduled : SUBSET Jobs, events : Nat]
    BY DEF Init, Plans
  <2>2. row \in [plan : Plans, sid : Nat, status : Statuses, cancel : BOOLEAN]
    <3>1. start.plan \in Plans /\ "none" \in Plans /\ "FREE" \in Plans
      BY <2>1 DEF Plans
    <3>2. {"none", "active", "canceled"} \subseteq Statuses
      BY DEF Statuses
    <3>3. NoSub \in [plan : Plans, sid : Nat, status : Statuses, cancel : BOOLEAN]
      BY <3>1, <3>2 DEF NoSub
    <3>4. QED
      <4>1. [plan |-> start.plan, sid |-> 1, status |-> "active", cancel |-> FALSE]
              \in [plan : Plans, sid : Nat, status : Statuses, cancel : BOOLEAN]
        BY <3>1, <3>2
      <4>2. [plan |-> "FREE", sid |-> 0, status |-> "canceled", cancel |-> FALSE]
              \in [plan : Plans, sid : Nat, status : Statuses, cancel : BOOLEAN]
        BY <3>1, <3>2
      <4>3. QED
        BY <3>3, <4>1, <4>2, InitRow, Zenon
  <2>3. events \in Seq(Event)
    <3>1. CASE events = << >>
      BY <3>1
    <3> DEFINE e == [kind |-> "checkout", sid |-> 1, tier |-> start.plan,
                     status |-> "active", cancel |-> FALSE]
    <3>2. CASE events = <<e>>
      <4>1. e \in Event
        BY <2>1 DEF Event, Statuses
      <4>2. QED
        BY <3>2, <4>1
    <3>3. QED
      BY <3>1, <3>2, InitRow
  <2>4. stripe \in [sid : Nat, tier : Plans, status : Statuses]
    BY <2>2 DEF Init
  <2>5. BillingTypes
    BY <2>2, <2>3, <2>4 DEF Init, BillingTypes, Months
  <2>6. UsageTypes
    BY DEF Init, UsageTypes, Places, Plans, Months, Thresholds
  <2>7. QED
    BY <2>5, <2>6
<1>2. (BillingTypes /\ UsageTypes) /\ [Next]_vars => (BillingTypes /\ UsageTypes)'
  BY BillingTypeStep, UsageTypeStep
<1>3. QED
  BY <1>1, <1>2, TypesSplit, PTL DEF Spec

-----------------------------------------------------------------------------
(* The plan and the subscription                                           *)

(* A step handles an event of those known, and adds to what is known.      *)
LEMMA EventsGrow ==
  ASSUME BillingTypes, [Next]_vars
  PROVE  /\ Len(events) \in Nat /\ DOMAIN events = 1..Len(events)
         /\ DOMAIN events \subseteq DOMAIN events' /\ handled \subseteq handled'
         /\ \A k \in DOMAIN events : events'[k] = events[k] /\ events[k] \in Event
<1>1. Len(events) \in Nat /\ DOMAIN events = 1..Len(events) /\ \A k \in DOMAIN events : events[k] \in Event
  BY DEF BillingTypes
<1>2. CASE StripeStep
  BY <1>1, <1>2, Happened
<1>3. ASSUME NEW k \in DOMAIN events, HandleStep(k)
      PROVE  handled \subseteq handled' /\ events' = events
  BY <1>3 DEF HandleStep, HandleCheckout, FindRow, WriteRow, Deliver
<1>4. CASE UNCHANGED billing
  BY <1>1, <1>4 DEF billing
<1>5. QED
  BY <1>1, <1>2, <1>3, <1>4, StepKinds DEF vars

(* A subscription has the number of its checkout; the changes and the      *)
(* deletion of it come later.                                              *)
Numbered ==
  \A k \in DOMAIN events :
    IF events[k].kind = "checkout"
    THEN events[k].sid = k
    ELSE /\ events[k].sid \in DOMAIN events /\ events[k].sid < k
         /\ events[events[k].sid].kind = "checkout"

(* Since the checkout of the subscription that there is, Stripe has told   *)
(* only changes of it; every other one was deleted.                        *)
StripeCurrent ==
  /\ stripe.sid # 0 =>
       /\ stripe.sid \in DOMAIN events /\ events[stripe.sid].kind = "checkout"
       /\ \A l \in DOMAIN events : l > stripe.sid => events[l].kind = "updated"
  /\ \A k \in DOMAIN events :
       events[k].kind = "checkout" /\ k # stripe.sid =>
         \E l \in DOMAIN events : l > k /\ events[l].kind = "deleted" /\ events[l].sid = k

CheckoutsPaid ==
  \A k \in DOMAIN events : events[k].kind = "checkout" => events[k].tier \in Paid

OpenAreFound == \A k \in open : events[k].kind # "checkout"

PaidNamesOne == IsPaid <=> row.sid # 0

(* No checkout was overtaken by a checkout or a deletion, or handled       *)
(* during a deletion.                                                      *)
Kept == order \intersect {"outdated", "across"} = {}

(* A subscription that the row names is the newest that was handled and    *)
(* not deleted, and a deletion under way is of no other; a row that names  *)
(* none is not behind: each checkout that was handled has a deletion after *)
(* it.                                                                     *)
RowIsNewest ==
  /\ row.sid # 0 =>
       /\ row.sid \in handled /\ events[row.sid].kind = "checkout"
       /\ \A k \in handled : events[k].kind = "checkout" => k <= row.sid
       /\ \A k \in handled : events[k].kind = "deleted" => events[k].sid # row.sid
  /\ \A k \in open : events[k].kind = "deleted" => row.sid \in {events[k].sid, 0}
  /\ row.sid = 0 =>
       \A k \in handled : events[k].kind = "checkout" =>
         \E l \in DOMAIN events : l > k /\ events[l].kind = "deleted"

TrackInv ==
  /\ Numbered /\ StripeCurrent /\ CheckoutsPaid /\ OpenAreFound /\ PaidNamesOne
  /\ Kept => RowIsNewest

(* What Stripe adds is numbered, and leaves it with a subscription that    *)
(* has only changed since, or with none.                                   *)
LEMMA NumberStep ==
  ASSUME BillingTypes, StripeStep, Numbered, StripeCurrent, CheckoutsPaid
  PROVE  Numbered' /\ StripeCurrent' /\ CheckoutsPaid'
<1>0. PICK n \in Nat : n = Len(events) + 1
  BY Happened
<1>1. /\ Len(events) \in Nat /\ DOMAIN events = 1 .. (n - 1) /\ DOMAIN events' = 1 .. n
      /\ \A k \in DOMAIN events : events'[k] = events[k]
      /\ DOMAIN events' = DOMAIN events \union {n} /\ n \notin DOMAIN events
      /\ \A k \in DOMAIN events : k \in Nat /\ k < n
  <2>1. /\ Len(events) \in Nat /\ DOMAIN events = 1 .. (n - 1) /\ DOMAIN events' = 1 .. n
        /\ \A k \in DOMAIN events : events'[k] = events[k]
    BY <1>0, Happened
  <2>2. QED
    BY <1>0, <2>1
<1>2. ASSUME NEW t \in Paid, Checkout(t) PROVE Numbered' /\ StripeCurrent' /\ CheckoutsPaid'
  <2>1. events'[n] = [kind |-> "checkout", sid |-> n, tier |-> t, status |-> "active", cancel |-> FALSE]
    BY <1>0, <1>2 DEF Checkout, Happens, BillingTypes
  <2>2. events'[n].kind = "checkout" /\ events'[n].sid = n /\ events'[n].tier = t
    BY <2>1
  <2>3. stripe.sid = 0 /\ stripe'.sid = n
    BY <1>0, <1>2 DEF Checkout
  <2>4. Numbered' /\ CheckoutsPaid'
    BY <1>1, <2>2 DEF Numbered, CheckoutsPaid
  <2>5. StripeCurrent'
    BY <1>1, <2>2, <2>3 DEF StripeCurrent
  <2>6. QED
    BY <2>4, <2>5
<1>3. ASSUME NEW t \in Paid, NEW s \in {"active", "past_due"}, NEW c \in BOOLEAN, Update(t, s, c)
      PROVE  Numbered' /\ StripeCurrent' /\ CheckoutsPaid'
  <2>1. events'[n] = [kind |-> "updated", sid |-> stripe.sid, tier |-> t, status |-> s, cancel |-> c]
    BY <1>0, <1>3 DEF Update, Happens, BillingTypes
  <2>2. events'[n].kind = "updated" /\ events'[n].sid = stripe.sid
    BY <2>1
  <2>3. stripe.sid # 0 /\ stripe'.sid = stripe.sid
    BY <1>3 DEF Update, BillingTypes
  <2>4. Numbered' /\ CheckoutsPaid'
    BY <1>1, <2>2, <2>3 DEF Numbered, CheckoutsPaid, StripeCurrent
  <2>5. StripeCurrent'
    BY <1>1, <2>2, <2>3 DEF StripeCurrent
  <2>6. QED
    BY <2>4, <2>5
<1>4. ASSUME Delete PROVE Numbered' /\ StripeCurrent' /\ CheckoutsPaid'
  <2>1. events'[n].kind = "deleted" /\ events'[n].sid = stripe.sid
    BY <1>0, <1>4 DEF Delete, Happens, BillingTypes
  <2>2. stripe.sid # 0 /\ stripe'.sid = 0
    BY <1>4 DEF Delete
  <2>3. Numbered' /\ CheckoutsPaid'
    BY <1>1, <2>1, <2>2 DEF Numbered, CheckoutsPaid, StripeCurrent
  <2>4. StripeCurrent'
    <3>1. ASSUME NEW k \in DOMAIN events, events[k].kind = "checkout"
          PROVE  \E l \in DOMAIN events' : l > k /\ events'[l].kind = "deleted" /\ events'[l].sid = k
      <4>1. CASE k = stripe.sid
        BY <1>1, <2>1, <4>1
      <4>2. CASE k # stripe.sid
        BY <1>1, <3>1, <4>2 DEF StripeCurrent
      <4>3. QED
        BY <4>1, <4>2
    <3>2. QED
      BY <1>1, <2>1, <2>2, <3>1 DEF StripeCurrent
  <2>5. QED
    BY <2>3, <2>4
<1>5. QED
  BY <1>2, <1>3, <1>4 DEF StripeStep

LEMMA TrackStep ==
  ASSUME BillingTypes, BillingTypes', TrackInv, [Next]_vars
  PROVE  TrackInv'
<1> USE DEF TrackInv
<1>1. CASE StripeStep
  <2>1. UNCHANGED <<open, handled, order, row>>
    BY <1>1, Happened
  <2>2. handled \subseteq DOMAIN events /\ open \subseteq DOMAIN events
    BY DEF BillingTypes
  <2>3. OpenAreFound' /\ PaidNamesOne'
    BY <2>1, <2>2, EventsGrow DEF OpenAreFound, PaidNamesOne, IsPaid
  <2>4. (Kept => RowIsNewest)'
    BY <2>1, <2>2, EventsGrow DEF Kept, RowIsNewest
  <2>5. QED
    BY <1>1, <2>3, <2>4, NumberStep
<1>2. ASSUME NEW k \in DOMAIN events, HandleStep(k) PROVE TrackInv'
  <2>1. events' = events /\ stripe' = stripe
    BY <1>2 DEF HandleStep, HandleCheckout, FindRow, WriteRow, Deliver
  <2>2. Numbered' /\ StripeCurrent' /\ CheckoutsPaid'
    BY <2>1 DEF Numbered, StripeCurrent, CheckoutsPaid
  <2>3. /\ events[k] \in Event /\ k \in Nat \ {0} /\ handled \subseteq DOMAIN events
        /\ \A l \in DOMAIN events : l \in Nat \ {0} /\ events[l] \in Event
    BY EventsGrow DEF BillingTypes
  <2>4. CASE HandleCheckout(k)
    <3>1. /\ events[k].kind = "checkout" /\ handled' = handled \union {k} /\ open' = open
          /\ order' = order \union Disorder(k) \union Misplaced(k)
          /\ row' = [plan |-> events[k].tier, sid |-> events[k].sid, status |-> "active",
                     cancel |-> row.cancel]
      BY <2>4 DEF HandleCheckout
    <3>2. events[k].sid = k /\ events[k].tier \in Paid
      BY <3>1 DEF Numbered, CheckoutsPaid
    <3>3. row'.sid = k /\ row'.plan = events[k].tier
      BY <3>1, <3>2
    <3>4. PaidNamesOne' /\ OpenAreFound'
      BY <2>1, <2>3, <3>1, <3>2, <3>3 DEF PaidNamesOne, IsPaid, OpenAreFound
    <3>5. ASSUME Kept' PROVE RowIsNewest'
      <4>1. Misplaced(k) = {}
        BY <3>1, <3>5 DEF Kept, Misplaced
      <4>2. /\ \A l \in handled : l > k => events[l].kind = "updated"
            /\ \A l \in open : events[l].kind # "deleted"
        BY <4>1 DEF Misplaced
      <4>3. \A l \in handled' : events[l].kind = "checkout" => l <= k
        <5>1. ASSUME NEW l \in handled, events[l].kind = "checkout", ~(l <= k) PROVE FALSE
          <6>1. l \in Nat /\ l > k
            BY <2>3, <5>1
          <6>2. events[l].kind = "updated"
            BY <4>2, <6>1
          <6>3. QED
            BY <5>1, <6>2
        <5>2. QED
          BY <2>3, <3>1, <5>1
      <4>4. \A l \in handled' : events[l].kind = "deleted" => events[l].sid # k
        <5>1. ASSUME NEW l \in handled, events[l].kind = "deleted", events[l].sid = k PROVE FALSE
          <6>1. k < l
            BY <2>3, <5>1 DEF Numbered
          <6>2. l > k
            BY <2>3, <6>1
          <6>3. events[l].kind = "updated"
            BY <4>2, <6>2
          <6>4. QED
            BY <5>1, <6>3
        <5>2. QED
          BY <3>1, <5>1
      <4>5. QED
        BY <2>1, <2>3, <3>1, <3>3, <4>2, <4>3, <4>4 DEF RowIsNewest
    <3>6. QED
      BY <2>2, <3>4, <3>5
  <2>5. CASE FindRow(k)
    <3>1. /\ events[k].kind # "checkout" /\ row' = row /\ order \subseteq order'
          /\ \/ open' = open \union {k} /\ handled' = handled /\ row.sid = events[k].sid
             \/ open' = open /\ handled' = handled \union {k} /\ row.sid # events[k].sid
      BY <2>5 DEF FindRow, Found
    <3>2. PaidNamesOne' /\ OpenAreFound'
      BY <2>1, <3>1 DEF PaidNamesOne, IsPaid, OpenAreFound
    <3>3. ASSUME Kept' PROVE RowIsNewest'
      <4>1. RowIsNewest
        BY <3>1, <3>3 DEF Kept
      <4>2. CASE open' = open \union {k} /\ handled' = handled /\ row.sid = events[k].sid
        BY <2>1, <3>1, <4>1, <4>2 DEF RowIsNewest
      <4>3. CASE open' = open /\ handled' = handled \union {k} /\ row.sid # events[k].sid
        BY <2>1, <3>1, <4>1, <4>3 DEF RowIsNewest
      <4>4. QED
        BY <3>1, <4>2, <4>3
    <3>4. QED
      BY <2>2, <3>2, <3>3
  <2>6. CASE WriteRow(k)
    <3>1. /\ k \in open /\ open' = open \ {k} /\ handled' = handled \union {k} /\ order' = order
          /\ row' = IF events[k].kind = "updated" THEN Updated(events[k]) ELSE Deleted(events[k])
      BY <2>6 DEF WriteRow
    <3>2. events[k].kind \in {"updated", "deleted"}
      BY <2>3, <3>1 DEF OpenAreFound, Event
    <3>3. CASE events[k].kind = "updated"
      <4>1. row'.plan = row.plan /\ row'.sid = row.sid
        BY <3>1, <3>3 DEF Updated, BillingTypes
      <4>2. PaidNamesOne' /\ OpenAreFound'
        BY <2>1, <3>1, <4>1 DEF PaidNamesOne, IsPaid, OpenAreFound
      <4>3. ASSUME Kept' PROVE RowIsNewest'
        <5>1. RowIsNewest
          BY <3>1, <4>3 DEF Kept
        <5>2. QED
          BY <2>1, <3>1, <3>3, <4>1, <5>1 DEF RowIsNewest
      <4>4. QED
        BY <2>2, <4>2, <4>3
    <3>4. CASE events[k].kind = "deleted"
      <4>1. row'.plan = "FREE" /\ row'.sid = 0
        BY <3>1, <3>4 DEF Deleted
      <4>2. PaidNamesOne' /\ OpenAreFound'
        BY <2>1, <3>1, <4>1 DEF PaidNamesOne, IsPaid, OpenAreFound
      <4>3. ASSUME Kept' PROVE RowIsNewest'
        <5>1. RowIsNewest
          BY <3>1, <4>3 DEF Kept
        <5>2. ASSUME NEW l \in handled, events[l].kind = "checkout"
              PROVE  \E d \in DOMAIN events : d > l /\ events[d].kind = "deleted"
          <6>1. CASE row.sid = 0
            BY <5>1, <5>2, <6>1 DEF RowIsNewest
          <6>2. CASE row.sid # 0
            <7>1. row.sid = events[k].sid
              BY <3>1, <3>4, <5>1, <6>2 DEF RowIsNewest
            <7>2. l <= events[k].sid
              BY <5>1, <5>2, <6>2, <7>1 DEF RowIsNewest
            <7>3. events[k].sid < k /\ events[k].sid \in Nat /\ l \in Nat
              BY <2>3, <3>4, <5>2 DEF Numbered
            <7>4. k > l
              BY <2>3, <7>2, <7>3
            <7>5. QED
              BY <3>4, <7>4
          <6>3. QED
            BY <6>1, <6>2
        <5>3. \A l \in handled' : events'[l].kind = "checkout" => l \in handled
          BY <2>1, <3>1, <3>4
        <5>4. QED
          BY <2>1, <4>1, <5>2, <5>3 DEF RowIsNewest
      <4>4. QED
        BY <2>2, <4>2, <4>3
    <3>5. QED
      BY <3>2, <3>3, <3>4
  <2>7. QED
    BY <1>2, <2>4, <2>5, <2>6 DEF HandleStep
<1>3. CASE UNCHANGED billing
  BY <1>3 DEF billing, Numbered, StripeCurrent, CheckoutsPaid, OpenAreFound, PaidNamesOne, IsPaid,
              Kept, RowIsNewest
<1>4. QED
  BY <1>1, <1>2, <1>3, StepKinds DEF vars

LEMMA TrackHolds == Spec => []TrackInv
<1>1. Init => TrackInv
  <2> SUFFICES ASSUME Init PROVE TrackInv
    OBVIOUS
  <2>1. handled = DOMAIN events /\ open = {} /\ stripe.sid = row.sid
    BY DEF Init
  <2>2. CASE events = << >> /\ ~IsPaid /\ row.sid = 0
    <3>1. DOMAIN events = {}
      BY <2>2
    <3>2. QED
      BY <2>1, <2>2, <3>1 DEF TrackInv, Numbered, StripeCurrent, CheckoutsPaid, OpenAreFound,
                              PaidNamesOne, RowIsNewest
  <2>3. CASE /\ IsPaid /\ start.plan \in Paid
             /\ row = [plan |-> start.plan, sid |-> 1, status |-> "active", cancel |-> FALSE]
             /\ events = <<[kind |-> "checkout", sid |-> 1, tier |-> start.plan,
                            status |-> "active", cancel |-> FALSE]>>
    <3>1. /\ DOMAIN events = {1} /\ row.sid = 1
          /\ events[1].kind = "checkout" /\ events[1].sid = 1 /\ events[1].tier \in Paid
      BY <2>3
    <3>2. QED
      BY <2>1, <2>3, <3>1 DEF TrackInv, Numbered, StripeCurrent, CheckoutsPaid, OpenAreFound,
                              PaidNamesOne, RowIsNewest
  <2>4. QED
    BY <2>2, <2>3, InitRow
<1>2. BillingTypes /\ BillingTypes' /\ TrackInv /\ [Next]_vars => TrackInv'
  BY TrackStep
<1>3. TypeOK => BillingTypes
  BY TypesSplit
<1>4. QED
  BY <1>1, <1>2, <1>3, BillingTypesHold, PTL DEF Spec

(* However late, repeated or overlapping Stripe's events are handled, the  *)
(* customer ends up on a paid plan exactly while there is a subscription,  *)
(* and on that one, unless a checkout was handled after a later checkout   *)
(* or deletion, or during a deletion.                                      *)
THEOREM PlanFollowsSubscription == Spec => []SubscriptionTracked
<1>1. BillingTypes /\ TrackInv => SubscriptionTracked
  <2> SUFFICES ASSUME BillingTypes, TrackInv, order \intersect {"outdated", "across"} = {},
                      handled = DOMAIN events
               PROVE  /\ IsPaid <=> stripe.sid # 0
                      /\ IsPaid => row.sid = stripe.sid
    BY DEF SubscriptionTracked, AllHandled
  <2>1. RowIsNewest /\ StripeCurrent /\ PaidNamesOne
    BY DEF TrackInv, Kept
  <2>2. CASE row.sid = 0
    <3>1. ASSUME stripe.sid # 0 PROVE FALSE
      <4>1. stripe.sid \in handled /\ events[stripe.sid].kind = "checkout"
        BY <2>1, <3>1 DEF StripeCurrent
      <4>2. PICK l \in DOMAIN events : l > stripe.sid /\ events[l].kind = "deleted"
        BY <2>1, <2>2, <4>1 DEF RowIsNewest
      <4>3. events[l].kind = "updated"
        BY <2>1, <3>1, <4>2 DEF StripeCurrent
      <4>4. QED
        BY <4>2, <4>3
    <3>2. QED
      BY <2>1, <2>2, <3>1 DEF PaidNamesOne
  <2>3. CASE row.sid # 0
    <3>1. row.sid \in DOMAIN events /\ events[row.sid].kind = "checkout"
      BY <2>1, <2>3 DEF RowIsNewest
    <3>2. ASSUME row.sid # stripe.sid PROVE FALSE
      <4>1. PICK l \in DOMAIN events : events[l].kind = "deleted" /\ events[l].sid = row.sid
        BY <2>1, <3>1, <3>2 DEF StripeCurrent
      <4>2. QED
        BY <2>1, <2>3, <4>1 DEF RowIsNewest
    <3>3. QED
      BY <2>1, <2>3, <3>2 DEF PaidNamesOne
  <2>4. QED
    BY <2>2, <2>3
<1>2. TypeOK => BillingTypes
  BY TypesSplit
<1>3. QED
  BY <1>1, <1>2, BillingTypesHold, TrackHolds, PTL

-----------------------------------------------------------------------------
(* In order: each event finds the row as its predecessor left it           *)

(* After the first k events there is no subscription.                      *)
Gone(k) == k = 0 \/ events[k].kind = "deleted"

(* A checkout follows the end of a subscription, and the others are about  *)
(* the one that there is.                                                  *)
EventsChain ==
  \A k \in DOMAIN events :
    IF events[k].kind = "checkout"
    THEN Gone(k - 1) /\ events[k].status = "active"
    ELSE ~Gone(k - 1) /\ events[k].sid = events[k - 1].sid

StripeIsLast ==
  IF Gone(Len(events))
  THEN stripe.sid = 0
  ELSE stripe.sid = events[Len(events)].sid /\ stripe.status = events[Len(events)].status

(* The row is what the first k events make of it.                          *)
Mirrors(k) ==
  IF Gone(k)
  THEN ~IsPaid
  ELSE IsPaid /\ row.sid = events[k].sid /\ row.status = events[k].status

Delivered == \A k \in DOMAIN events : deliveries[k] = 0 <=> k \notin handled \union open

InOrder ==
  order = {} =>
    \E h \in 0 .. Len(events) :
      handled = 1 .. h /\ open \subseteq {h + 1} /\ Mirrors(h)

OrderInv == EventsChain /\ StripeIsLast /\ Delivered /\ InOrder

(* What Stripe has to tell continues what it told.                         *)
LEMMA ChainStep ==
  ASSUME BillingTypes, StripeStep, EventsChain, StripeIsLast
  PROVE  EventsChain' /\ StripeIsLast'
<1>0. PICK n \in Nat : n = Len(events) + 1
  BY Happened
<1>1. /\ Len(events') = n /\ Len(events) \in Nat
      /\ DOMAIN events = 1 .. Len(events) /\ DOMAIN events' = 1 .. n
      /\ \A k \in 1 .. Len(events) : events'[k] = events[k]
  BY <1>0, Happened
<1>2. \A k \in 0 .. Len(events) : Gone(k)' <=> Gone(k)
  BY <1>1 DEF Gone
<1>3. \A k \in 1 .. Len(events) : k - 1 \in 0 .. Len(events) /\ (k - 1 # 0 => k - 1 \in 1 .. Len(events))
  BY <1>1
<1>4. \A k \in 1 .. Len(events) :
        IF events'[k].kind = "checkout"
        THEN Gone(k - 1)' /\ events'[k].status = "active"
        ELSE ~Gone(k - 1)' /\ events'[k].sid = events'[k - 1].sid
  BY <1>1, <1>2, <1>3 DEF EventsChain, Gone
<1>5. n - 1 = Len(events) /\ n # 0 /\ n \in 1 .. n /\ Len(events) \in 0 .. Len(events)
  BY <1>0, <1>1
<1>6. ASSUME NEW t \in Paid, Checkout(t) PROVE EventsChain' /\ StripeIsLast'
  <2>1. events'[n] = [kind |-> "checkout", sid |-> n, tier |-> t, status |-> "active", cancel |-> FALSE]
    BY <1>0, <1>6 DEF Checkout, Happens, BillingTypes
  <2>2. stripe.sid = 0 /\ stripe' = [sid |-> n, tier |-> t, status |-> "active"]
    BY <1>0, <1>6 DEF Checkout
  <2>3. Gone(Len(events))
    <3>1. ASSUME ~Gone(Len(events)) PROVE FALSE
      <4>1. Len(events) \in DOMAIN events
        BY <1>1, <3>1 DEF Gone
      <4>2. events[Len(events)].sid # 0
        BY <4>1, EventsGrow DEF Event, Next, StripeStep
      <4>3. QED
        BY <2>2, <3>1, <4>2 DEF StripeIsLast
    <3>2. QED
      BY <3>1
  <2>4. EventsChain'
    BY <1>1, <1>2, <1>4, <1>5, <2>1, <2>3 DEF EventsChain
  <2>5. ~Gone(n)'
    BY <1>5, <2>1 DEF Gone
  <2>6. QED
    BY <1>1, <2>1, <2>2, <2>4, <2>5 DEF StripeIsLast
<1>7. ASSUME stripe.sid # 0, events'[n].kind # "checkout", events'[n].sid = stripe.sid
      PROVE  EventsChain'
  <2>1. ~Gone(Len(events)) /\ stripe.sid = events[Len(events)].sid
    BY <1>7 DEF StripeIsLast
  <2>2. Len(events) \in 1 .. Len(events)
    BY <1>1, <2>1 DEF Gone
  <2>3. QED
    BY <1>1, <1>2, <1>4, <1>5, <1>7, <2>1, <2>2 DEF EventsChain
<1>8. ASSUME NEW t \in Paid, NEW s \in {"active", "past_due"}, NEW c \in BOOLEAN, Update(t, s, c)
      PROVE  EventsChain' /\ StripeIsLast'
  <2>1. events'[n] = [kind |-> "updated", sid |-> stripe.sid, tier |-> t, status |-> s, cancel |-> c]
    BY <1>0, <1>8 DEF Update, Happens, BillingTypes
  <2>2. stripe.sid # 0 /\ stripe'.sid = stripe.sid /\ stripe'.status = s
    BY <1>8 DEF Update, BillingTypes
  <2>3. EventsChain' /\ ~Gone(n)'
    BY <1>5, <1>7, <2>1, <2>2 DEF Gone
  <2>4. QED
    BY <1>1, <2>1, <2>2, <2>3 DEF StripeIsLast
<1>9. ASSUME Delete PROVE EventsChain' /\ StripeIsLast'
  <2>1. /\ events'[n].kind = "deleted" /\ events'[n].sid = stripe.sid
        /\ stripe.sid # 0 /\ stripe'.sid = 0
    BY <1>0, <1>9 DEF Delete, Happens, BillingTypes
  <2>2. EventsChain' /\ Gone(n)'
    BY <1>7, <2>1 DEF Gone
  <2>3. QED
    BY <1>1, <2>1, <2>2 DEF StripeIsLast
<1>10. QED
  BY <1>6, <1>8, <1>9 DEF StripeStep

(* An event that is handled in its order is the first not handled, and the *)
(* only one that is.                                                       *)
LEMMA NextInOrder ==
  ASSUME BillingTypes, Delivered, InOrder, NEW k \in DOMAIN events,
         Deliver(k), Disorder(k) = {}, order = {}
  PROVE  \E h \in 0 .. Len(events) :
           handled = 1 .. h /\ open = {} /\ Mirrors(h) /\ k = h + 1
<1>1. /\ order = {} /\ open = {} /\ ~(deliveries[k] > 0)
      /\ \A l \in DOMAIN events : l < k => l \in handled
  BY DEF Disorder
<1>2. PICK h \in 0 .. Len(events) : handled = 1 .. h /\ Mirrors(h)
  BY <1>1 DEF InOrder
<1>3. k \notin handled
  BY <1>1 DEF Delivered, BillingTypes
<1>4. Len(events) \in Nat /\ DOMAIN events = 1 .. Len(events)
  BY DEF BillingTypes
<1>5. k = h + 1
  <2>1. k > h
    BY <1>2, <1>3, <1>4
  <2>2. ~(h + 1 < k)
    BY <1>1, <1>2, <1>4
  <2>3. QED
    BY <1>2, <1>4, <2>1, <2>2
<1>6. QED
  BY <1>1, <1>2, <1>5

LEMMA OrderStep ==
  ASSUME BillingTypes, BillingTypes', TrackInv, OrderInv, [Next]_vars
  PROVE  OrderInv'
<1> USE DEF OrderInv
<1>1. CASE StripeStep
  <2>1. UNCHANGED <<open, handled, order, row>>
    BY <1>1, Happened
  <2>2. /\ Len(events') = Len(events) + 1 /\ Len(events) \in Nat
        /\ DOMAIN events = 1 .. Len(events) /\ DOMAIN events' = 1 .. (Len(events) + 1)
        /\ \A k \in 1 .. Len(events) : events'[k] = events[k] /\ deliveries'[k] = deliveries[k]
        /\ deliveries'[Len(events) + 1] = 0
    BY <1>1, Happened
  <2>3. \A k \in 0 .. Len(events) : Mirrors(k)' <=> Mirrors(k)
    BY <2>1, <2>2 DEF Mirrors, Gone, IsPaid
  <2>4. InOrder'
    BY <2>1, <2>2, <2>3 DEF InOrder
  <2>5. Delivered'
    BY <2>1, <2>2 DEF Delivered, BillingTypes
  <2>6. QED
    BY <1>1, <2>4, <2>5, ChainStep
<1>2. ASSUME NEW k \in DOMAIN events, HandleStep(k) PROVE OrderInv'
  <2>1. events' = events /\ stripe' = stripe
    BY <1>2 DEF HandleStep, HandleCheckout, FindRow, WriteRow, Deliver
  <2>2. EventsChain' /\ StripeIsLast'
    BY <2>1 DEF EventsChain, StripeIsLast, Gone
  <2>3. Len(events) \in Nat /\ DOMAIN events = 1 .. Len(events) /\ events[k] \in Event
    BY EventsGrow
  <2>4. Delivered'
    <3>1. ASSUME Deliver(k), k \in handled' \union open', handled' \union open' = handled \union open \union {k}
          PROVE  Delivered'
      <4>1. deliveries' = [deliveries EXCEPT ![k] = deliveries[k] + 1]
        BY <3>1 DEF Deliver
      <4>2. deliveries'[k] # 0 /\ \A l \in DOMAIN events \ {k} : deliveries'[l] = deliveries[l]
        BY <4>1 DEF BillingTypes
      <4>3. QED
        BY <2>1, <3>1, <4>2 DEF Delivered
    <3>2. CASE HandleCheckout(k) \/ FindRow(k)
      BY <3>1, <3>2 DEF HandleCheckout, FindRow
    <3>3. CASE WriteRow(k)
      BY <2>1, <3>3 DEF WriteRow, Delivered
    <3>4. QED
      BY <1>2, <3>2, <3>3 DEF HandleStep
  <2>5. InOrder'
    <3>1. SUFFICES ASSUME order' = {}
                   PROVE  \E h \in 0 .. Len(events) :
                            handled' = 1 .. h /\ open' \subseteq {h + 1} /\ Mirrors(h)'
      BY <2>1 DEF InOrder
    <3>2. \A h : Gone(h)' <=> Gone(h)
      BY <2>1 DEF Gone
    <3>3. CASE HandleCheckout(k)
      <4>1. PICK h \in 0 .. Len(events) : handled = 1 .. h /\ open = {} /\ Mirrors(h) /\ k = h + 1
        BY <3>1, <3>3, NextInOrder DEF HandleCheckout
      <4>2. handled' = 1 .. k /\ open' = {} /\ k # 0
        BY <2>3, <3>3, <4>1 DEF HandleCheckout
      <4>3. events[k].kind = "checkout" /\ events[k].tier \in Paid /\ events[k].status = "active"
        BY <3>3 DEF HandleCheckout, TrackInv, CheckoutsPaid, EventsChain
      <4>4. row'.plan = events[k].tier /\ row'.sid = events[k].sid /\ row'.status = "active"
        BY <3>3 DEF HandleCheckout
      <4>5. Mirrors(k)'
        BY <2>1, <3>2, <4>2, <4>3, <4>4 DEF Mirrors, IsPaid, Gone
      <4>6. QED
        BY <2>3, <4>2, <4>5
    <3>4. CASE FindRow(k)
      <4>1. PICK h \in 0 .. Len(events) : handled = 1 .. h /\ open = {} /\ Mirrors(h) /\ k = h + 1
        BY <3>1, <3>4, NextInOrder DEF FindRow
      <4>2. k - 1 = h /\ events[k].kind # "checkout"
        BY <3>4, <4>1 DEF FindRow
      <4>3. ~Gone(h) /\ events[k].sid = events[h].sid
        BY <4>2 DEF EventsChain
      <4>4. row.sid = events[k].sid
        BY <4>1, <4>3 DEF Mirrors
      <4>5. open' = {h + 1} /\ handled' = handled /\ row' = row
        BY <3>4, <4>1, <4>4 DEF FindRow, Found
      <4>6. Mirrors(h)'
        BY <2>1, <3>2, <4>1, <4>5 DEF Mirrors, IsPaid
      <4>7. QED
        BY <4>1, <4>5, <4>6
    <3>5. CASE WriteRow(k)
      <4>1. order = {} /\ k \in open /\ open' = open \ {k} /\ handled' = handled \union {k}
        BY <3>1, <3>5 DEF WriteRow
      <4>2. PICK h \in 0 .. Len(events) : handled = 1 .. h /\ open \subseteq {h + 1} /\ Mirrors(h)
        BY <4>1 DEF InOrder
      <4>3. k = h + 1 /\ k - 1 = h /\ k # 0 /\ open' = {}
        BY <4>1, <4>2
      <4>4. handled' = 1 .. k
        BY <4>1, <4>2, <4>3
      <4>5. events[k].kind \in {"updated", "deleted"}
        BY <2>3, <4>1 DEF TrackInv, OpenAreFound, Event
      <4>6. ~Gone(h) /\ events[k].sid = events[h].sid
        BY <4>3, <4>5 DEF EventsChain
      <4>7. CASE events[k].kind = "updated"
        <5>1. row'.plan = row.plan /\ row'.sid = row.sid /\ row'.status = events[k].status
          BY <3>5, <4>7 DEF WriteRow, Updated, BillingTypes
        <5>2. Mirrors(k)'
          BY <2>1, <3>2, <4>2, <4>3, <4>6, <4>7, <5>1 DEF Mirrors, IsPaid, Gone
        <5>3. QED
          BY <2>3, <4>3, <4>4, <5>2
      <4>8. CASE events[k].kind = "deleted"
        <5>1. row'.plan = "FREE"
          BY <3>5, <4>8 DEF WriteRow, Deleted
        <5>2. Mirrors(k)'
          BY <2>1, <3>2, <4>8, <5>1 DEF Mirrors, IsPaid, Gone
        <5>3. QED
          BY <2>3, <4>3, <4>4, <5>2
      <4>9. QED
        BY <4>5, <4>7, <4>8
    <3>6. QED
      BY <1>2, <3>3, <3>4, <3>5 DEF HandleStep
  <2>6. QED
    BY <2>2, <2>4, <2>5
<1>3. CASE UNCHANGED billing
  BY <1>3 DEF billing, EventsChain, StripeIsLast, Delivered, InOrder, Mirrors, Gone, IsPaid
<1>4. QED
  BY <1>1, <1>2, <1>3, StepKinds DEF vars

LEMMA OrderHolds == Spec => []OrderInv
<1>1. Init => OrderInv
  <2> SUFFICES ASSUME Init PROVE OrderInv
    OBVIOUS
  <2>1. /\ handled = DOMAIN events /\ open = {} /\ order = {}
        /\ deliveries = [k \in DOMAIN events |-> 1]
        /\ stripe = [sid |-> row.sid, tier |-> row.plan, status |-> row.status]
    BY DEF Init
  <2>2. Delivered
    BY <2>1 DEF Delivered
  <2>3. CASE events = << >> /\ ~IsPaid /\ row.sid = 0
    <3>1. Len(events) = 0 /\ DOMAIN events = {} /\ 1 .. 0 = {}
      BY <2>3
    <3>2. Gone(0)
      BY DEF Gone
    <3>3. InOrder
      BY <2>1, <2>3, <3>1, <3>2 DEF InOrder, Mirrors
    <3>4. QED
      BY <2>1, <2>2, <2>3, <3>1, <3>2, <3>3 DEF OrderInv, EventsChain, StripeIsLast
  <2>4. CASE /\ IsPaid
             /\ row = [plan |-> start.plan, sid |-> 1, status |-> "active", cancel |-> FALSE]
             /\ events = <<[kind |-> "checkout", sid |-> 1, tier |-> start.plan,
                            status |-> "active", cancel |-> FALSE]>>
    <3>1. /\ Len(events) = 1 /\ DOMAIN events = {1} /\ 1 .. 1 = {1}
          /\ events[1].kind = "checkout" /\ events[1].sid = 1 /\ events[1].status = "active"
          /\ row.sid = 1 /\ row.status = "active"
      BY <2>4
    <3>2. Gone(0) /\ ~Gone(1)
      BY <3>1 DEF Gone
    <3>3. Mirrors(1)
      BY <2>4, <3>1, <3>2 DEF Mirrors
    <3>4. InOrder
      BY <2>1, <3>1, <3>3 DEF InOrder
    <3>5. StripeIsLast /\ EventsChain
      BY <2>1, <3>1, <3>2 DEF EventsChain, StripeIsLast
    <3>6. QED
      BY <2>2, <3>4, <3>5 DEF OrderInv
  <2>5. QED
    BY <2>3, <2>4, InitRow
<1>2. BillingTypes /\ BillingTypes' /\ TrackInv /\ OrderInv /\ [Next]_vars => OrderInv'
  BY OrderStep
<1>3. TypeOK => BillingTypes
  BY TypesSplit
<1>4. QED
  BY <1>1, <1>2, <1>3, BillingTypesHold, TrackHolds, PTL DEF Spec

LEMMA SameTop ==
  ASSUME NEW h \in Nat, NEW n \in Nat, h <= n, 1 .. h = 1 .. n
  PROVE  h = n
<1>1. h # n => n \in 1 .. n /\ n \notin 1 .. h
  OBVIOUS
<1>2. QED
  BY <1>1

(* Handled once, in order and one after the other, Stripe's events give a  *)
(* paid plan exactly while there is a subscription, with its status.       *)
THEOREM InOrderPlanAgrees == Spec => []PaidAgrees
<1>1. BillingTypes /\ OrderInv => PaidAgrees
  <2> SUFFICES ASSUME BillingTypes, OrderInv, order = {}, handled = DOMAIN events, open = {}
               PROVE  /\ IsPaid <=> stripe.sid # 0
                      /\ IsPaid => row.sid = stripe.sid /\ row.status = stripe.status
    BY DEF PaidAgrees, AllHandled
  <2>1. PICK h \in 0 .. Len(events) : handled = 1 .. h /\ Mirrors(h)
    BY DEF OrderInv, InOrder
  <2>2. Len(events) \in Nat /\ DOMAIN events = 1 .. Len(events)
    BY DEF BillingTypes
  <2>3. h = Len(events)
    <3>1. 1 .. h = 1 .. Len(events)
      BY <2>1, <2>2
    <3>2. h \in Nat /\ h <= Len(events)
      BY <2>1, <2>2
    <3>3. QED
      BY <2>2, <3>1, <3>2, SameTop
  <2>4. CASE Gone(h)
    BY <2>1, <2>3, <2>4 DEF OrderInv, StripeIsLast, Mirrors
  <2>5. CASE ~Gone(h)
    <3>1. h \in DOMAIN events
      BY <2>2, <2>3, <2>5 DEF Gone
    <3>2. events[h].sid # 0
      <4>1. events[h] \in Event
        BY <3>1 DEF BillingTypes
      <4>2. QED
        BY <4>1 DEF Event
    <3>3. QED
      BY <2>1, <2>3, <2>5, <3>2 DEF OrderInv, StripeIsLast, Mirrors
  <2>6. QED
    BY <2>4, <2>5
<1>2. TypeOK => BillingTypes
  BY TypesSplit
<1>3. QED
  BY <1>1, <1>2, BillingTypesHold, OrderHolds, PTL

-----------------------------------------------------------------------------
(* Overage                                                                 *)

LEMMA RoundedDown ==
  ASSUME NEW a \in Nat, NEW b \in Nat \ {0}
  PROVE  /\ a \div b \in Nat
         /\ (a \div b) * b <= a
         /\ a < (a \div b) * b + b
OBVIOUS

(* Rounded up after adding Increment - 1: the least number that covers.    *)
LEMMA RoundedUp ==
  ASSUME NEW over \in Nat \ {0}, NEW b \in Nat \ {0}
  PROVE  LET n == (over + b - 1) \div b IN n \in Int /\ n * b >= over /\ (n - 1) * b < over
<1>1. PICK n : n = (over + b - 1) \div b
  OBVIOUS
<1>2. over + b - 1 \in Nat
  OBVIOUS
<1>3. n \in Nat /\ n * b <= over + b - 1 /\ over + b - 1 < n * b + b
  BY <1>1, <1>2, RoundedDown
<1>4. PICK p : p = n * b
  OBVIOUS
<1>5. p \in Int /\ (n - 1) * b = p - b
  BY <1>3, <1>4
<1>6. QED
  BY <1>1, <1>3, <1>4, <1>5

(* The customer is charged for the least number of increments that covers  *)
(* what is above the limit, whatever the plan and the increment.           *)
THEOREM OverageIsLeastAlways == Spec => []OverageIsLeast
<1>1. TypeOK => OverageIsLeast
  <2> SUFFICES ASSUME TypeOK, row.plan # "none"
               PROVE  LET over == used[month] - Limit[row.plan]
                          n == Overage(used[month], Limit[row.plan])
                      IN n * Increment >= over /\ (n > 0 => (n - 1) * Increment < over)
    BY DEF OverageIsLeast
  <2>1. used[month] \in Nat /\ Limit[row.plan] \in Nat /\ Increment \in Nat \ {0}
    BY DEF TypeOK, Plans
  <2>2. CASE used[month] > Limit[row.plan]
    <3> DEFINE over == used[month] - Limit[row.plan]
    <3>1. over \in Nat \ {0}
      BY <2>1, <2>2
    <3>2. Overage(used[month], Limit[row.plan]) = (over + Increment - 1) \div Increment
      BY <2>2 DEF Overage
    <3> HIDE DEF over
    <3>3. LET n == (over + Increment - 1) \div Increment
          IN n * Increment >= over /\ (n - 1) * Increment < over
      BY <2>1, <3>1, RoundedUp
    <3>4. QED
      BY <3>2, <3>3 DEF over
  <2>3. CASE ~(used[month] > Limit[row.plan])
    BY <2>1, <2>3 DEF Overage
  <2>4. QED
    BY <2>2, <2>3
<1>2. QED
  BY <1>1, BillingTypesHold, PTL

-----------------------------------------------------------------------------
(* Usage                                                                   *)

(* A step that records nothing leaves the sums alone.                      *)
LEMMA RecordSteps ==
  ASSUME [Next]_vars
  PROVE  \/ UNCHANGED <<used, records>>
         \/ \E j \in Jobs : Record(j) /\ (RecordUsage(j) \/ RecordAgain(j)) /\ month' = month
<1>1. ASSUME NEW j \in Jobs, JobStep(j)
      PROVE  \/ UNCHANGED <<used, records>>
             \/ Record(j) /\ (RecordUsage(j) \/ RecordAgain(j)) /\ month' = month
  BY <1>1 DEF JobStep, QueueScheduled, ReadPlan, CheckCap, RecordUsage, RecordAgain, LookAtPlan, LookAtUsage,
              CreateAlert, QueueEmail, AlertFails
<1>2. QED
  BY <1>1, StepKinds DEF usage, vars

LEMMA RecordsFinite ==
  ASSUME UsageTypes, NEW m
  PROVE  IsFiniteSet({r \in records : r[2] = m}) /\ Cardinality({r \in records : r[2] = m}) \in Nat
<1>1. IsFiniteSet(Jobs \X Months)
  <2>1. IsFiniteSet(Months)
    BY FS_Interval DEF Months
  <2>2. QED
    BY <2>1, FS_Product
<1>2. {r \in records : r[2] = m} \subseteq Jobs \X Months
  BY DEF UsageTypes
<1>3. QED
  BY <1>1, <1>2, FS_Subset, FS_CardinalityType

LEMMA CountStep ==
  ASSUME BillingTypes, UsageTypes, CountedOnce, [Next]_vars
  PROVE  CountedOnce'
<1> DEFINE Of(m) == {r \in records : r[2] = m}
<1>1. CASE UNCHANGED <<used, records>>
  BY <1>1 DEF CountedOnce
<1>2. ASSUME NEW j \in Jobs, Record(j) PROVE CountedOnce'
  <2>1. CASE ~Fresh(j)
    BY <1>1, <1>2, <2>1 DEF Record
  <2>2. CASE Fresh(j)
    <3>1. /\ used' = [used EXCEPT ![month] = used[month] + Rows]
          /\ records' = records \union {<<j, month>>}
      BY <1>2, <2>2 DEF Record
    <3>2. \A r \in records : r[1] # j
      BY <2>2 DEF Fresh, Recorded
    <3>3. \A r, s \in records' : r[1] = s[1] => r = s
      BY <3>1, <3>2 DEF CountedOnce
    <3>4. ASSUME NEW m \in Months PROVE used'[m] = Rows * Cardinality({r \in records' : r[2] = m})
      <4>1. IsFiniteSet(Of(m)) /\ Cardinality(Of(m)) \in Nat /\ used[m] = Rows * Cardinality(Of(m))
        BY RecordsFinite DEF CountedOnce
      <4>2. CASE m # month
        <5>1. {r \in records' : r[2] = m} = Of(m)
          BY <3>1, <4>2
        <5>2. QED
          BY <3>1, <4>1, <4>2, <5>1 DEF UsageTypes
      <4>3. CASE m = month
        <5>1. {r \in records' : r[2] = m} = Of(m) \union {<<j, month>>} /\ <<j, month>> \notin Of(m)
          BY <3>1, <3>2, <4>3
        <5>2. Cardinality({r \in records' : r[2] = m}) = Cardinality(Of(m)) + 1
          BY <4>1, <5>1, FS_AddElement
        <5>3. used'[m] = used[m] + Rows
          BY <3>1, <4>3 DEF UsageTypes
        <5> HIDE DEF Of
        <5>4. Rows * (Cardinality(Of(m)) + 1) = Rows * Cardinality(Of(m)) + Rows
          BY <4>1
        <5>5. QED
          BY <4>1, <5>2, <5>3, <5>4
      <4>4. QED
        BY <4>2, <4>3
    <3>5. QED
      BY <3>3, <3>4 DEF CountedOnce
  <2>3. QED
    BY <2>1, <2>2
<1>3. QED
  BY <1>1, <1>2, RecordSteps

(* An export that is past its recording has its record, so that recording  *)
(* again adds nothing.                                                     *)
PastRecording == {"lookPlan", "lookUsage", "alert", "email", "done", "again"}
AfterRecord == \A j \in Jobs : job[j] \in PastRecording => j \in Recorded

LEMMA AfterRecordStep ==
  ASSUME UsageTypes, AfterRecord, [Next]_vars
  PROVE  AfterRecord'
<1> USE DEF AfterRecord, PastRecording
<1>1. Recorded \subseteq Recorded'
  BY RecordSteps DEF Recorded, Record
<1>2. ASSUME NEW j \in Jobs, JobStep(j) PROVE AfterRecord'
  <2>1. \A i \in Jobs \ {j} : job'[i] = job[i]
    BY <1>2 DEF JobStep, QueueScheduled, ReadPlan, CheckCap, RecordUsage, RecordAgain, LookAtPlan, LookAtUsage,
                CreateAlert, QueueEmail, AlertFails, GoTo, Drop, UsageTypes
  <2>2. CASE QueueScheduled(j) \/ ReadPlan(j) \/ CheckCap(j)
    BY <1>1, <2>1, <2>2 DEF QueueScheduled, ReadPlan, CheckCap, GoTo, UsageTypes
  <2>3. CASE RecordUsage(j) \/ RecordAgain(j)
    <3>1. Record(j)
      BY <2>3 DEF RecordUsage, RecordAgain
    <3>2. j \in Recorded'
      <4>1. CASE Fresh(j)
        <5>1. <<j, month>> \in records' /\ <<j, month>>[1] = j
          BY <3>1, <4>1 DEF Record
        <5>2. QED
          BY <5>1 DEF Recorded
      <4>2. CASE ~Fresh(j)
        BY <1>1, <4>2 DEF Fresh
      <4>3. QED
        BY <4>1, <4>2
    <3>3. QED
      BY <1>1, <2>1, <3>2
  <2>4. ASSUME job[j] \in PastRecording PROVE AfterRecord'
    BY <1>1, <2>1, <2>4
  <2>5. QED
    BY <1>2, <2>2, <2>3, <2>4
    DEF JobStep, LookAtPlan, LookAtUsage, CreateAlert, QueueEmail, AlertFails
<1>3. CASE UNCHANGED usage
  BY <1>3 DEF usage, Recorded
<1>4. QED
  BY <1>2, <1>3, StepKinds DEF vars

(* On the free plan, before Stripe has anything to tell: what is in flight *)
(* was admitted below the limit, so that what it will add goes beyond by   *)
(* no more than what was in flight at one time, and what the schedules     *)
(* exported beside it.                                                     *)
OnFreePlan ==
  start.plan = "FREE" /\ events = << >> =>
    row.plan = "FREE" /\ \A j \in Jobs : job[j] = "checking" => tierSeen[j] = "FREE"

PeakCovers == Cardinality(InFlight) <= peak

Beyond(m) == Rows * (peak + Unchecked(m))

WithinReach ==
  start.plan = "FREE" /\ events = << >> =>
    /\ used[month] + Rows * Cardinality(InFlight) <= Limit["FREE"] - 1 + Beyond(month)
    /\ \A m \in Months :
         /\ m < month => used[m] <= Limit["FREE"] - 1 + Beyond(m)
         /\ m > month => used[m] = 0

CapInv == OnFreePlan /\ PeakCovers /\ WithinReach

LEMMA FlightFinite == IsFiniteSet(InFlight) /\ Cardinality(InFlight) \in Nat
BY FS_Subset, FS_CardinalityType DEF InFlight

LEMMA MoreRows ==
  ASSUME NEW m \in Nat, NEW n \in Nat, m <= n
  PROVE  Rows * m <= Rows * n /\ Rows * m \in Nat /\ Rows * n \in Nat
OBVIOUS

(* A free customer without events has no subscription's row to write.      *)
LEMMA StillFree ==
  ASSUME BillingTypes, [Next]_vars, events' = << >>
  PROVE  events = << >> /\ UNCHANGED <<row, start>>
<1>1. ~StripeStep
  <2>1. ASSUME StripeStep PROVE FALSE
    <3>1. Len(events') # 0
      BY <2>1, Happened
    <3>2. QED
      BY <3>1
  <2>2. QED
    BY <2>1
<1>2. ASSUME NEW k \in DOMAIN events, HandleStep(k) PROVE FALSE
  <2>1. events' = events
    BY <1>2 DEF HandleStep, HandleCheckout, FindRow, WriteRow, Deliver
  <2>2. QED
    BY <2>1
<1>3. QED
  BY <1>1, <1>2, StepKinds DEF vars, billing

(* What admits to the flight, and what records.                            *)
LEMMA FlightSteps ==
  ASSUME BillingTypes, UsageTypes, AfterRecord, [Next]_vars
  PROVE  /\ start' = start
         /\ \/ InFlight' = InFlight /\ UNCHANGED <<peak, used, records, month>>
            \/ \E j \in Jobs : CheckCap(j)
            \/ \E j \in Jobs : RecordUsage(j)
            \/ NextMonth
<1>0. start' = start
  BY StepKinds DEF vars
<1>1. ASSUME UNCHANGED usage, month' = month
      PROVE  InFlight' = InFlight /\ UNCHANGED <<peak, used, records, month>>
  BY <1>0, <1>1 DEF usage, InFlight
<1>2. ASSUME NEW j \in Jobs, JobStep(j), ~CheckCap(j), ~RecordUsage(j)
      PROVE  InFlight' = InFlight /\ UNCHANGED <<peak, used, records, month>>
  <2>1. UNCHANGED <<peak, used, records, month>>
    <3>1. CASE RecordAgain(j)
      BY <3>1 DEF RecordAgain, Record, Fresh, AfterRecord, PastRecording
    <3>2. CASE ~RecordAgain(j)
      BY <1>2, <3>2 DEF JobStep, QueueScheduled, ReadPlan, LookAtPlan, LookAtUsage, CreateAlert,
                        QueueEmail, AlertFails
    <3>3. QED
      BY <3>1, <3>2
  <2>2. CASE QueueScheduled(j)
    <3>1. j \in start.scheduled /\ \A i \in Jobs \ {j} : job'[i] = job[i]
      BY <2>2 DEF QueueScheduled, GoTo, UsageTypes
    <3>2. QED
      BY <1>0, <2>1, <3>1 DEF InFlight
  <2>3. CASE ~QueueScheduled(j)
    <3>1. job[j] # "running" /\ \E place \in Places \ {"running"} : GoTo(j, place)
      BY <1>2, <2>3 DEF JobStep, ReadPlan, RecordAgain, LookAtPlan, LookAtUsage, CreateAlert,
                        QueueEmail, AlertFails, Drop, Places
    <3>2. \A i \in Jobs : job'[i] = "running" <=> job[i] = "running"
      BY <3>1 DEF GoTo, UsageTypes
    <3>3. QED
      BY <1>0, <2>1, <3>2 DEF InFlight
  <2>4. QED
    BY <2>2, <2>3
<1>3. QED
  BY <1>0, <1>1, <1>2, StepKinds DEF vars

LEMMA SomeRecords ==
  ASSUME NEW X, X \subseteq Jobs \X Months
  PROVE  IsFiniteSet(X) /\ Cardinality(X) \in Nat
<1>1. IsFiniteSet(Months)
  BY FS_Interval DEF Months
<1>2. IsFiniteSet(Jobs \X Months)
  BY <1>1, FS_Product
<1>3. QED
  BY <1>2, FS_Subset, FS_CardinalityType

LEMMA UncheckedFinite ==
  ASSUME UsageTypes, NEW m
  PROVE  /\ IsFiniteSet({r \in records : r[2] = m /\ r[1] \in start.scheduled})
         /\ Unchecked(m) \in Nat
<1>1. {r \in records : r[2] = m /\ r[1] \in start.scheduled} \subseteq Jobs \X Months
  BY DEF UsageTypes
<1>2. QED
  BY <1>1, SomeRecords DEF Unchecked

(* What may be beyond the limit only grows.                                *)
LEMMA BeyondGrows ==
  ASSUME UsageTypes, UsageTypes', start' = start, records \subseteq records', peak <= peak', NEW m
  PROVE  /\ Beyond(m) <= Beyond(m)' /\ Beyond(m) \in Nat /\ Beyond(m)' \in Nat
         /\ Unchecked(m) <= Unchecked(m)'
<1> DEFINE Old == {r \in records : r[2] = m /\ r[1] \in start.scheduled}
           New == {r \in records' : r[2] = m /\ r[1] \in start'.scheduled}
<1>0. Unchecked(m) = Cardinality(Old) /\ Unchecked(m)' = Cardinality(New)
  BY DEF Unchecked
<1>1. IsFiniteSet(Old) /\ Unchecked(m) \in Nat
  BY UncheckedFinite
<1>2. New \subseteq Jobs \X Months
  BY DEF UsageTypes
<1>3. IsFiniteSet(New) /\ Unchecked(m)' \in Nat
  BY <1>0, <1>2, SomeRecords
<1>4. Old \subseteq New
  OBVIOUS
<1>5. Unchecked(m) = Cardinality(Old) /\ Unchecked(m)' = Cardinality(New)
  BY <1>0
<1> HIDE DEF Old, New
<1>6. Unchecked(m) <= Unchecked(m)'
  BY <1>3, <1>4, <1>5, FS_Subset
<1>7. PICK a \in Nat, b \in Nat : a = peak + Unchecked(m) /\ b = peak' + Unchecked(m)'
  BY <1>1, <1>3 DEF UsageTypes
<1>8. a <= b
  <2>1. peak \in Nat /\ peak' \in Nat
    BY DEF UsageTypes
  <2>2. QED
    BY <1>1, <1>3, <1>6, <1>7, <2>1
<1>9. Beyond(m) = Rows * a /\ Beyond(m)' = Rows * b
  BY <1>7 DEF Beyond
<1>10. QED
  BY <1>6, <1>8, <1>9, MoreRows

(* An export of a schedule that records for the first time adds to what    *)
(* was not checked.                                                        *)
LEMMA ScheduledAdds ==
  ASSUME BillingTypes, UsageTypes, UsageTypes', start' = start, peak' = peak,
         NEW j \in Jobs, j \in start.scheduled, Fresh(j),
         NEW m, records' = records \union {<<j, m>>}
  PROVE  Beyond(m)' = Beyond(m) + Rows
<1> DEFINE Old == {r \in records : r[2] = m /\ r[1] \in start.scheduled}
           New == {r \in records' : r[2] = m /\ r[1] \in start'.scheduled}
<1>2. IsFiniteSet(Old) /\ Unchecked(m) \in Nat /\ Unchecked(m) = Cardinality(Old)
  BY UncheckedFinite DEF Unchecked
<1>3. New = Old \union {<<j, m>>} /\ <<j, m>> \notin Old
  BY DEF Fresh, Recorded
<1>4. Cardinality(New) = Unchecked(m) + 1
  BY <1>2, <1>3, FS_AddElement
<1>5. Unchecked(m)' = Cardinality(New)
  BY DEF Unchecked
<1> HIDE DEF Old, New
<1>6. PICK u \in Nat, p \in Nat : u = Unchecked(m) /\ p = peak
  BY <1>2 DEF UsageTypes
<1>7. Beyond(m) = Rows * (p + u) /\ Beyond(m)' = Rows * (p + (u + 1))
  BY <1>4, <1>5, <1>6 DEF Beyond
<1>8. Rows * (p + (u + 1)) = Rows * (p + u) + Rows
  BY <1>6
<1>9. QED
  BY <1>7, <1>8

LEMMA CapStep ==
  ASSUME BillingTypes, UsageTypes, UsageTypes', AfterRecord, CapInv, [Next]_vars
  PROVE  CapInv'
<1> USE DEF CapInv
<1>1. OnFreePlan'
  <2> SUFFICES ASSUME start'.plan = "FREE", events' = << >>
               PROVE  row'.plan = "FREE" /\ \A j \in Jobs : job'[j] = "checking" => tierSeen'[j] = "FREE"
    BY DEF OnFreePlan
  <2>1. events = << >> /\ row' = row /\ start' = start
    BY StillFree
  <2>2. row.plan = "FREE" /\ \A j \in Jobs : job[j] = "checking" => tierSeen[j] = "FREE"
    BY <2>1 DEF OnFreePlan
  <2>3. ASSUME NEW j \in Jobs, ReadPlan(j)
        PROVE  \A i \in Jobs : job'[i] = "checking" => tierSeen'[i] = "FREE"
    BY <2>2, <2>3 DEF ReadPlan, GoTo, UsageTypes
  <2>4. ASSUME NEW j \in Jobs, JobStep(j), ~ReadPlan(j)
        PROVE  \A i \in Jobs : job'[i] = "checking" => tierSeen'[i] = "FREE"
    <3>1. tierSeen' = tierSeen /\ \E place \in Places \ {"checking"} : GoTo(j, place)
      BY <2>4 DEF JobStep, QueueScheduled, CheckCap, RecordUsage, RecordAgain, LookAtPlan, LookAtUsage, CreateAlert,
                  QueueEmail, AlertFails, Drop, Places
    <3>2. QED
      BY <2>2, <3>1 DEF GoTo, UsageTypes
  <2>5. ASSUME UNCHANGED usage PROVE \A i \in Jobs : job'[i] = "checking" => tierSeen'[i] = "FREE"
    BY <2>2, <2>5 DEF usage
  <2>6. QED
    BY <2>1, <2>2, <2>3, <2>4, <2>5, StepKinds DEF vars
<1>2. ASSUME start'.plan = "FREE", events' = << >>
      PROVE  /\ start.plan = "FREE" /\ events = << >> /\ row.plan = "FREE"
             /\ \A j \in Jobs : job[j] = "checking" => tierSeen[j] = "FREE"
             /\ used[month] + Rows * Cardinality(InFlight) <= Limit["FREE"] - 1 + Beyond(month)
             /\ \A m \in Months :
                  /\ m < month => used[m] <= Limit["FREE"] - 1 + Beyond(m)
                  /\ m > month => used[m] = 0
  BY <1>2, StillFree DEF OnFreePlan, WithinReach
<1>3. /\ Cardinality(InFlight) \in Nat /\ peak \in Nat /\ Cardinality(InFlight) <= peak
      /\ IsFiniteSet(InFlight) /\ month \in Months /\ month \in Nat
      /\ Limit["FREE"] \in Nat \ {0} /\ \A m \in Months : m \in Nat /\ used[m] \in Nat
  BY FlightFinite DEF PeakCovers, UsageTypes, BillingTypes, Months
<1>4. CASE InFlight' = InFlight /\ UNCHANGED <<peak, used, records, month>>
  <2>1. start' = start
    BY FlightSteps
  <2>2. \A m : Beyond(m)' = Beyond(m)
    BY <1>4, <2>1 DEF Beyond, Unchecked
  <2>3. ASSUME start'.plan = "FREE", events' = << >> PROVE WithinReach'
    <3>1. PICK n : n = month
      OBVIOUS
    <3>2. used[n] + Rows * Cardinality(InFlight) <= Limit["FREE"] - 1 + Beyond(n)
      BY <1>2, <2>3, <3>1
    <3>3. Beyond(n)' = Beyond(n) /\ month' = n
      BY <1>4, <2>2, <3>1
    <3>4. used'[n] + Rows * Cardinality(InFlight') <= Limit["FREE"] - 1 + Beyond(n)'
      BY <1>4, <3>2, <3>3
    <3>5. \A m \in Months : /\ m < n => used'[m] <= Limit["FREE"] - 1 + Beyond(m)'
                            /\ m > n => used'[m] = 0
      BY <1>2, <1>4, <2>2, <2>3, <3>1
    <3>6. QED
      BY <3>3, <3>4, <3>5 DEF WithinReach
  <2>4. WithinReach'
    BY <2>3 DEF WithinReach
  <2>5. QED
    BY <1>1, <1>4, <2>4 DEF PeakCovers
(* Besides these, a step leads to a month n and to c in flight; its reach  *)
(* is shown for that month, and for the others.                            *)
<1>5. ASSUME NEW n \in Months, month' = n, NEW c \in Nat, c = Cardinality(InFlight'), c <= peak',
             start'.plan = "FREE" /\ events' = << >> =>
               /\ used'[n] + Rows * c <= Limit["FREE"] - 1 + Beyond(n)'
               /\ \A m \in Months : /\ m < n => used'[m] <= Limit["FREE"] - 1 + Beyond(m)'
                                    /\ m > n => used'[m] = 0
      PROVE  CapInv'
  <2>1. PeakCovers'
    BY <1>5 DEF PeakCovers
  <2>2. WithinReach'
    BY <1>5 DEF WithinReach
  <2>3. QED
    BY <1>1, <2>1, <2>2
<1>6. ASSUME NEW j \in Jobs, CheckCap(j) PROVE CapInv'
  <2>1. UNCHANGED <<used, month, start, records>> /\ job[j] = "checking"
    BY <1>6 DEF CheckCap
  <2>2. PICK c \in Nat : c = Cardinality(InFlight')
    BY FlightFinite, FS_Subset, FS_CardinalityType DEF InFlight
  <2>3. peak' = (IF c > peak THEN c ELSE peak) /\ peak <= peak' /\ c <= peak' /\ peak' \in Nat
    BY <1>3, <1>6, <2>2 DEF CheckCap
  <2>4. PICK n \in Months : n = month
    BY <1>3
  <2>5. \A m : Beyond(m) <= Beyond(m)' /\ Beyond(m) \in Nat /\ Beyond(m)' \in Nat
    BY <2>1, <2>3, BeyondGrows
  <2>6. ASSUME start'.plan = "FREE", events' = << >>
        PROVE  used'[n] + Rows * c <= Limit["FREE"] - 1 + Beyond(n)'
    <3>1. CASE Allowed(tierSeen[j])
      <4>1. used[n] <= Limit["FREE"] - 1
        <5>1. tierSeen[j] = "FREE"
          BY <1>2, <2>1, <2>6
        <5>2. used[month] < Limit["FREE"]
          BY <3>1, <5>1 DEF Allowed
        <5>3. QED
          BY <1>3, <2>4, <5>2
      <4>2. PICK u \in Nat : u = Unchecked(n)'
        <5>1. Unchecked(n) = Unchecked(n)'
          BY <2>1 DEF Unchecked
        <5>2. QED
          BY <5>1, UncheckedFinite
      <4>3. Beyond(n)' = Rows * (peak' + u)
        BY <4>2 DEF Beyond
      <4>4. c <= peak' + u /\ peak' + u \in Nat
        BY <2>3, <4>2
      <4>5. Rows * c <= Rows * (peak' + u) /\ Rows * c \in Nat
        BY <4>4, MoreRows
      <4>6. QED
        BY <1>3, <2>1, <2>4, <2>5, <4>1, <4>3, <4>5
    <3>2. CASE ~Allowed(tierSeen[j])
      <4>1. InFlight' = InFlight
        BY <1>6, <2>1, <3>2 DEF CheckCap, GoTo, InFlight, UsageTypes
      <4>2. used[n] + Rows * c <= Limit["FREE"] - 1 + Beyond(n)
        <5>1. c = Cardinality(InFlight)
          BY <2>2, <4>1
        <5>2. QED
          BY <1>2, <2>4, <2>6, <5>1
      <4>3. PICK d \in Nat, x \in Nat, y \in Nat : d = Rows * c /\ x = Beyond(n) /\ y = Beyond(n)' /\ x <= y
        BY <2>2, <2>5
      <4>4. used[n] \in Nat /\ used'[n] = used[n] /\ Limit["FREE"] \in Nat
        BY <1>3, <2>1
      <4>5. QED
        BY <4>2, <4>3, <4>4
    <3>3. QED
      BY <3>1, <3>2
  <2>7. ASSUME start'.plan = "FREE", events' = << >>, NEW m \in Months
        PROVE  /\ m < n => used'[m] <= Limit["FREE"] - 1 + Beyond(m)'
               /\ m > n => used'[m] = 0
    <3>1. /\ m < n => used[m] <= Limit["FREE"] - 1 + Beyond(m)
          /\ m > n => used[m] = 0
      BY <1>2, <2>4, <2>7
    <3>2. Beyond(m) <= Beyond(m)' /\ Beyond(m) \in Nat /\ Beyond(m)' \in Nat
      BY <2>5
    <3>3. used[m] \in Nat /\ used'[m] = used[m] /\ Limit["FREE"] \in Nat
      BY <1>3, <2>1
    <3>4. QED
      BY <3>1, <3>2, <3>3
  <2>8. QED
    BY <1>5, <2>1, <2>2, <2>3, <2>4, <2>6, <2>7
<1>7. ASSUME NEW j \in Jobs, RecordUsage(j) PROVE CapInv'
  <2>1. /\ UNCHANGED <<peak, month, start>> /\ Record(j) /\ job[j] = "running"
        /\ job' = [job EXCEPT ![j] = "lookPlan"]
    BY <1>7 DEF RecordUsage, GoTo
  <2>2. PICK n \in Months : n = month
    BY <1>3
  <2>3. \/ UNCHANGED <<used, records>>
        \/ /\ Fresh(j) /\ used' = [used EXCEPT ![n] = used[n] + Rows]
           /\ records' = records \union {<<j, n>>}
    BY <2>1, <2>2 DEF Record
  <2>4. /\ used'[n] \in {used[n], used[n] + Rows} /\ used'[n] \in Nat /\ used[n] \in Nat
        /\ \A m \in Months \ {n} : used'[m] = used[m]
    BY <1>3, <2>3 DEF UsageTypes
  <2>5. \A m : Beyond(m) <= Beyond(m)' /\ Beyond(m) \in Nat /\ Beyond(m)' \in Nat
    BY <1>3, <2>1, <2>3, BeyondGrows
  <2>6. ASSUME start'.plan = "FREE", events' = << >>, NEW m \in Months
        PROVE  /\ m < n => used'[m] <= Limit["FREE"] - 1 + Beyond(m)'
               /\ m > n => used'[m] = 0
    <3>1. /\ m < n => used[m] <= Limit["FREE"] - 1 + Beyond(m)
          /\ m > n => used[m] = 0
      BY <1>2, <2>2, <2>6
    <3>2. m # n => used'[m] = used[m]
      BY <2>4
    <3>3. Beyond(m) <= Beyond(m)' /\ Beyond(m) \in Nat /\ Beyond(m)' \in Nat /\ used[m] \in Nat
          /\ Limit["FREE"] \in Nat /\ m \in Nat /\ n \in Nat
      BY <1>3, <2>2, <2>5
    <3>4. QED
      BY <3>1, <3>2, <3>3
  <2>7. ASSUME start'.plan = "FREE", events' = << >>
        PROVE  used[n] + Rows * Cardinality(InFlight) <= Limit["FREE"] - 1 + Beyond(n)
    BY <1>2, <2>2, <2>7
  <2>8. PICK f \in Nat : f = Cardinality(InFlight) /\ f <= peak
    BY <1>3
  <2>9. CASE j \in start.scheduled
    <3>1. InFlight' = InFlight
      BY <2>1, <2>9 DEF InFlight, UsageTypes
    <3>2. f = Cardinality(InFlight')
      BY <2>8, <3>1
    <3>3. ASSUME start'.plan = "FREE", events' = << >>
          PROVE  used'[n] + Rows * f <= Limit["FREE"] - 1 + Beyond(n)'
      <4>0. Rows * f \in Nat
        BY <2>8
      <4>1. PICK d \in Nat, x \in Nat, y \in Nat, l \in Nat, u \in Nat, w \in Nat :
              /\ d = Rows * f /\ x = Beyond(n) /\ y = Beyond(n)' /\ x <= y /\ l = Limit["FREE"]
              /\ u = used[n] /\ w = used'[n]
        BY <1>3, <2>4, <2>5, <4>0
      <4>2. u + d <= l - 1 + x
        BY <2>7, <2>8, <3>3, <4>1
      <4>3. CASE UNCHANGED <<used, records>>
        <5>1. w = u
          BY <4>1, <4>3
        <5>2. QED
          BY <4>1, <4>2, <5>1
      <4>4. CASE Fresh(j) /\ records' = records \union {<<j, n>>}
        <5>1. y = x + Rows
          BY <2>1, <2>9, <4>1, <4>4, ScheduledAdds
        <5>2. w <= u + Rows
          BY <2>4, <4>1
        <5>3. w + d <= l - 1 + y
          BY <4>2, <5>1, <5>2
        <5>4. QED
          BY <4>1, <5>3
      <4>5. QED
        BY <2>3, <4>3, <4>4
    <3>4. QED
      BY <1>5, <2>1, <2>2, <2>6, <2>8, <3>2, <3>3
  <2>10. CASE j \notin start.scheduled
    <3>1. InFlight' = InFlight \ {j} /\ j \in InFlight
      BY <2>1, <2>10 DEF InFlight, UsageTypes
    <3>2. Cardinality(InFlight') = f - 1
      BY <1>3, <2>8, <3>1, FS_RemoveElement
    <3>3. f # 0
      <4>1. f = 0 => InFlight = {}
        BY <1>3, <2>8, FS_EmptySet
      <4>2. QED
        BY <3>1, <4>1
    <3>4. PICK c \in Nat : c = f - 1 /\ c = Cardinality(InFlight') /\ c <= peak'
      BY <1>3, <2>1, <2>8, <3>2, <3>3
    <3>5. ASSUME start'.plan = "FREE", events' = << >>
          PROVE  used'[n] + Rows * c <= Limit["FREE"] - 1 + Beyond(n)'
      <4>0. Rows * f \in Nat /\ Rows * c \in Nat /\ Rows * c = Rows * f - Rows
        <5>1. Rows * f \in Nat /\ Rows * c \in Nat
          BY <2>8, <3>4
        <5>2. Rows * (f - 1) = Rows * f - Rows
          BY <2>8
        <5>3. QED
          BY <3>4, <5>1, <5>2
      <4>1. PICK d \in Nat, e \in Nat, x \in Nat, y \in Nat, l \in Nat, u \in Nat, w \in Nat :
              /\ d = Rows * f /\ e = Rows * c /\ x = Beyond(n) /\ y = Beyond(n)' /\ x <= y
              /\ l = Limit["FREE"] /\ u = used[n] /\ w = used'[n]
        BY <1>3, <2>4, <2>5, <4>0
      <4>2. u + d <= l - 1 + x
        BY <2>7, <2>8, <3>5, <4>1
      <4>3. e = d - Rows
        BY <4>0, <4>1
      <4>4. w <= u + Rows
        BY <2>4, <4>1
      <4>5. w + e <= l - 1 + y
        BY <4>1, <4>2, <4>3, <4>4
      <4>6. QED
        BY <4>1, <4>5
    <3>6. QED
      BY <1>5, <2>1, <2>2, <2>6, <3>4, <3>5
  <2>11. QED
    BY <2>9, <2>10
<1>8. CASE NextMonth
  <2>1. month' = month + 1 /\ UNCHANGED <<used, peak, records, job, start>> /\ month' \in Months
    BY <1>3, <1>8 DEF NextMonth, usage, Months, BillingTypes
  <2>2. InFlight' = InFlight /\ \A m : Beyond(m)' = Beyond(m) /\ Beyond(m) \in Nat
    <3>1. \A m : Unchecked(m)' = Unchecked(m) /\ Unchecked(m) \in Nat
      BY <2>1, UncheckedFinite DEF Unchecked
    <3>2. QED
      BY <1>3, <2>1, <3>1 DEF InFlight, Beyond
  <2>3. PICK f \in Nat : f = Cardinality(InFlight) /\ f <= peak
    BY <1>3
  <2>4. \A m : Rows * f <= Beyond(m) /\ Rows * f \in Nat
    <3>1. ASSUME NEW m PROVE Rows * f <= Beyond(m) /\ Rows * f \in Nat
      <4>0. Unchecked(m) \in Nat
        BY UncheckedFinite
      <4>1. PICK q \in Nat : q = peak + Unchecked(m) /\ f <= q
        BY <1>3, <2>3, <4>0
      <4>2. QED
        BY <4>1, MoreRows DEF Beyond
    <3>2. QED
      BY <3>1
  <2>5. PICK n \in Months, o \in Months : n = month' /\ o = month /\ n = o + 1
    BY <1>3, <2>1
  <2>6. ASSUME start'.plan = "FREE", events' = << >>
        PROVE  /\ used'[n] + Rows * f <= Limit["FREE"] - 1 + Beyond(n)'
               /\ \A m \in Months : /\ m < n => used'[m] <= Limit["FREE"] - 1 + Beyond(m)'
                                    /\ m > n => used'[m] = 0
    <3>1. /\ used[o] + Rows * f <= Limit["FREE"] - 1 + Beyond(o)
          /\ \A m \in Months : /\ m < o => used[m] <= Limit["FREE"] - 1 + Beyond(m)
                               /\ m > o => used[m] = 0
      BY <1>2, <2>3, <2>5, <2>6
    <3>2. n \in Nat /\ o \in Nat /\ \A m \in Months : m \in Nat /\ used[m] \in Nat /\ used'[m] = used[m]
      BY <1>3, <2>1, <2>5
    <3>3. used'[n] + Rows * f <= Limit["FREE"] - 1 + Beyond(n)'
      <4>1. used'[n] = 0
        BY <2>5, <3>1, <3>2
      <4>2. PICK d \in Nat, x \in Nat, l \in Nat \ {0} :
              d = Rows * f /\ x = Beyond(n)' /\ l = Limit["FREE"] /\ d <= x
        BY <1>3, <2>2, <2>4
      <4>3. 0 + d <= l - 1 + x
        BY <4>2
      <4>4. QED
        BY <4>1, <4>2, <4>3
    <3>4. ASSUME NEW m \in Months, m < n PROVE used'[m] <= Limit["FREE"] - 1 + Beyond(m)'
      <4>1. CASE m < o
        BY <2>2, <3>1, <3>2, <4>1
      <4>2. CASE m = o
        <5>1. PICK d \in Nat, x \in Nat, l \in Nat, u \in Nat :
                d = Rows * f /\ x = Beyond(o) /\ l = Limit["FREE"] /\ u = used[o]
          BY <1>3, <2>2, <2>4, <2>5
        <5>2. u + d <= l - 1 + x
          BY <3>1, <5>1
        <5>3. u <= l - 1 + x
          BY <5>1, <5>2
        <5>4. QED
          BY <2>2, <3>2, <4>2, <5>1, <5>3
      <4>3. m < o \/ m = o
        BY <2>5, <3>2, <3>4
      <4>4. QED
        BY <4>1, <4>2, <4>3
    <3>5. ASSUME NEW m \in Months, m > n PROVE used'[m] = 0
      <4>1. m > o
        BY <2>5, <3>2, <3>5
      <4>2. QED
        BY <3>1, <3>2, <4>1
    <3>6. QED
      BY <3>3, <3>4, <3>5
  <2>7. f = Cardinality(InFlight') /\ f <= peak'
    BY <2>1, <2>2, <2>3
  <2>8. QED
    BY <1>5, <2>5, <2>6, <2>7
<1>9. QED
  BY <1>4, <1>6, <1>7, <1>8, FlightSteps

(* Usage is what the recorded exports had, each once and in one month; and *)
(* a free customer goes beyond the limit by no more than what the API had  *)
(* in flight at one time and the schedules exported in the month, however  *)
(* checks and recordings interleave.                                       *)
THEOREM UsageIsBounded == Spec => []UsageBounded
<1> DEFINE Inv == CountedOnce /\ AfterRecord /\ CapInv
<1>1. Init => Inv
  <2> SUFFICES ASSUME Init PROVE Inv
    OBVIOUS
  <2>1. /\ records = {} /\ used = [m \in Months |-> 0] /\ peak = 0 /\ month = 0
        /\ job = [j \in Jobs |-> "new"]
    BY DEF Init
  <2>2. month \in Months /\ \A n \in Nat : Rows * 0 = 0
    BY <2>1 DEF Months
  <2>3. InFlight = {} /\ Cardinality(InFlight) = 0
    BY <2>1, FS_EmptySet DEF InFlight
  <2>4. CountedOnce
    <3>1. \A m \in Months : {r \in records : r[2] = m} = {}
      BY <2>1
    <3>2. QED
      BY <2>1, <2>2, <3>1, FS_EmptySet DEF CountedOnce
  <2>5. AfterRecord
    BY <2>1 DEF AfterRecord, PastRecording
  <2>6. OnFreePlan
    BY <2>1, InitRow DEF OnFreePlan
  <2>7. Limit["FREE"] \in Nat \ {0}
    OBVIOUS
  <2>8. \A m : Beyond(m) = 0
    <3>1. ASSUME NEW m PROVE Beyond(m) = 0
      <4>1. {r \in records : r[2] = m /\ r[1] \in start.scheduled} = {}
        BY <2>1
      <4>2. Unchecked(m) = 0
        BY <4>1, FS_EmptySet DEF Unchecked
      <4>3. QED
        BY <2>1, <2>2, <4>2 DEF Beyond
    <3>2. QED
      BY <3>1
  <2>9. CapInv
    BY <2>1, <2>2, <2>3, <2>6, <2>7, <2>8 DEF CapInv, PeakCovers, WithinReach
  <2>10. QED
    BY <2>4, <2>5, <2>9
<1>2. TypeOK /\ TypeOK' /\ Inv /\ [Next]_vars => Inv'
  <2>1. TypeOK => BillingTypes /\ UsageTypes
    BY TypesSplit
  <2>2. TypeOK' => UsageTypes'
    BY TypesSplit, PTL
  <2>3. QED
    BY <2>1, <2>2, CountStep, AfterRecordStep, CapStep
<1>3. TypeOK /\ Inv => UsageBounded
  <2> SUFFICES ASSUME TypeOK, CapInv, start.plan = "FREE", events = << >>, NEW m \in Months
               PROVE  used[m] <= Limit["FREE"] - 1 + Beyond(m)
    BY DEF UsageBounded, OvershootIsInFlight, Beyond
  <2>1. /\ used[m] \in Nat /\ m \in Nat /\ month \in Nat /\ month \in Months /\ peak \in Nat
        /\ Limit["FREE"] \in Nat \ {0}
    BY DEF TypeOK, Months
  <2>2. Rows * Cardinality(InFlight) \in Nat /\ Beyond(m) \in Nat
    <3>1. Unchecked(m) \in Nat
      BY TypesSplit, UncheckedFinite
    <3>2. QED
      BY <2>1, <3>1, FlightFinite DEF Beyond
  <2>3. /\ used[month] + Rows * Cardinality(InFlight) <= Limit["FREE"] - 1 + Beyond(month)
        /\ m < month => used[m] <= Limit["FREE"] - 1 + Beyond(m)
        /\ m > month => used[m] = 0
    BY DEF CapInv, WithinReach
  <2>4. CASE m = month
    BY <2>1, <2>2, <2>3, <2>4
  <2>5. CASE m # month
    BY <2>1, <2>2, <2>3, <2>5
  <2>6. QED
    BY <2>4, <2>5
<1>4. QED
  BY <1>1, <1>2, <1>3, BillingTypesHold, PTL DEF Spec

-----------------------------------------------------------------------------
(* Alerts                                                                  *)

Keys == Months \X Thresholds

(* The exports that have claimed an alert and are to queue its email.      *)
Emailing(a) == {j \in Jobs : job[j] = "email" /\ Alert(j) = a}

(* Only who created the alert queues its email, and does so once.          *)
EmailOwned ==
  \A a \in Keys :
    /\ queued[a] > 0 \/ Emailing(a) # {} => a \in alerts
    /\ Emailing(a) # {} => queued[a] = 0
    /\ queued[a] <= 1
    /\ \A i, j \in Emailing(a) : i = j

(* An alert that was created has its email, or somebody is to queue it.    *)
ClaimKept == \A a \in alerts : queued[a] = 1 \/ Emailing(a) # {}

(* What was looked up is still so.                                         *)
LookIsCurrent ==
  row.plan # "none" =>
    \A j \in Jobs : job[j] \in {"lookUsage", "alert", "email"} =>
      look[j].month = month /\ (job[j] = "lookUsage" => look[j].limit = Limit[row.plan])

(* A threshold that was reached has its alert, or an export that recorded  *)
(* has yet to look or to create it: the last to record looks at the sum of *)
(* all.                                                                    *)
Covered(t) ==
  \/ <<month, t>> \in alerts
  \/ \E j \in Jobs : job[j] \in {"lookPlan", "lookUsage"} \/ t \in look[j].todo

ReachedCovered ==
  row.plan # "none" =>
    \A t \in Thresholds : used[month] * 100 >= t * Limit[row.plan] => Covered(t)

TellInv == faults = {} => ClaimKept /\ LookIsCurrent /\ ReachedCovered

(* An alert is about what was looked up, which only its export changes.    *)
LEMMA AlertSame ==
  ASSUME NEW i \in Jobs, look'[i] = look[i]
  PROVE  Alert(i)' = Alert(i)
BY DEF Alert, Lowest

LEMMA AlertIsKey ==
  ASSUME UsageTypes, NEW j \in Jobs, job[j] \in {"alert", "email"}
  PROVE  Alert(j) \in Keys
BY LowestIsOne DEF Alert, UsageTypes, Keys

(* A step after which nobody else is to queue an email.                    *)
LEMMA NoNewEmail ==
  ASSUME EmailOwned, UNCHANGED <<alerts, queued>>,
         \A i \in Jobs : job'[i] = "email" => job[i] = "email" /\ look'[i] = look[i]
  PROVE  EmailOwned'
<1>1. \A a \in Keys : Emailing(a)' \subseteq Emailing(a)
  BY AlertSame DEF Emailing
<1>2. QED
  BY <1>1 DEF EmailOwned

(* What a step of an export that is not at an alert does.                  *)
LEMMA BeforeAlerts ==
  ASSUME UsageTypes, NEW j \in Jobs,
         \/ QueueScheduled(j) \/ ReadPlan(j) \/ CheckCap(j) \/ RecordUsage(j) \/ RecordAgain(j)
         \/ LookAtPlan(j) \/ LookAtUsage(j)
  PROVE  /\ UNCHANGED <<alerts, queued>>
         /\ \A i \in Jobs \ {j} : job'[i] = job[i] /\ look'[i] = look[i]
         /\ job'[j] # "email" /\ job[j] \notin {"alert", "email"}
<1>1. CASE \/ QueueScheduled(j) \/ ReadPlan(j) \/ CheckCap(j) \/ RecordUsage(j) \/ RecordAgain(j)
           \/ LookAtPlan(j)
  BY <1>1 DEF QueueScheduled, ReadPlan, CheckCap, RecordUsage, RecordAgain, LookAtPlan, GoTo, UsageTypes
<1>2. CASE LookAtUsage(j)
  BY <1>2 DEF LookAtUsage, GoTo, UsageTypes
<1>3. QED
  BY <1>1, <1>2

LEMMA EmailStep ==
  ASSUME UsageTypes, EmailOwned, [Next]_vars
  PROVE  EmailOwned'
<1>1. ASSUME UNCHANGED usage PROVE EmailOwned'
  BY <1>1, NoNewEmail DEF usage
<1>2. ASSUME NEW j \in Jobs, JobStep(j) PROVE EmailOwned'
  <2>1. CASE \/ QueueScheduled(j) \/ ReadPlan(j) \/ CheckCap(j) \/ RecordUsage(j) \/ RecordAgain(j)
             \/ LookAtPlan(j) \/ LookAtUsage(j)
    BY <2>1, BeforeAlerts, NoNewEmail
  <2>2. ASSUME job[j] \in {"alert", "email"}, Drop(j), UNCHANGED <<alerts, queued>> PROVE EmailOwned'
    <3>1. \A i \in Jobs : job'[i] = "email" => job[i] = "email" /\ look'[i] = look[i]
      BY <2>2, Dropped
    <3>2. QED
      BY <2>2, <3>1, NoNewEmail
  <2>3. CASE AlertFails(j)
    <3>1. CASE job[j] \in {"lookPlan", "lookUsage"} /\ GoTo(j, "done") /\ UNCHANGED look
      BY <2>3, <3>1, NoNewEmail DEF AlertFails, GoTo, UsageTypes
    <3>2. QED
      BY <2>2, <2>3, <3>1 DEF AlertFails
  <2>4. CASE CreateAlert(j)
    <3>1. CASE ~IsNew(Alert(j))
      BY <2>2, <2>4, <3>1 DEF CreateAlert
    <3>2. CASE IsNew(Alert(j))
      <4>1. /\ alerts' = alerts \union {Alert(j)} /\ queued' = queued /\ look' = look
            /\ job' = [job EXCEPT ![j] = "email"] /\ Alert(j) \notin alerts /\ job[j] = "alert"
        BY <2>4, <3>2 DEF CreateAlert, GoTo, IsNew
      <4>2. Alert(j) \in Keys
        BY <4>1, AlertIsKey
      <4>3. \A i \in Jobs : Alert(i)' = Alert(i)
        BY <4>1, AlertSame
      <4>4. Emailing(Alert(j)) = {} /\ ~(queued[Alert(j)] > 0)
        BY <4>1, <4>2 DEF EmailOwned
      <4>5. ASSUME NEW a \in Keys
            PROVE  Emailing(a)' = IF a = Alert(j) THEN Emailing(a) \union {j} ELSE Emailing(a)
        BY <4>1, <4>3 DEF Emailing, UsageTypes
      <4>6. queued[Alert(j)] = 0
        BY <4>2, <4>4 DEF UsageTypes, Keys
      <4>7. QED
        BY <4>1, <4>4, <4>5, <4>6 DEF EmailOwned
    <3>3. QED
      BY <3>1, <3>2
  <2>5. CASE QueueEmail(j)
    <3>1. /\ job[j] = "email" /\ alerts' = alerts /\ Drop(j)
          /\ queued' = [queued EXCEPT ![Alert(j)] = queued[Alert(j)] + 1]
      BY <2>5 DEF QueueEmail
    <3>2. Alert(j) \in Keys /\ j \in Emailing(Alert(j))
      BY <3>1, AlertIsKey DEF Emailing
    <3>3. Alert(j) \in alerts /\ queued[Alert(j)] = 0 /\ \A i \in Emailing(Alert(j)) : i = j
      BY <3>2 DEF EmailOwned
    <3>4. \A i \in Jobs : job'[i] = "email" => i # j /\ job[i] = "email" /\ look'[i] = look[i]
      BY <3>1, Dropped
    <3>5. \A a \in Keys : Emailing(a)' \subseteq Emailing(a) \ {j}
      BY <3>4, AlertSame DEF Emailing
    <3>6. Emailing(Alert(j)) \subseteq {j}
      BY <3>3
    <3>7. PICK b \in Keys : b = Alert(j)
      BY <3>2
    <3>8. Emailing(b)' = {} /\ queued'[b] = 1 /\ b \in alerts'
      BY <3>1, <3>3, <3>5, <3>6, <3>7 DEF UsageTypes, Keys
    <3>9. \A a \in Keys \ {b} : queued'[a] = queued[a]
      BY <3>1, <3>7 DEF UsageTypes, Keys
    <3>10. QED
      BY <3>1, <3>5, <3>8, <3>9 DEF EmailOwned
  <2>6. QED
    BY <1>2, <2>1, <2>3, <2>4, <2>5 DEF JobStep
<1>3. QED
  BY <1>1, <1>2, StepKinds DEF vars

(* A step that takes no claim away and changes nothing that was looked up. *)
LEMMA ClaimsStay ==
  ASSUME ClaimKept, UNCHANGED <<alerts, queued>>,
         \A i \in Jobs : job[i] = "email" => job'[i] = "email" /\ look'[i] = look[i]
  PROVE  ClaimKept'
<1>1. ASSUME NEW a, Emailing(a) # {} PROVE Emailing(a)' # {}
  BY <1>1, AlertSame DEF Emailing
<1>2. QED
  BY <1>1 DEF ClaimKept

LEMMA TellJobStep ==
  ASSUME BillingTypes, UsageTypes, UsageTypes', AfterRecord, EmailOwned, faults = {},
         ClaimKept, LookIsCurrent, ReachedCovered,
         NEW j \in Jobs, JobStep(j), faults' = {}
  PROVE  ClaimKept' /\ LookIsCurrent' /\ ReachedCovered'
<1>1. UNCHANGED <<month, row>>
  BY StepKinds DEF Next, billing, JobStep, QueueScheduled, ReadPlan, CheckCap, RecordUsage, RecordAgain, LookAtPlan,
                   LookAtUsage, CreateAlert, QueueEmail, AlertFails
<1>2. ASSUME UNCHANGED <<used, alerts, queued, look>>,
             \A i \in Jobs : job'[i] \in {"lookPlan", "lookUsage", "alert", "email"} <=>
                             job[i] \in {"lookPlan", "lookUsage", "alert", "email"},
             \A i \in Jobs : job[i] \in {"lookPlan", "lookUsage", "alert", "email"} => job'[i] = job[i]
      PROVE  ClaimKept' /\ LookIsCurrent' /\ ReachedCovered'
  <2>1. ClaimKept'
    BY <1>2, ClaimsStay
  <2>2. LookIsCurrent'
    BY <1>1, <1>2 DEF LookIsCurrent
  <2>3. \A t \in Thresholds : Covered(t) => Covered(t)'
    BY <1>1, <1>2 DEF Covered
  <2>4. QED
    BY <1>1, <1>2, <2>1, <2>2, <2>3 DEF ReachedCovered
<1>3. CASE QueueScheduled(j) \/ ReadPlan(j) \/ CheckCap(j) \/ RecordAgain(j)
  <2>1. UNCHANGED <<used, alerts, queued, look>>
    BY <1>3 DEF QueueScheduled, ReadPlan, CheckCap, RecordAgain, Record, Fresh, AfterRecord, PastRecording
  <2>2. /\ \A i \in Jobs \ {j} : job'[i] = job[i]
        /\ job[j] \notin {"lookPlan", "lookUsage", "alert", "email"}
        /\ job'[j] \notin {"lookPlan", "lookUsage", "alert", "email"}
    BY <1>3 DEF QueueScheduled, ReadPlan, CheckCap, RecordAgain, GoTo, UsageTypes
  <2>3. QED
    BY <1>2, <2>1, <2>2
<1>4. CASE RecordUsage(j)
  <2>1. UNCHANGED <<alerts, queued, look>> /\ job'[j] = "lookPlan" /\ job[j] = "running"
        /\ \A i \in Jobs \ {j} : job'[i] = job[i]
    BY <1>4 DEF RecordUsage, GoTo, UsageTypes
  <2>2. ClaimKept'
    BY <2>1, ClaimsStay
  <2>3. LookIsCurrent'
    BY <1>1, <2>1 DEF LookIsCurrent
  <2>4. \A t \in Thresholds : Covered(t)'
    BY <2>1 DEF Covered
  <2>5. QED
    BY <2>2, <2>3, <2>4 DEF ReachedCovered
<1>5. CASE LookAtPlan(j)
  <2>1. UNCHANGED <<used, alerts, queued>> /\ job[j] = "lookPlan" /\ \A i \in Jobs \ {j} : job'[i] = job[i]
    BY <1>5 DEF LookAtPlan, GoTo, UsageTypes
  <2>2. \A i \in Jobs \ {j} : look'[i] = look[i]
    BY <1>5, BeforeAlerts
  <2>3. ClaimKept'
    BY <2>1, <2>2, ClaimsStay
  <2>4. ASSUME row.plan # "none"
        PROVE  job'[j] = "lookUsage" /\ look'[j].month = month /\ look'[j].limit = Limit[row.plan]
    BY <1>5, <2>4 DEF LookAtPlan, GoTo, UsageTypes
  <2>5. LookIsCurrent'
    BY <1>1, <2>1, <2>2, <2>4 DEF LookIsCurrent
  <2>6. row.plan # "none" => \A t \in Thresholds : Covered(t)'
    BY <2>4 DEF Covered
  <2>7. QED
    BY <1>1, <2>3, <2>5, <2>6 DEF ReachedCovered
<1>6. CASE LookAtUsage(j)
  <2> DEFINE todo == Reached(look[j].limit, used[month])
  <2>1. /\ look' = [look EXCEPT ![j].todo = todo] /\ GoTo(j, IF todo = {} THEN "done" ELSE "alert")
        /\ UNCHANGED <<used, alerts, queued>> /\ job[j] = "lookUsage"
    BY <1>6 DEF LookAtUsage
  <2>2. /\ look'[j].todo = todo /\ look'[j].month = look[j].month
        /\ \A i \in Jobs \ {j} : look'[i] = look[i]
    BY <2>1 DEF UsageTypes
  <2>3. /\ job'[j] = (IF todo = {} THEN "done" ELSE "alert") /\ \A i \in Jobs \ {j} : job'[i] = job[i]
    BY <2>1 DEF GoTo, UsageTypes
  <2> HIDE DEF todo
  <2>4. ClaimKept'
    BY <2>1, <2>2, <2>3, ClaimsStay
  <2>5. LookIsCurrent'
    BY <1>1, <2>1, <2>2, <2>3 DEF LookIsCurrent
  <2>6. ASSUME row.plan # "none", NEW t \in Thresholds, used[month] * 100 >= t * Limit[row.plan]
        PROVE  Covered(t)'
    <3>1. look[j].limit = Limit[row.plan]
      BY <2>1, <2>6 DEF LookIsCurrent
    <3>2. t \in todo
      BY <2>6, <3>1 DEF todo, Reached
    <3>3. QED
      BY <2>2, <3>2 DEF Covered
  <2>7. QED
    BY <1>1, <2>1, <2>4, <2>5, <2>6 DEF ReachedCovered
<1>7. ASSUME job[j] \in {"alert", "email"}, Drop(j), used' = used, alerts' = alerts,
             Alert(j) \in alerts, ClaimKept'
      PROVE  ClaimKept' /\ LookIsCurrent' /\ ReachedCovered'
  <2>1. /\ \A i \in Jobs \ {j} : job'[i] = job[i] /\ look'[i] = look[i]
        /\ look'[j].todo = look[j].todo \ {Lowest(j)} /\ look'[j].month = look[j].month
        /\ job'[j] \in {"done", "alert"}
    BY <1>7, Dropped
  <2>2. LookIsCurrent'
    BY <1>1, <1>7, <2>1 DEF LookIsCurrent
  <2>3. ASSUME row.plan # "none", NEW t \in Thresholds, Covered(t) PROVE Covered(t)'
    <3>1. Alert(j) = <<month, Lowest(j)>>
      BY <1>7, <2>3 DEF Alert, LookIsCurrent
    <3>2. CASE <<month, t>> \in alerts
      BY <1>1, <1>7, <3>2 DEF Covered
    <3>3. ASSUME NEW i \in Jobs, job[i] \in {"lookPlan", "lookUsage"} \/ t \in look[i].todo
          PROVE  Covered(t)'
      <4>1. CASE i = j
        BY <1>1, <1>7, <2>1, <3>1, <3>3, <4>1 DEF Covered
      <4>2. CASE i # j
        BY <2>1, <3>3, <4>2 DEF Covered
      <4>3. QED
        BY <4>1, <4>2
    <3>4. QED
      BY <2>3, <3>2, <3>3 DEF Covered
  <2>4. QED
    BY <1>1, <1>7, <2>2, <2>3 DEF ReachedCovered
<1>8. CASE CreateAlert(j)
  <2>1. CASE ~IsNew(Alert(j))
    <3>1. /\ Drop(j) /\ UNCHANGED <<alerts, queued, used>> /\ Alert(j) \in alerts /\ job[j] = "alert"
      BY <1>8, <2>1 DEF CreateAlert, IsNew
    <3>2. \A i \in Jobs : job[i] = "email" => job'[i] = "email" /\ look'[i] = look[i]
      BY <3>1, Dropped
    <3>3. QED
      BY <1>7, <3>1, <3>2, ClaimsStay
  <2>2. CASE IsNew(Alert(j))
    <3>1. /\ alerts' = alerts \union {Alert(j)} /\ UNCHANGED <<queued, look, used>>
          /\ job' = [job EXCEPT ![j] = "email"] /\ job[j] = "alert"
      BY <1>8, <2>2 DEF CreateAlert, GoTo
    <3>2. \A i \in Jobs \ {j} : job'[i] = job[i]
      BY <3>1 DEF UsageTypes
    <3>3. job'[j] = "email" /\ \A i \in Jobs : Alert(i)' = Alert(i)
      BY <3>1, AlertSame DEF UsageTypes
    <3>4. ClaimKept'
      <4>1. ASSUME NEW a \in alerts, Emailing(a) # {} PROVE Emailing(a)' # {}
        BY <3>1, <3>2, <3>3, <4>1 DEF Emailing
      <4>2. Emailing(Alert(j))' # {} \/ \E a : a = Alert(j) /\ j \in Emailing(a)'
        BY <3>3 DEF Emailing
      <4>3. PICK a : a = Alert(j)
        OBVIOUS
      <4>4. j \in Emailing(a)'
        BY <3>3, <4>3 DEF Emailing
      <4>5. QED
        BY <3>1, <4>1, <4>3, <4>4 DEF ClaimKept
    <3>5. LookIsCurrent'
      BY <1>1, <3>1, <3>2, <3>3 DEF LookIsCurrent
    <3>6. ASSUME NEW t \in Thresholds, Covered(t) PROVE Covered(t)'
      BY <1>1, <3>1, <3>2, <3>6 DEF Covered
    <3>7. QED
      BY <1>1, <3>1, <3>4, <3>5, <3>6 DEF ReachedCovered
  <2>3. QED
    BY <2>1, <2>2
<1>9. CASE QueueEmail(j)
  <2>1. /\ job[j] = "email" /\ Drop(j) /\ UNCHANGED <<alerts, used>>
        /\ queued' = [queued EXCEPT ![Alert(j)] = queued[Alert(j)] + 1]
    BY <1>9 DEF QueueEmail
  <2>2. PICK b \in Keys : b = Alert(j)
    BY <2>1, AlertIsKey
  <2>3. j \in Emailing(b)
    BY <2>1, <2>2 DEF Emailing
  <2>4. b \in alerts /\ queued[b] = 0
    BY <2>3 DEF EmailOwned
  <2>5. queued'[b] = 1 /\ \A a \in Keys \ {b} : queued'[a] = queued[a]
    BY <2>1, <2>2, <2>4 DEF UsageTypes, Keys
  <2>6. \A i \in Jobs \ {j} : job'[i] = job[i] /\ look'[i] = look[i]
    BY <2>1, Dropped
  <2>7. ASSUME NEW a \in alerts, a # b, Emailing(a) # {} PROVE Emailing(a)' # {}
    <3>1. PICK i \in Jobs : job[i] = "email" /\ Alert(i) = a
      BY <2>7 DEF Emailing
    <3>2. i # j
      BY <2>2, <2>7, <3>1
    <3>3. QED
      BY <2>6, <3>1, <3>2, AlertSame DEF Emailing
  <2>8. ClaimKept'
    BY <2>1, <2>5, <2>7 DEF ClaimKept, UsageTypes, Keys
  <2>9. QED
    BY <1>7, <2>1, <2>2, <2>4, <2>8
<1>10. CASE AlertFails(j)
  BY <1>10 DEF AlertFails
<1>11. QED
  BY <1>3, <1>4, <1>5, <1>6, <1>8, <1>9, <1>10 DEF JobStep

LEMMA TellStep ==
  ASSUME BillingTypes, UsageTypes, UsageTypes', AfterRecord, EmailOwned, TellInv, [Next]_vars
  PROVE  TellInv'
<1> SUFFICES ASSUME faults' = {} PROVE ClaimKept' /\ LookIsCurrent' /\ ReachedCovered'
  BY DEF TellInv
<1>1. ASSUME faults = {}, UNCHANGED <<month, row, usage>>
      PROVE  ClaimKept' /\ LookIsCurrent' /\ ReachedCovered'
  <2>1. ClaimKept /\ LookIsCurrent /\ ReachedCovered
    BY <1>1 DEF TellInv
  <2>2. ClaimKept'
    BY <1>1, <2>1, ClaimsStay DEF usage
  <2>3. \A t \in Thresholds : Covered(t) => Covered(t)'
    BY <1>1 DEF usage, Covered
  <2>4. QED
    BY <1>1, <2>1, <2>2, <2>3 DEF usage, LookIsCurrent, ReachedCovered
<1>2. CASE StripeStep
  <2>1. UNCHANGED <<month, row, usage, faults>>
    BY <1>2 DEF StripeStep, Checkout, Update, Delete, Happens
  <2>2. QED
    BY <1>1, <2>1
<1>3. ASSUME NEW k \in DOMAIN events, HandleStep(k) PROVE FALSE
  BY <1>3 DEF HandleStep, HandleCheckout, FindRow, WriteRow, Deliver
<1>4. CASE NextMonth
  BY <1>4 DEF NextMonth
<1>5. ASSUME NEW j \in Jobs, JobStep(j) PROVE ClaimKept' /\ LookIsCurrent' /\ ReachedCovered'
  <2>1. faults = {}
    BY <1>5 DEF JobStep, QueueScheduled, ReadPlan, CheckCap, RecordUsage, RecordAgain, LookAtPlan, LookAtUsage,
                CreateAlert, QueueEmail, AlertFails
  <2>2. QED
    BY <1>5, <2>1, TellJobStep DEF TellInv
<1>6. CASE UNCHANGED vars
  BY <1>1, <1>6 DEF vars, billing
<1>7. QED
  BY <1>2, <1>3, <1>4, <1>5, <1>6, StepKinds

(* A threshold that the usage reached has its alert email once: never      *)
(* twice, whichever exports reach it together, and when no check failed    *)
(* and neither plan nor month changed, not never.                          *)
THEOREM ThresholdsAlertedOnce == Spec => []AlertedOnce
<1> DEFINE Inv == AfterRecord /\ EmailOwned /\ TellInv
<1>1. Init => Inv
  <2> SUFFICES ASSUME Init PROVE Inv
    OBVIOUS
  <2>1. /\ job = [j \in Jobs |-> "new"] /\ alerts = {} /\ queued = [a \in Months \X Thresholds |-> 0]
        /\ used = [m \in Months |-> 0] /\ month = 0 /\ row.plan \in Plans
    <3>1. row.plan \in Plans
      BY InitRow DEF Plans, NoSub
    <3>2. QED
      BY <3>1 DEF Init
  <2>2. AfterRecord
    BY <2>1 DEF AfterRecord, PastRecording
  <2>3. \A a : Emailing(a) = {}
    BY <2>1 DEF Emailing
  <2>4. EmailOwned
    BY <2>1, <2>3 DEF EmailOwned, Keys
  <2>5. used[month] = 0
    BY <2>1 DEF Months
  <2>6. ReachedCovered
    <3>1. ASSUME row.plan # "none", NEW t \in Thresholds PROVE ~(0 >= t * Limit[row.plan])
      <4>1. PICK l \in Nat \ {0} : l = Limit[row.plan]
        BY <2>1, <3>1 DEF Plans
      <4>2. ~(0 >= 80 * l) /\ ~(0 >= 100 * l)
        BY <4>1
      <4>3. QED
        BY <4>1, <4>2 DEF Thresholds
    <3>2. QED
      BY <2>5, <3>1 DEF ReachedCovered
  <2>7. TellInv
    BY <2>1, <2>6 DEF TellInv, ClaimKept, LookIsCurrent
  <2>8. QED
    BY <2>2, <2>4, <2>7
<1>2. TypeOK /\ TypeOK' /\ Inv /\ [Next]_vars => Inv'
  <2>1. TypeOK => BillingTypes /\ UsageTypes
    BY TypesSplit
  <2>2. TypeOK' => UsageTypes'
    BY TypesSplit, PTL
  <2>3. QED
    BY <2>1, <2>2, AfterRecordStep, EmailStep, TellStep
<1>3. TypeOK /\ Inv => AlertedOnce
  <2> SUFFICES ASSUME TypeOK, Inv PROVE AlertedOnce
    OBVIOUS
  <2>1. AlertQueuedOnce
    BY DEF AlertQueuedOnce, EmailOwned, Keys
  <2>2. ThresholdAlerted
    <3> SUFFICES ASSUME faults = {}, row.plan # "none", \A j \in Recorded : job[j] \in {"done", "again"},
                        NEW t \in Thresholds, used[month] * 100 >= t * Limit[row.plan]
                 PROVE  queued[<<month, t>>] = 1
      BY DEF ThresholdAlerted
    <3>1. \A j \in Jobs : job[j] \notin {"lookPlan", "lookUsage", "alert", "email"}
      BY DEF AfterRecord, PastRecording
    <3>2. \A j \in Jobs : look[j].todo = {}
      BY <3>1 DEF TypeOK
    <3>3. <<month, t>> \in alerts
      BY <3>1, <3>2 DEF TellInv, ReachedCovered, Covered
    <3>4. Emailing(<<month, t>>) = {}
      BY <3>1 DEF Emailing
    <3>5. QED
      BY <3>3, <3>4 DEF TellInv, ClaimKept
  <2>3. QED
    BY <2>1, <2>2 DEF AlertedOnce
<1>4. QED
  BY <1>1, <1>2, <1>3, BillingTypesHold, PTL DEF Spec
=============================================================================
