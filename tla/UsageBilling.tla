---------------------------- MODULE UsageBilling ----------------------------
(***************************************************************************)
(* One customer's plan and usage: the subscription that follows Stripe's   *)
(* events, the cap that an export through the API is checked against and a *)
(* scheduled one is not, the usage that each records, and the alerts at    *)
(* the thresholds of the plan's limit.                                     *)
(*                                                                         *)
(* Stripe delivers each event at least once, in any order, several at a    *)
(* time. Every query is a step. The billing dates of a subscription are    *)
(* left out (nothing reads them), and the audit entries.                   *)
(***************************************************************************)
EXTENDS Integers, FiniteSets, Sequences

CONSTANTS
  Jobs,
  Rows,          \* rows of an export
  Paid,          \* the paid tiers
  Limit,         \* per tier, monthlyRowLimit
  DefaultLimit,  \* limit of a customer without a subscription
  Increment,     \* rows that are charged together
  Starts,        \* initial [plan, jobs, scheduled, events]: the customer's plan, the
                 \* exports there will be, those of them that a schedule makes, and
                 \* the bound on Stripe's events
  MaxDeliveries, \* bound: no event is delivered more often
  MaxMonth       \* bound: no month after this one

ASSUME PlansAssumption ==
  /\ {"FREE", "none"} \intersect Paid = {} /\ DOMAIN Limit = Paid \union {"FREE"}
  /\ \A t \in DOMAIN Limit : Limit[t] \in Nat \ {0}
  /\ DefaultLimit \in Nat \ {0} /\ Increment \in Nat \ {0} /\ Rows \in Nat
ASSUME JobsAssumption == IsFiniteSet(Jobs)
ASSUME StartsAssumption ==
  Starts \subseteq [plan : Paid \union {"FREE", "none"}, jobs : SUBSET Jobs,
                   scheduled : SUBSET Jobs, events : Nat]
ASSUME BoundsAssumption == MaxDeliveries \in Nat /\ MaxMonth \in Nat

Months == 0..MaxMonth
Thresholds == {80, 100}

VARIABLES
  start,
  month,
  stripe,      \* Stripe's own: [sid, tier, status], sid 0 without a subscription
  events,      \* what Stripe has to tell
  deliveries,  \* per event, how often it was delivered
  open,        \* events between findFirst and update: the row was found
  handled,     \* events that were handled (history)
  order,       \* what became of the order: late, twice, overlap, outdated, across
               \* (history)
  row,         \* the subscription: [plan, sid, status, cancel], plan none without one
  job,         \* per export: new, checking, refused, running, or recording's place
  tierSeen,    \* what checkUsageCap read of the subscription
  peak,        \* most exports that were admitted and not yet recorded (history)
  records,     \* usage records: <<export, month>>
  used,        \* per month, the sum of the usage records
  look,        \* per export, what checkAndSendAlerts read: [limit, month, todo]
  alerts,      \* usage alerts: <<month, threshold>>
  queued,      \* per alert, emails queued
  faults       \* what failed or changed under an alert check (history)

billing == <<stripe, events, deliveries, open, handled, order, row>>
usage == <<job, tierSeen, peak, records, used, look, alerts, queued>>
vars == <<start, month, billing, usage, faults>>

NoSub == [plan |-> "none", sid |-> 0, status |-> "none", cancel |-> FALSE]
IsPaid == row.plan \in Paid

Init ==
  /\ start \in Starts
  /\ month = 0
  /\ row = CASE start.plan = "none" -> NoSub
             [] start.plan = "FREE" -> [NoSub EXCEPT !.plan = "FREE", !.status = "canceled"]
             [] OTHER -> [plan |-> start.plan, sid |-> 1, status |-> "active", cancel |-> FALSE]
  /\ stripe = [sid |-> row.sid, tier |-> row.plan, status |-> row.status]
  /\ events = IF IsPaid THEN <<[kind |-> "checkout", sid |-> 1, tier |-> start.plan,
                                status |-> "active", cancel |-> FALSE]>> ELSE <<>>
  /\ deliveries = [k \in DOMAIN events |-> 1]
  /\ handled = DOMAIN events /\ open = {} /\ order = {}
  /\ job = [j \in Jobs |-> "new"] /\ tierSeen = [j \in Jobs |-> "none"]
  /\ peak = 0 /\ records = {} /\ used = [m \in Months |-> 0]
  /\ look = [j \in Jobs |-> [limit |-> 0, month |-> 0, todo |-> {}]]
  /\ alerts = {} /\ queued = [a \in Months \X Thresholds |-> 0]
  /\ faults = {}

-----------------------------------------------------------------------------
(* Stripe                                                                  *)

Happens(kind, sid, tier, status, cancel) ==
  /\ Len(events) < start.events
  /\ events' = Append(events, [kind |-> kind, sid |-> sid, tier |-> tier,
                               status |-> status, cancel |-> cancel])
  /\ deliveries' = Append(deliveries, 0)
  /\ UNCHANGED <<start, month, open, handled, order, row, usage, faults>>

(* A subscription that is bought gets an id that no other has had.         *)
Checkout(tier) ==
  LET sid == Len(events) + 1
  IN /\ stripe.sid = 0
     /\ stripe' = [sid |-> sid, tier |-> tier, status |-> "active"]
     /\ Happens("checkout", sid, tier, "active", FALSE)

(* A renewal, a failed payment, a change of the plan, a cancellation to    *)
(* come.                                                                   *)
Update(tier, status, cancel) ==
  /\ stripe.sid # 0
  /\ stripe' = [stripe EXCEPT !.tier = tier, !.status = status]
  /\ Happens("updated", stripe.sid, tier, status, cancel)

Delete ==
  /\ stripe.sid # 0
  /\ stripe' = [sid |-> 0, tier |-> "none", status |-> "none"]
  /\ Happens("deleted", stripe.sid, stripe.tier, "canceled", FALSE)

-----------------------------------------------------------------------------
(* handleStripeWebhook                                                     *)

Deliver(k) ==
  /\ deliveries[k] < MaxDeliveries /\ k \notin open
  /\ deliveries' = [deliveries EXCEPT ![k] = @ + 1]
  /\ faults' = faults \union {"plan"}
  /\ UNCHANGED <<start, month, stripe, events, usage>>

(* What comes late or again, and what is handled while another is.         *)
Disorder(k) ==
  (IF deliveries[k] > 0 THEN {"twice"} ELSE {})
  \union (IF \E l \in DOMAIN events : l < k /\ l \notin handled THEN {"late"} ELSE {})
  \union (IF open # {} THEN {"overlap"} ELSE {})

(* A checkout that a later checkout or deletion has overtaken, and one     *)
(* that is handled between the query and the update of a deletion.         *)
Misplaced(k) ==
  (IF \E l \in handled : l > k /\ events[l].kind # "updated" THEN {"outdated"} ELSE {})
  \union (IF \E l \in open : events[l].kind = "deleted" THEN {"across"} ELSE {})

HandleCheckout(k) ==
  /\ events[k].kind = "checkout"
  /\ Deliver(k)
  /\ order' = order \union Disorder(k) \union Misplaced(k)
  /\ row' = [plan |-> events[k].tier, sid |-> events[k].sid, status |-> "active",
             cancel |-> row.cancel]
  /\ handled' = handled \union {k}
  /\ UNCHANGED open

(* Mutant: the customer's row, whatever subscription it is about.          *)
FoundAny(sid) == row.plan # "none"

Found(sid) == row.sid = sid

FindRow(k) ==
  /\ events[k].kind # "checkout"
  /\ Deliver(k)
  /\ order' = order \union Disorder(k)
  /\ IF Found(events[k].sid)
     THEN open' = open \union {k} /\ UNCHANGED handled
     ELSE handled' = handled \union {k} /\ UNCHANGED open
  /\ UNCHANGED row

(* Mutant: the status is left as it was.                                   *)
UpdatedFlagOnly(e) == [row EXCEPT !.cancel = e.cancel]

Updated(e) == [row EXCEPT !.status = e.status, !.cancel = e.cancel]

(* Mutant: the plan stays.                                                 *)
DeletedKeepsPlan(e) == [row EXCEPT !.sid = 0, !.status = "canceled", !.cancel = FALSE]

Deleted(e) == [plan |-> "FREE", sid |-> 0, status |-> "canceled", cancel |-> FALSE]

WriteRow(k) ==
  /\ k \in open
  /\ open' = open \ {k}
  /\ row' = IF events[k].kind = "updated" THEN Updated(events[k]) ELSE Deleted(events[k])
  /\ handled' = handled \union {k}
  /\ faults' = faults \union {"plan"}
  /\ UNCHANGED <<start, month, stripe, events, deliveries, order, usage>>

-----------------------------------------------------------------------------
(* An export is created: through the API by way of checkUsageCap, by a     *)
(* schedule without it                                                     *)

InFlight == {j \in Jobs \ start.scheduled : job[j] = "running"}
GoTo(j, place) == job' = [job EXCEPT ![j] = place]

(* processSchedule asks for the plan's priority, not for its limit.        *)
QueueScheduled(j) ==
  /\ j \in start.jobs \intersect start.scheduled /\ job[j] = "new"
  /\ GoTo(j, "running")
  /\ UNCHANGED <<start, month, billing, tierSeen, peak, records, used, look, alerts, queued,
                 faults>>

ReadPlan(j) ==
  /\ j \in start.jobs \ start.scheduled /\ job[j] = "new"
  /\ tierSeen' = [tierSeen EXCEPT ![j] = row.plan]
  /\ GoTo(j, "checking")
  /\ UNCHANGED <<start, month, billing, peak, records, used, look, alerts, queued, faults>>

(* Mutant: an export more.                                                 *)
AllowedAtLimit(tier) == tier \in Paid \/ used[month] <= Limit["FREE"]

(* Paid plans are not capped.                                              *)
Allowed(tier) ==
  \/ tier \in Paid
  \/ used[month] < (IF tier = "none" THEN DefaultLimit ELSE Limit[tier])

CheckCap(j) ==
  /\ job[j] = "checking"
  /\ GoTo(j, IF Allowed(tierSeen[j]) THEN "running" ELSE "refused")
  /\ UNCHANGED <<start, month, billing, tierSeen, records, used, look, alerts, queued, faults>>
  /\ peak' = IF Cardinality(InFlight') > peak THEN Cardinality(InFlight') ELSE peak

-----------------------------------------------------------------------------
(* recordJobUsage and checkAndSendAlerts, when it is completed             *)

(* Mutant: the record of a job is not unique.                              *)
FreshAlways(j) == TRUE

Recorded == {r[1] : r \in records}
Fresh(j) == j \notin Recorded

Record(j) ==
  IF Fresh(j)
  THEN /\ used' = [used EXCEPT ![month] = @ + Rows]
       /\ records' = records \union {<<j, month>>}
  ELSE UNCHANGED <<used, records>>

RecordUsage(j) ==
  /\ job[j] = "running"
  /\ Record(j)
  /\ GoTo(j, "lookPlan")
  /\ UNCHANGED <<start, month, billing, tierSeen, peak, look, alerts, queued, faults>>

(* The completed event reaches both processes: the second call is ignored. *)
RecordAgain(j) ==
  /\ job[j] = "done"
  /\ Record(j)
  /\ GoTo(j, "again")
  /\ UNCHANGED <<start, month, billing, tierSeen, peak, look, alerts, queued, faults>>

LookAtPlan(j) ==
  /\ job[j] = "lookPlan"
  /\ IF row.plan = "none"
     THEN GoTo(j, "done") /\ UNCHANGED look
     ELSE /\ look' = [look EXCEPT ![j] = [limit |-> Limit[row.plan], month |-> month, todo |-> {}]]
          /\ GoTo(j, "lookUsage")
  /\ UNCHANGED <<start, month, billing, tierSeen, peak, records, used, alerts, queued, faults>>

(* Mutant: a threshold has to be passed.                                   *)
ReachedAbove(limit, total) == {t \in Thresholds : total * 100 > t * limit}

Reached(limit, total) == {t \in Thresholds : total * 100 >= t * limit}

(* The total is of the month it is by now. A customer without              *)
(* emailNotifications gets no alerts.                                      *)
LookAtUsage(j) ==
  /\ job[j] = "lookUsage"
  /\ \E notify \in BOOLEAN :
       LET todo == IF notify THEN Reached(look[j].limit, used[month]) ELSE {}
       IN /\ look' = [look EXCEPT ![j].todo = todo]
          /\ GoTo(j, IF todo = {} THEN "done" ELSE "alert")
          /\ faults' = IF notify THEN faults ELSE faults \union {"silent"}
  /\ UNCHANGED <<start, month, billing, tierSeen, peak, records, used, alerts, queued>>

Lowest(j) == CHOOSE t \in look[j].todo : \A s \in look[j].todo : t <= s
Alert(j) == <<look[j].month, Lowest(j)>>

Drop(j) ==
  /\ look' = [look EXCEPT ![j].todo = @ \ {Lowest(j)}]
  /\ GoTo(j, IF look[j].todo = {Lowest(j)} THEN "done" ELSE "alert")

(* Mutant: the alert is looked for and not claimed.                        *)
IsNewAlways(a) == TRUE

IsNew(a) == a \notin alerts

CreateAlert(j) ==
  /\ job[j] = "alert"
  /\ IF IsNew(Alert(j))
     THEN /\ alerts' = alerts \union {Alert(j)}
          /\ GoTo(j, "email") /\ UNCHANGED look
     ELSE Drop(j) /\ UNCHANGED alerts
  /\ UNCHANGED <<start, month, billing, tierSeen, peak, records, used, queued, faults>>

QueueEmail(j) ==
  /\ job[j] = "email"
  /\ queued' = [queued EXCEPT ![Alert(j)] = @ + 1]
  /\ Drop(j)
  /\ UNCHANGED <<start, month, billing, tierSeen, peak, records, used, alerts, faults>>

(* A query or the queue fails: it is logged, and nothing makes up for it.  *)
AlertFails(j) ==
  /\ \/ job[j] \in {"lookPlan", "lookUsage"} /\ GoTo(j, "done") /\ UNCHANGED look
     \/ job[j] \in {"alert", "email"} /\ Drop(j)
  /\ faults' = faults \union {"failed"}
  /\ UNCHANGED <<start, month, billing, tierSeen, peak, records, used, alerts, queued>>

(* Mutant: rounded down.                                                   *)
OverageDown(total, limit) == IF total > limit THEN (total - limit) \div Increment ELSE 0

(* calculateOverage: increments that are begun.                            *)
Overage(total, limit) ==
  IF total > limit THEN (total - limit + Increment - 1) \div Increment ELSE 0

-----------------------------------------------------------------------------
NextMonth ==
  /\ month < MaxMonth /\ start.jobs # {}
  /\ month' = month + 1
  /\ faults' = faults \union {"month"}
  /\ UNCHANGED <<start, billing, usage>>

JobStep(j) ==
  \/ QueueScheduled(j) \/ ReadPlan(j) \/ CheckCap(j) \/ RecordUsage(j) \/ RecordAgain(j)
  \/ LookAtPlan(j) \/ LookAtUsage(j) \/ CreateAlert(j) \/ QueueEmail(j) \/ AlertFails(j)

Next ==
  \/ \E t \in Paid : Checkout(t)
  \/ \E t \in Paid, s \in {"active", "past_due"}, c \in BOOLEAN : Update(t, s, c)
  \/ Delete
  \/ \E k \in DOMAIN events : HandleCheckout(k) \/ FindRow(k) \/ WriteRow(k)
  \/ \E j \in Jobs : JobStep(j)
  \/ NextMonth

Spec == Init /\ [][Next]_vars

-----------------------------------------------------------------------------
(* Properties                                                              *)

Plans == Paid \union {"FREE", "none"}
Statuses == {"active", "past_due", "canceled", "none"}
Orders == {"late", "twice", "overlap", "outdated", "across"}
Places == {"new", "checking", "refused", "running", "lookPlan", "lookUsage",
           "alert", "email", "done", "again"}

(* Types; an export is at an alert exactly while it has one to make.       *)
TypeOK ==
  /\ start \in Starts /\ month \in Months
  /\ stripe \in [sid : Nat, tier : Plans, status : Statuses]
  /\ events \in Seq([kind : {"checkout", "updated", "deleted"}, sid : Nat \ {0},
                     tier : Plans, status : Statuses, cancel : BOOLEAN])
  /\ deliveries \in [DOMAIN events -> Nat]
  /\ handled \union open \subseteq DOMAIN events
  /\ order \subseteq Orders
  /\ row \in [plan : Plans, sid : Nat, status : Statuses, cancel : BOOLEAN]
  /\ job \in [Jobs -> Places] /\ tierSeen \in [Jobs -> Plans]
  /\ peak \in Nat /\ used \in [Months -> Nat]
  /\ records \subseteq Jobs \X Months /\ alerts \subseteq Months \X Thresholds
  /\ look \in [Jobs -> [limit : Nat, month : Months, todo : SUBSET Thresholds]]
  /\ queued \in [Months \X Thresholds -> Nat]
  /\ faults \subseteq {"plan", "month", "failed", "silent"}
  /\ \A j \in Jobs : job[j] \in {"alert", "email"} <=> look[j].todo # {}

AllHandled == handled = DOMAIN events /\ open = {}

(* When Stripe's events were handled one after the other, as they were     *)
(* made and once, the customer is on a paid plan exactly while there is a  *)
(* subscription, and its status is Stripe's.                               *)
PaidAgrees ==
  order = {} /\ AllHandled =>
    /\ IsPaid <=> stripe.sid # 0
    /\ IsPaid => row.sid = stripe.sid /\ row.status = stripe.status

(* However late, repeated or overlapping Stripe's events are handled, the  *)
(* customer ends up on a paid plan exactly while there is a subscription,  *)
(* and on that one, as long as no checkout was handled after a later       *)
(* checkout or deletion, or during a deletion. When one was, nothing       *)
(* corrects the row: a checkout that comes again after its deletion gives  *)
(* back a plan that nobody pays for.                                       *)
SubscriptionTracked ==
  order \intersect {"outdated", "across"} = {} /\ AllHandled =>
    /\ IsPaid <=> stripe.sid # 0
    /\ IsPaid => row.sid = stripe.sid

(* Usage is the sum over the recorded exports, each once. [Property P1]    *)
CountedOnce ==
  /\ \A r, s \in records : r[1] = s[1] => r = s
  /\ \A m \in Months : used[m] = Rows * Cardinality({r \in records : r[2] = m})

(* Exports that were recorded in a month and had not passed the cap.       *)
Unchecked(m) == Cardinality({r \in records : r[2] = m /\ r[1] \in start.scheduled})

(* A customer on the free plan exceeds its limit by no more than what the  *)
(* API had under way at one time and the schedules exported in the month.  *)
OvershootIsInFlight ==
  start.plan = "FREE" /\ events = <<>> =>
    \A m \in Months : used[m] <= Limit["FREE"] - 1 + Rows * (peak + Unchecked(m))

(* An alert is queued at most once per month and threshold, whichever      *)
(* exports reach it together.                                              *)
AlertQueuedOnce == \A a \in Months \X Thresholds : queued[a] <= 1

(* When no alert check failed and neither plan nor month changed, each     *)
(* threshold that the usage has reached has its email, whatever order the  *)
(* exports recorded and looked in.                                         *)
ThresholdAlerted ==
  faults = {} /\ row.plan # "none" /\ (\A j \in Recorded : job[j] \in {"done", "again"}) =>
    \A t \in Thresholds :
      used[month] * 100 >= t * Limit[row.plan] => queued[<<month, t>>] = 1

(* The charge is for the least number of increments that covers the rows   *)
(* above the limit.                                                        *)
OverageIsLeast ==
  row.plan # "none" =>
    LET over == used[month] - Limit[row.plan]
        n == Overage(used[month], Limit[row.plan])
    IN n * Increment >= over /\ (n > 0 => (n - 1) * Increment < over)

(* Usage is what the exports had, each once, and what the check of the cap *)
(* lets through is bounded. Scheduled exports are not checked.             *)
UsageBounded == CountedOnce /\ OvershootIsInFlight

(* A threshold that is reached is told once: not twice, and not never.     *)
AlertedOnce == AlertQueuedOnce /\ ThresholdAlerted
=============================================================================
