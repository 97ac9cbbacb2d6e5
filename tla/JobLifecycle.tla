---------------------------- MODULE JobLifecycle ----------------------------
(***************************************************************************)
(* The life of an export job as a client of the API sees it: the status of *)
(* its row, whether its outcome is decided, and what the customer has been *)
(* told. ExportJobs implements it.                                         *)
(***************************************************************************)
CONSTANT Jobs

VARIABLES
  status,    \* "ABSENT", "QUEUED", "PROCESSING" or "COMPLETED"
  outcome,   \* "open", "completed" or "failed"
  told       \* the outcomes the customer has been told of

vars == <<status, outcome, told>>

Init ==
  /\ status = [j \in Jobs |-> "ABSENT"]
  /\ outcome = [j \in Jobs |-> "open"]
  /\ told = [j \in Jobs |-> {}]

Accept(j) ==
  /\ status[j] = "ABSENT"
  /\ status' = [status EXCEPT ![j] = "QUEUED"]
  /\ UNCHANGED <<outcome, told>>

Begin(j) ==
  /\ outcome[j] = "open"
  /\ status[j] = "QUEUED"
  /\ status' = [status EXCEPT ![j] = "PROCESSING"]
  /\ UNCHANGED <<outcome, told>>

(* A job may be given up at any time, even before it is accepted.          *)
GiveUp(j) ==
  /\ outcome[j] = "open"
  /\ outcome' = [outcome EXCEPT ![j] = "failed"]
  /\ UNCHANGED <<status, told>>

Complete(j) ==
  /\ outcome[j] = "open"
  /\ status[j] = "PROCESSING"
  /\ outcome' = [outcome EXCEPT ![j] = "completed"]
  /\ UNCHANGED <<status, told>>

Show(j) ==
  /\ outcome[j] = "completed"
  /\ status[j] = "PROCESSING"
  /\ status' = [status EXCEPT ![j] = "COMPLETED"]
  /\ UNCHANGED <<outcome, told>>

(* Completion is reported only once the row shows it.                      *)
Tell(j) ==
  /\ outcome[j] # "open"
  /\ outcome[j] = "completed" => status[j] = "COMPLETED"
  /\ told' = [told EXCEPT ![j] = @ \union {outcome[j]}]
  /\ UNCHANGED <<status, outcome>>

Next == \E j \in Jobs :
  Accept(j) \/ Begin(j) \/ GiveUp(j) \/ Complete(j) \/ Show(j) \/ Tell(j)

Spec == Init /\ [][Next]_vars
=============================================================================
