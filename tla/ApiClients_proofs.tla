-------------------------- MODULE ApiClients_proofs --------------------------
(***************************************************************************)
(* Proofs about the two clients of the API. UseExport: what the hook shows *)
(* is the call's that was made last, for any number of calls and whatever  *)
(* the component around the hook does, until a call is made while an       *)
(* earlier one can still act. McpTools: what is told of an export agrees   *)
(* with what was made, and an answer is of its time, for any number of     *)
(* calls and jobs.                                                         *)
(***************************************************************************)
EXTENDS UseExport, McpTools, FiniteSetTheorems, TLAPS

USE NoneAssumption, McpAssumption

-----------------------------------------------------------------------------
(* The hook: types                                                         *)

LEMMA UseTypesInit ==
  ASSUME Init
  PROVE  TypeOK
BY DEF Init, TypeOK, Running, Requests

LEMMA WithoutTimerTypes ==
  ASSUME TypeOK
  PROVE  /\ WithoutTimer \in [Calls -> Running \union {"none", "resolved", "rejected"}]
         /\ \A c \in Calls : WithoutTimer[c] = pc[c] \/ (pc[c] = "sleep" /\ WithoutTimer[c] = "stuck")
BY DEF TypeOK, WithoutTimer, Running, Requests

LEMMA RejectTypes ==
  ASSUME TypeOK, NEW c \in Calls, NEW shown \in {None, "QUEUED", "PROCESSING", "COMPLETED", "FAILED"},
         Reject(c, shown)
  PROVE  /\ pc' \in [Calls -> Running \union {"none", "resolved", "rejected"}]
         /\ controller' = None /\ timer' = timer /\ downloadUrl' = downloadUrl
         /\ error' \in BOOLEAN /\ isExporting' \in BOOLEAN
         /\ status' \in {None, "QUEUED", "PROCESSING", "COMPLETED", "FAILED"}
BY DEF TypeOK, Reject, Running, Requests

LEMMA UseTypesStep ==
  ASSUME TypeOK, [Next]_vars
  PROVE  TypeOK'
<1>0. Calls \subseteq Calls \union {None} /\ None \in Calls \union {None}
  OBVIOUS
<1>a. /\ "stuck" \in Running /\ "sleep" \in Running /\ "create" \in Running /\ "poll" \in Running
      /\ "download" \in Running
  BY DEF Running, Requests
<1>b. AbortCurrent => aborted' \subseteq Calls
  BY DEF AbortCurrent, TypeOK
<1>1. ASSUME NEW c \in Calls, Start(c) PROVE TypeOK'
  <2>1. pc' \in [Calls -> Running \union {"none", "resolved", "rejected"}]
    BY <1>1, <1>a, WithoutTimerTypes DEF Start
  <2>2. givenUp' \subseteq Calls /\ intruded' \in BOOLEAN
    BY <1>1 DEF Start, GiveUpOthers, InProgress, TypeOK
  <2>3. stale' \subseteq Calls
    BY <1>1 DEF Start, TypeOK
  <2>4. QED
    BY <1>0, <1>1, <1>b, <2>1, <2>2, <2>3 DEF Start, TypeOK
<1>2. ASSUME NEW c \in Calls, CallStep(c) PROVE TypeOK'
  <2>1. UNCHANGED <<aborted, stale, mounted, server, last, givenUp>> /\ intruded' \in BOOLEAN
    BY <1>2 DEF CallStep, CreateReturns, RequestFails, PollReturns, PollUnmounted, TimerFires,
                DownloadReturns, Writes, historyVars, TypeOK
  <2>2. CASE \E shown \in {None, "QUEUED", "PROCESSING", "COMPLETED", "FAILED"} : Reject(c, shown)
    BY <1>0, <2>1, <2>2, RejectTypes DEF TypeOK, historyVars
  <2>3. CASE ~ \E shown \in {None, "QUEUED", "PROCESSING", "COMPLETED", "FAILED"} : Reject(c, shown)
    <3>1. ~ Reject(c, status) /\ ~ Reject(c, "FAILED")
      BY <2>3 DEF TypeOK
    <3>2. CASE CreateReturns(c)
      BY <1>a, <2>1, <3>2 DEF CreateReturns, TypeOK, historyVars, refVars
    <3>3. CASE PollReturns(c)
      <4>1. CASE server[c] = "COMPLETED" /\ pc' = [pc EXCEPT ![c] = "download"]
                 /\ status' = server[c] /\ UNCHANGED <<refVars, isExporting, error, downloadUrl>>
        BY <1>a, <2>1, <4>1 DEF TypeOK, historyVars, refVars
      <4>2. CASE pc' = [pc EXCEPT ![c] = "sleep"] /\ timer' = c /\ status' = server[c]
                 /\ UNCHANGED <<controller, isExporting, error, downloadUrl>>
        BY <1>0, <1>a, <2>1, <4>2 DEF TypeOK, historyVars
      <4>3. QED
        BY <3>1, <3>3, <4>1, <4>2 DEF PollReturns
    <3>4. CASE TimerFires(c)
      BY <1>a, <2>1, <3>1, <3>4 DEF TimerFires, TypeOK, historyVars, refVars, stateVars
    <3>5. CASE DownloadReturns(c)
      BY <1>0, <2>1, <3>5 DEF DownloadReturns, TypeOK, historyVars
    <3>6. QED
      BY <1>2, <3>1, <3>2, <3>3, <3>4, <3>5 DEF CallStep, RequestFails, PollUnmounted
  <2>4. QED
    BY <2>2, <2>3
<1>3. ASSUME NEW c \in Calls, JobStep(c) PROVE TypeOK'
  BY <1>3 DEF JobStep, TypeOK, refVars, stateVars, historyVars
<1>4. CASE Cancel
  BY <1>0, <1>4, <1>b, WithoutTimerTypes DEF Cancel, TypeOK, InProgress
<1>5. CASE Unmount
  BY <1>5, <1>b, WithoutTimerTypes DEF Unmount, TypeOK, refVars, stateVars, historyVars
<1>6. CASE UNCHANGED vars
  BY <1>6 DEF vars, TypeOK, refVars, stateVars, historyVars
<1>7. QED
  BY <1>1, <1>2, <1>3, <1>4, <1>5, <1>6 DEF Next

(* TypeOK: at all times every part of the hook's state is of its kind; the *)
(* references hold a call or nothing.                                      *)
THEOREM UseTypesHold == Spec => []TypeOK
BY UseTypesInit, UseTypesStep, PTL DEF Spec

-----------------------------------------------------------------------------
(* What the hook shows is the last call's                                  *)

Active == Requests \union {"sleep"}

(* A call that was not made yet is nobody's.                               *)
CallsKnown == \A c \in Calls : pc[c] = "none" => c \notin givenUp /\ c # last

(* A call that acts and is not the last was given up, and so was one that  *)
(* sleeps for ever.                                                        *)
OthersGivenUp ==
  \A c \in Calls : (pc[c] \in Active /\ c # last) \/ pc[c] = "stuck" => c \in givenUp

(* The flag, the error, the link and the status are the last call's.       *)
ShowsLast ==
  /\ isExporting <=> last # None /\ pc[last] \in Active /\ last \notin givenUp
  /\ last # None => (error <=> pc[last] = "rejected")
  /\ downloadUrl # None => downloadUrl = last
  /\ last # None /\ pc[last] = "rejected" /\ last \notin stale => status = "FAILED"

HookInv == CallsKnown /\ (mounted => OthersGivenUp) /\ (mounted /\ ~intruded => ShowsLast)

LEMMA HookInit ==
  ASSUME Init
  PROVE  HookInv
BY DEF Init, HookInv, CallsKnown, OthersGivenUp, ShowsLast, Active, Requests

(* The call in progress is one that acts or one that never will.           *)
LEMMA CallStepIsOfActive ==
  ASSUME TypeOK, NEW c \in Calls, CallStep(c)
  PROVE  /\ pc[c] \in Active
         /\ UNCHANGED <<aborted, stale, mounted, server, last, givenUp>>
         /\ \/ intruded' = (intruded \/ c # last)
            \/ pc' = [pc EXCEPT ![c] = "poll"] /\ UNCHANGED <<stateVars, intruded>>
BY DEF CallStep, CreateReturns, RequestFails, PollReturns, PollUnmounted, TimerFires,
       DownloadReturns, Active, Requests, historyVars, Writes

(* Where a step of a call leads: on, or to one of the two ends.            *)
LEMMA CallStepKinds ==
  ASSUME TypeOK, NEW c \in Calls, CallStep(c), mounted
  PROVE  \/ /\ \E next \in Active : pc' = [pc EXCEPT ![c] = next]
            /\ UNCHANGED <<isExporting, error, downloadUrl>>
         \/ /\ pc' = [pc EXCEPT ![c] = "rejected"]
            /\ error' = TRUE /\ isExporting' = FALSE /\ downloadUrl' = downloadUrl
            /\ c \notin stale => status' = "FAILED"
         \/ /\ pc' = [pc EXCEPT ![c] = "resolved"]
            /\ isExporting' = FALSE /\ error' = error /\ downloadUrl' = c
<1>0. "poll" \in Active /\ "sleep" \in Active /\ "download" \in Active
  BY DEF Active, Requests
<1>1. CASE \E shown : Reject(c, shown)
  BY <1>1 DEF Reject
<1>2. CASE CreateReturns(c)
  BY <1>0, <1>2 DEF CreateReturns
<1>3. CASE PollReturns(c)
  BY <1>0, <1>1, <1>3 DEF PollReturns
<1>4. CASE TimerFires(c)
  BY <1>0, <1>1, <1>4 DEF TimerFires, stateVars
<1>5. CASE DownloadReturns(c)
  BY <1>5 DEF DownloadReturns
<1>6. QED
  BY <1>1, <1>2, <1>3, <1>4, <1>5 DEF CallStep, RequestFails, PollUnmounted

LEMMA HookStep ==
  ASSUME TypeOK, HookInv, [Next]_vars
  PROVE  HookInv'
<1>0. /\ pc \in [Calls -> Running \union {"none", "resolved", "rejected"}]
      /\ last \in Calls \union {None} /\ givenUp \subseteq Calls
  BY DEF TypeOK
<1>a. /\ "none" \notin Active /\ "resolved" \notin Active /\ "rejected" \notin Active
      /\ "stuck" \notin Active /\ "create" \in Active /\ "sleep" \in Active
      /\ Running = Active \union {"stuck"}
  BY DEF Active, Running, Requests
<1>b. \A c \in Calls : WithoutTimer[c] = pc[c] \/ (pc[c] = "sleep" /\ WithoutTimer[c] = "stuck")
  BY WithoutTimerTypes
<1>c. WithoutTimer \in [Calls -> Running \union {"none", "resolved", "rejected"}]
  BY WithoutTimerTypes
<1>1. ASSUME NEW c \in Calls, Start(c) PROVE HookInv'
  <2>1. /\ pc' = [WithoutTimer EXCEPT ![c] = "create"] /\ last' = c /\ pc[c] = "none"
        /\ isExporting' = TRUE /\ error' = FALSE /\ downloadUrl' = None
        /\ givenUp' = givenUp \union InProgress /\ mounted' = mounted /\ mounted
    BY <1>1 DEF Start, GiveUpOthers, MayStart
  <2>2. pc'[c] = "create" /\ \A d \in Calls : d # c => pc'[d] = WithoutTimer[d]
    BY <1>c, <2>1
  <2>3. c \notin InProgress /\ c \notin givenUp
    BY <1>a, <2>1 DEF InProgress, HookInv, CallsKnown
  <2>4. CallsKnown'
    <3>1. ASSUME NEW d \in Calls, pc'[d] = "none" PROVE d # c /\ pc[d] = "none"
      BY <1>b, <2>2, <3>1
    <3>2. ASSUME NEW d \in Calls, pc[d] = "none" PROVE d \notin InProgress /\ d \notin givenUp
      BY <1>a, <3>2 DEF InProgress, HookInv, CallsKnown
    <3>3. QED
      BY <2>1, <3>1, <3>2 DEF CallsKnown
  <2>5. OthersGivenUp'
    <3>1. ASSUME NEW d \in Calls, d # c, pc'[d] \in Active \union {"stuck"} PROVE d \in InProgress
      BY <1>a, <1>b, <2>2, <3>1 DEF InProgress
    <3>2. QED
      BY <1>a, <2>1, <2>2, <3>1 DEF OthersGivenUp
  <2>6. ShowsLast'
    BY <1>a, <2>1, <2>2, <2>3 DEF ShowsLast
  <2>7. QED
    BY <2>4, <2>5, <2>6 DEF HookInv
<1>2. ASSUME NEW c \in Calls, CallStep(c) PROVE HookInv'
  <2>1. pc[c] \in Active /\ UNCHANGED <<aborted, stale, mounted, server, last, givenUp>>
    BY <1>2, CallStepIsOfActive
  <2>2. PICK v : pc' = [pc EXCEPT ![c] = v] /\ v \notin {"none", "stuck"}
    BY <1>2 DEF CallStep, CreateReturns, RequestFails, PollReturns, PollUnmounted, TimerFires,
                DownloadReturns, Reject
  <2>3. pc'[c] = v /\ \A d \in Calls : d # c => pc'[d] = pc[d]
    BY <1>0, <2>2
  <2>4. CallsKnown'
    BY <2>1, <2>2, <2>3 DEF HookInv, CallsKnown
  <2>5. mounted' => OthersGivenUp'
    BY <2>1, <2>2, <2>3 DEF HookInv, OthersGivenUp
  <2>6. ASSUME mounted, ~ intruded' PROVE ShowsLast'
    <3>1. CASE pc' = [pc EXCEPT ![c] = "poll"] /\ UNCHANGED <<stateVars, intruded>>
      <4>1. ShowsLast /\ pc'[c] = "poll" /\ "poll" \in Active /\ "poll" # "rejected"
        BY <1>0, <2>6, <3>1 DEF HookInv, Active, Requests
      <4>2. last # None => (pc'[last] \in Active <=> pc[last] \in Active)
        BY <1>0, <2>1, <2>3, <4>1
      <4>3. last # None => (pc'[last] = "rejected" <=> pc[last] = "rejected")
        BY <1>0, <1>a, <2>1, <2>3, <4>1
      <4>4. QED
        BY <2>1, <3>1, <4>1, <4>2, <4>3 DEF ShowsLast, stateVars
    <3>2. CASE intruded' = (intruded \/ c # last)
      <4>1. ShowsLast /\ c = last /\ last # None
        BY <2>6, <3>2, NoneAssumption DEF HookInv
      <4>2. CASE /\ \E next \in Active : pc' = [pc EXCEPT ![c] = next]
                 /\ UNCHANGED <<isExporting, error, downloadUrl>>
        <5>1. pc'[c] \in Active
          BY <1>0, <4>2
        <5>2. QED
          BY <1>a, <2>1, <2>3, <4>1, <4>2, <5>1 DEF ShowsLast
      <4>3. CASE /\ pc' = [pc EXCEPT ![c] = "rejected"]
                 /\ error' = TRUE /\ isExporting' = FALSE /\ downloadUrl' = downloadUrl
                 /\ c \notin stale => status' = "FAILED"
        <5>1. pc'[c] = "rejected"
          BY <1>0, <4>3
        <5>2. QED
          BY <1>a, <2>1, <2>3, <4>1, <4>3, <5>1 DEF ShowsLast
      <4>4. CASE /\ pc' = [pc EXCEPT ![c] = "resolved"]
                 /\ isExporting' = FALSE /\ error' = error /\ downloadUrl' = c
        <5>1. pc'[c] = "resolved"
          BY <1>0, <4>4
        <5>2. QED
          BY <1>a, <2>1, <2>3, <4>1, <4>4, <5>1 DEF ShowsLast
      <4>5. QED
        BY <1>2, <2>6, <4>2, <4>3, <4>4, CallStepKinds
    <3>3. QED
      BY <1>2, <3>1, <3>2, CallStepIsOfActive
  <2>7. QED
    BY <2>1, <2>4, <2>5, <2>6 DEF HookInv
<1>3. ASSUME NEW c \in Calls, JobStep(c) PROVE HookInv'
  BY <1>3 DEF JobStep, HookInv, CallsKnown, OthersGivenUp, ShowsLast, stateVars, historyVars
<1>4. CASE Cancel
  <2>1. /\ pc' = WithoutTimer /\ givenUp' = givenUp \union InProgress
        /\ UNCHANGED <<stale, mounted, error, downloadUrl, last, intruded>>
        /\ mounted => isExporting' = FALSE /\ status' = "FAILED"
    BY <1>4 DEF Cancel
  <2>2. \A c \in Calls : c \in InProgress <=> pc[c] \in Active \/ pc[c] = "stuck"
    BY <1>a DEF InProgress
  <2>3. CallsKnown'
    BY <1>a, <1>b, <2>1, <2>2 DEF HookInv, CallsKnown
  <2>4. OthersGivenUp'
    BY <1>a, <1>b, <2>1, <2>2 DEF OthersGivenUp
  <2>5. ASSUME mounted, ~ intruded PROVE ShowsLast'
    <3>1. ShowsLast
      BY <2>5 DEF HookInv
    <3>2. ASSUME last # None PROVE /\ pc'[last] \in Active => last \in givenUp'
                                   /\ pc'[last] = "rejected" <=> pc[last] = "rejected"
      BY <1>0, <1>a, <1>b, <2>1, <2>2, <3>2
    <3>3. QED
      BY <2>1, <2>5, <3>1, <3>2 DEF ShowsLast
  <2>6. QED
    BY <2>1, <2>3, <2>4, <2>5 DEF HookInv
<1>5. CASE Unmount
  <2>1. mounted' = FALSE /\ pc' = WithoutTimer /\ UNCHANGED <<last, givenUp>>
    BY <1>5 DEF Unmount, historyVars
  <2>2. QED
    BY <1>b, <2>1 DEF HookInv, CallsKnown
<1>6. CASE UNCHANGED vars
  BY <1>6 DEF vars, HookInv, CallsKnown, OthersGivenUp, ShowsLast, stateVars, historyVars
<1>7. QED
  BY <1>1, <1>2, <1>3, <1>4, <1>5, <1>6 DEF Next

LEMMA HookHolds == Spec => []HookInv
BY HookInit, HookStep, UseTypesHold, PTL DEF Spec

(* InProgressShown: the hook says that it is exporting if and only if a    *)
(* call is in progress that was not given up, for any number of calls that *)
(* overlap, are cancelled or fail, until one that is not the last writes   *)
(* to the hook's state; and from the next call on again.                   *)
THEOREM FlagIsTrue == Spec => []InProgressShown
<1>1. ASSUME TypeOK, HookInv PROVE InProgressShown
  <2>1. SUFFICES ASSUME mounted, ~ intruded PROVE isExporting <=> InProgress \ givenUp # {}
    BY DEF InProgressShown
  <2>2. OthersGivenUp /\ ShowsLast
    BY <1>1, <2>1 DEF HookInv
  <2>3. \A c \in Calls : c \in InProgress <=> pc[c] \in Active \/ pc[c] = "stuck"
    BY DEF InProgress, Active, Running
  <2>4. InProgress \subseteq Calls /\ last \in Calls \union {None}
    BY <1>1 DEF InProgress, TypeOK
  <2>5. ASSUME isExporting PROVE last \in InProgress \ givenUp
    BY <2>2, <2>3, <2>4, <2>5 DEF ShowsLast
  <2>6. ASSUME NEW c \in InProgress \ givenUp PROVE isExporting
    <3>1. c \in Calls /\ c = last /\ pc[c] \in Active
      BY <2>2, <2>3, <2>4 DEF OthersGivenUp
    <3>2. QED
      BY <2>2, <2>6, <3>1 DEF ShowsLast
  <2>7. QED
    BY <2>5, <2>6
<1>2. QED
  BY <1>1, UseTypesHold, HookHolds, PTL

(* OutcomeIsOfLast: the error, the link and the status that the hook and   *)
(* the button show are those of the call made last, with the same          *)
(* exception, and for the status that of a call made while FAILED was      *)
(* shown.                                                                  *)
THEOREM OutcomeIsTrue == Spec => []OutcomeIsOfLast
<1>1. HookInv => OutcomeIsOfLast
  BY DEF HookInv, ShowsLast, OutcomeIsOfLast, ErrorIsOfLast, LinkIsOfLast, RejectionShown
<1>2. QED
  BY <1>1, HookHolds, PTL

-----------------------------------------------------------------------------
(* The MCP server: its inductive invariant                                 *)

(* Jobs are made in their order.                                           *)
MadeInOrder == \E m \in 0..MaxJobs : Made = 1..m

(* A job that has a row was queued by a call.                              *)
MadeByCalls == \A j \in Jobs \ Made : job[j].status = "none"

MadeBy(c) == {j \in Jobs : job[j].by = c}

(* A call makes nothing before its request is sent, nothing twice, and     *)
(* nothing if it is refused; and what it is told of is what it made.       *)
ToldOf(c, reply) ==
  /\ reply.error \in {"input", "api"} => MadeBy(c) = {}
  /\ reply.error = "none" /\ call[c].tool = "create_export" =>
       reply.job \in Jobs /\ job[reply.job].by = c

Agrees(c) ==
  /\ \A i, j \in MadeBy(c) : i = j
  /\ call[c].place \in {"idle", "sent"} => MadeBy(c) = {}
  /\ call[c].place # "answered" => call[c].reply.error = "none"
  /\ call[c].place = "back" => ToldOf(c, call[c].response)
  /\ call[c].place = "answered" => ToldOf(c, call[c].reply)

IInv == McpTypeOK /\ MadeInOrder /\ MadeByCalls /\ \A c \in ToolCalls : Agrees(c)

(* What a call knows of its job is of the time since it began.             *)
Timely(c) ==
  /\ call[c].place = "sent" =>
       /\ call[c].from \in UpTo(StatusOf(call[c].id))
       /\ HasFile(call[c].id) => call[c].file
  /\ call[c].place = "back" /\ call[c].response.error = "none" =>
       /\ call[c].tool = "get_job_status" =>
            /\ call[c].from \in UpTo(call[c].response.status)
            /\ call[c].response.status \in UpTo(StatusOf(call[c].id))
       /\ call[c].tool = "download_export" => call[c].file

TimeInv == \A c \in ToolCalls : Timely(c)

CallType ==
  [tool : Tools \union {"none"}, type : {"csv", "json", "xlsx", "none"},
   id : 0..MaxJobs, place : {"idle", "sent", "back", "answered"},
   response : Replies, reply : Replies, from : Statuses, file : BOOLEAN]

-----------------------------------------------------------------------------
(* What the steps do, field by field.                                      *)

LEMMA Values ==
  /\ NoReply \in Replies
  /\ Idle \in CallType
  /\ \A j : StatusOf(j) = IF j \in Jobs THEN job[j].status ELSE "none"
<1>1. NoReply \in Replies
  BY DEF NoReply, Replies, Statuses
<1>2. Idle \in CallType
  BY <1>1 DEF Idle, CallType, Statuses
<1>3. QED
  BY <1>1, <1>2 DEF StatusOf

LEMMA StatusTypes ==
  ASSUME McpTypeOK
  PROVE  \A j : StatusOf(j) \in Statuses /\ HasFile(j) \in BOOLEAN
BY DEF McpTypeOK, StatusOf, HasFile, Statuses


(* A record with other values in its fields.                               *)
LEMMA FailureFacts ==
  \A kind \in {"none", "input", "api", "server", "network"} :
    Failure(kind) \in Replies /\ Failure(kind).error = kind
BY DEF Failure, NoReply, Replies, Statuses

LEMMA CallToolFacts ==
  ASSUME McpTypeOK, NEW c \in ToolCalls, CallTool(c)
  PROVE  /\ job' = job /\ call' = [call EXCEPT ![c] = call'[c]] /\ call'[c] \in CallType
         /\ call[c].place = "idle"
         /\ \/ call'[c].place = "answered" /\ call'[c].reply.error = "input"
            \/ /\ call'[c].place = "sent" /\ call'[c].reply.error = "none"
               /\ call'[c].from = StatusOf(call'[c].id)
               /\ call'[c].file = HasFile(call'[c].id)
<1>1. PICK tool \in Tools, type \in {"csv", "json", "xlsx", "none"}, id \in 0..MaxJobs, valid \in BOOLEAN :
        call' = [call EXCEPT ![c] = Begun(tool, type, id, valid)]
  <2>1. \A t \in Tools : Types(t) \subseteq {"csv", "json", "xlsx", "none"} /\ Ids(t) \subseteq 0..MaxJobs
    BY DEF Types, Ids, Made, Jobs
  <2>2. QED
    BY <2>1 DEF CallTool
<1>2. call'[c] = Begun(tool, type, id, valid)
  BY <1>1 DEF McpTypeOK
<1>3. Begun(tool, type, id, valid) \in CallType
  <2>1. StatusOf(id) \in Statuses /\ HasFile(id) \in BOOLEAN
    BY StatusTypes
  <2>2. Failure("input") \in Replies
    BY FailureFacts
  <2>3. (IF valid THEN NoReply ELSE Failure("input")) \in Replies
    BY <2>2, Values
  <2>4. QED
    BY <2>1, <2>3, Values DEF Begun, CallType
<1>4. /\ Begun(tool, type, id, valid).id = id
      /\ Begun(tool, type, id, valid).from = StatusOf(id)
      /\ Begun(tool, type, id, valid).file = HasFile(id)
      /\ valid => Begun(tool, type, id, valid).place = "sent" /\ Begun(tool, type, id, valid).reply = NoReply
      /\ ~ valid => Begun(tool, type, id, valid).place = "answered"
                    /\ Begun(tool, type, id, valid).reply = Failure("input")
  BY DEF Begun
<1>5. NoReply.error = "none" /\ Failure("input").error = "input"
  BY FailureFacts DEF NoReply
<1>6. job' = job /\ call[c].place = "idle"
  BY DEF CallTool
<1>7. QED
  BY <1>1, <1>2, <1>3, <1>4, <1>5, <1>6

LEMMA GoesFacts ==
  ASSUME McpTypeOK, NEW c \in ToolCalls, NEW place \in {"sent", "answered"}, NEW reply \in Replies,
         Goes(c, place, reply)
  PROVE  /\ call' = [call EXCEPT ![c] = call'[c]] /\ call'[c] \in CallType
         /\ call'[c].place = place /\ call'[c].reply = reply
         /\ call'[c].tool = call[c].tool /\ call'[c].id = call[c].id
<1>1. call[c] \in CallType
  BY DEF McpTypeOK, CallType
<1>2. call'[c] = [call[c] EXCEPT !.place = place, !.response = NoReply, !.reply = reply,
                                 !.from = "none", !.file = FALSE]
  BY DEF Goes, McpTypeOK
<1>3. QED
  BY <1>1, <1>2, Values DEF Goes, CallType, Statuses, McpTypeOK

LEMMA RespondFacts ==
  ASSUME McpTypeOK, NEW c \in ToolCalls, NEW response \in Replies, Respond(c, response)
  PROVE  /\ call' = [call EXCEPT ![c] = call'[c]] /\ call'[c] \in CallType
         /\ call'[c].place = "back" /\ call'[c].response = response
         /\ \A f \in {"tool", "type", "id", "reply", "from", "file"} : call'[c][f] = call[c][f]
<1>1. call[c] \in CallType
  BY DEF McpTypeOK, CallType
<1>2. call'[c] = [call[c] EXCEPT !.place = "back", !.response = response]
  BY DEF Respond, McpTypeOK
<1>3. QED
  BY <1>1, <1>2 DEF Respond, CallType, McpTypeOK

(* The next job is one that there is not yet.                              *)
LEMMA NextJob ==
  ASSUME MadeInOrder, Made # Jobs
  PROVE  /\ Cardinality(Made) + 1 \in Jobs \ Made
         /\ Made \union {Cardinality(Made) + 1} = 1..(Cardinality(Made) + 1)
<1>1. PICK m \in 0..MaxJobs : Made = 1..m
  BY DEF MadeInOrder
<1>2. Cardinality(1..m) = m
  BY FS_Interval
<1>3. Cardinality(Made) = m
  BY <1>1, <1>2, Zenon
<1>4. m # MaxJobs
  BY <1>1 DEF Jobs
<1>5. m + 1 \in Jobs \ Made /\ Made \union {m + 1} = 1..(m + 1)
  BY <1>1, <1>4 DEF Jobs
<1>6. QED
  BY <1>3, <1>5

(* The API answers a request, and a job may be made of it.                 *)
LEMMA ApiFacts ==
  ASSUME McpTypeOK, MadeInOrder, NEW c \in ToolCalls, Api(c)
  PROVE  /\ call[c].place = "sent" /\ call'[c].place = "back"
         /\ call' = [call EXCEPT ![c] = call'[c]] /\ call'[c] \in CallType
         /\ \A f \in {"tool", "type", "id", "reply", "from", "file"} : call'[c][f] = call[c][f]
         /\ \/ /\ job' = job
               /\ \/ call'[c].response.error \in {"api", "server"}
                  \/ /\ call'[c].response.error = "none" /\ call[c].tool # "create_export"
                     /\ call[c].tool = "get_job_status" =>
                          call'[c].response.status = StatusOf(call[c].id)
                     /\ call[c].tool = "download_export" => HasFile(call[c].id)
            \/ /\ call[c].tool = "create_export"
               /\ \E j \in Jobs \ Made, row \in {"none", "QUEUED"} :
                    /\ Made \union {j} = 1..j
                    /\ job' = [job EXCEPT ![j] = [status |-> row, file |-> FALSE, by |-> c]]
                    /\ \/ call'[c].response.error = "server"
                       \/ call'[c].response.error = "none" /\ call'[c].response.job = j
<1> DEFINE Rest(response) ==
             /\ call' = [call EXCEPT ![c] = call'[c]] /\ call'[c] \in CallType
             /\ call'[c].place = "back" /\ call'[c].response = response
             /\ \A f \in {"tool", "type", "id", "reply", "from", "file"} : call'[c][f] = call[c][f]
<1>1. \A response \in Replies : Respond(c, response) => Rest(response)
  BY RespondFacts
<1>2. /\ Failure("api") \in Replies /\ Failure("api").error = "api"
      /\ Failure("server") \in Replies /\ Failure("server").error = "server"
  BY FailureFacts
<1>3. CASE /\ Respond(c, Failure("api")) \/ Respond(c, Failure("server"))
           /\ job' = job /\ call[c].place = "sent"
  <2>1. Rest(Failure("api")) \/ Rest(Failure("server"))
    BY <1>1, <1>2, <1>3
  <2>2. QED
    BY <1>2, <1>3, <2>1
<1>4. CASE Create(c)
  <2>1. CASE /\ call[c].type \in {"csv", "json"} /\ Made # Jobs
             /\ \/ /\ Queue(c, "QUEUED")
                   /\ Respond(c, [NoReply EXCEPT !.job = Cardinality(Made) + 1, !.status = "QUEUED"])
                \/ /\ \E row \in {"none", "QUEUED"} : Queue(c, row)
                   /\ Respond(c, Failure("server"))
    <3>1. PICK j : j = Cardinality(Made) + 1
      OBVIOUS
    <3>2. j \in Jobs \ Made /\ Made \union {j} = 1..j
      BY <2>1, <3>1, NextJob
    <3>3. CASE /\ Queue(c, "QUEUED")
               /\ Respond(c, [NoReply EXCEPT !.job = Cardinality(Made) + 1, !.status = "QUEUED"])
      <4>1. PICK response : response = [NoReply EXCEPT !.job = j, !.status = "QUEUED"]
        OBVIOUS
      <4>2. response \in Replies /\ response.error = "none" /\ response.job = j
        <5>1. j \in 0..MaxJobs
          BY <3>2 DEF Jobs
        <5>2. response = [error |-> "none", job |-> j, status |-> "QUEUED", jobs |-> Undefined, hasMore |-> "no"]
          BY <4>1 DEF NoReply
        <5>3. QED
          BY <5>1, <5>2 DEF Replies, Statuses
      <4>3. Rest(response)
        BY <1>1, <3>1, <3>3, <4>1, <4>2
      <4>4. job' = [job EXCEPT ![j] = [status |-> "QUEUED", file |-> FALSE, by |-> c]]
        BY <3>1, <3>3 DEF Queue
      <4>5. QED
        BY <1>4, <3>2, <4>2, <4>3, <4>4 DEF Create
    <3>4. CASE /\ \E row \in {"none", "QUEUED"} : Queue(c, row)
               /\ Respond(c, Failure("server"))
      <4>1. PICK row \in {"none", "QUEUED"} :
              job' = [job EXCEPT ![j] = [status |-> row, file |-> FALSE, by |-> c]]
        BY <3>1, <3>4 DEF Queue
      <4>2. Rest(Failure("server"))
        BY <1>1, <1>2, <3>4
      <4>3. QED
        BY <1>2, <1>4, <3>2, <4>1, <4>2 DEF Create
    <3>5. QED
      BY <2>1, <3>3, <3>4
  <2>2. QED
    BY <1>3, <1>4, <2>1 DEF Create
<1>5. CASE GetStatus(c)
  <2>1. CASE StatusOf(call[c].id) # "none"
    <3>1. PICK response : response = [NoReply EXCEPT !.job = call[c].id, !.status = StatusOf(call[c].id)]
      OBVIOUS
    <3>2. call[c].id \in 0..MaxJobs
      BY <2>1 DEF StatusOf, Jobs
    <3>3. StatusOf(call[c].id) \in Statuses
      BY StatusTypes
    <3>4. response \in Replies /\ response.error = "none" /\ response.status = StatusOf(call[c].id)
      BY <3>1, <3>2, <3>3 DEF NoReply, Replies, Statuses
    <3>5. Rest(response)
      BY <1>1, <1>5, <2>1, <3>1, <3>4 DEF GetStatus
    <3>6. QED
      BY <1>5, <3>4, <3>5 DEF GetStatus
  <2>2. CASE StatusOf(call[c].id) = "none"
    BY <1>3, <1>5, <2>2 DEF GetStatus
  <2>3. QED
    BY <2>1, <2>2
<1>6. CASE Download(c)
  <2>1. CASE HasFile(call[c].id)
    <3>1. PICK response : response = [NoReply EXCEPT !.job = call[c].id, !.status = "link"]
      OBVIOUS
    <3>2. response \in Replies /\ response.error = "none"
      <4>1. PICK id : id = call[c].id
        OBVIOUS
      <4>2. id \in 0..MaxJobs
        BY <2>1, <4>1 DEF HasFile, Jobs
      <4>3. response = [error |-> "none", job |-> id, status |-> "link", jobs |-> Undefined, hasMore |-> "no"]
        BY <3>1, <4>1 DEF NoReply
      <4>4. QED
        BY <4>2, <4>3 DEF Replies, Statuses
    <3>3. Rest(response)
      BY <1>1, <1>6, <2>1, <3>1, <3>2 DEF Download
    <3>4. QED
      BY <1>6, <2>1, <3>2, <3>3 DEF Download
  <2>2. CASE ~ HasFile(call[c].id)
    BY <1>3, <1>6, <2>2 DEF Download
  <2>3. QED
    BY <2>1, <2>2
<1>7. CASE List(c)
  <2>1. Rest(NoReply)
    BY <1>1, <1>7, Values DEF List
  <2>2. NoReply.error = "none"
    BY DEF NoReply
  <2>3. QED
    BY <1>7, <2>1, <2>2 DEF List
<1>8. QED
  BY <1>3, <1>4, <1>5, <1>6, <1>7 DEF Api, Refuse

LEMMA ReceiveFacts ==
  ASSUME McpTypeOK, NEW c \in ToolCalls, Receive(c)
  PROVE  /\ job' = job /\ call[c].place = "back" /\ call'[c].place = "answered"
         /\ call' = [call EXCEPT ![c] = call'[c]] /\ call'[c] \in CallType
         /\ call'[c].tool = call[c].tool /\ call'[c].id = call[c].id
         /\ call'[c].reply.error = call[c].response.error
         /\ call[c].response.error = "none" =>
              /\ call'[c].reply.job = call[c].response.job
              /\ call'[c].reply.status = call[c].response.status
<1> DEFINE body == call[c].response
           reply == IF Ok(Body(c)) THEN [Body(c) EXCEPT !.error = "none", !.hasMore = HasMore(Body(c))]
                                   ELSE Failure(Body(c).error)
<1>1. PICK r \in Replies : r = body
  BY DEF McpTypeOK
<1>2. Goes(c, "answered", reply) /\ job' = job /\ call[c].place = "back"
  BY DEF Receive
<1>3. reply \in Replies /\ reply.error = r.error
      /\ (r.error = "none" => reply.job = r.job /\ reply.status = r.status)
  <2>1. CASE r.error = "none"
    <3>1. PICK more \in {"yes", "no"} : more = HasMore(r)
      BY DEF HasMore, Replies
    <3>2. reply = [r EXCEPT !.error = "none", !.hasMore = more]
      BY <1>1, <2>1, <3>1 DEF Ok, Body
    <3>3. QED
      BY <2>1, <3>2 DEF Replies
  <2>2. CASE r.error # "none"
    <3>1. r.error \in {"none", "input", "api", "server", "network"}
      BY DEF Replies
    <3>2. reply = Failure(r.error)
      BY <1>1, <2>2 DEF Ok, Body
    <3>3. QED
      BY <2>2, <3>1, <3>2, FailureFacts
  <2>3. QED
    BY <2>1, <2>2
<1> HIDE DEF reply
<1>4. QED
  BY <1>1, <1>2, <1>3, GoesFacts

LEMMA LoseFacts ==
  ASSUME McpTypeOK, NEW c \in ToolCalls, Lose(c)
  PROVE  /\ job' = job /\ call[c].place \in {"sent", "back"} /\ call'[c].place = "answered"
         /\ call' = [call EXCEPT ![c] = call'[c]] /\ call'[c] \in CallType
         /\ call'[c].reply.error = "network"
<1>1. Goes(c, "answered", Failure("network")) /\ job' = job /\ call[c].place \in {"sent", "back"}
  BY DEF Lose, AfterLoss
<1>2. Failure("network") \in Replies /\ Failure("network").error = "network"
  BY FailureFacts
<1>3. QED
  BY <1>1, <1>2, GoesFacts

LEMMA JobStepFacts ==
  ASSUME McpTypeOK, NEW j \in Jobs, ApiJobStep(j)
  PROVE  /\ job' = [job EXCEPT ![j] = job'[j]]
         /\ job'[j] \in [status : Statuses, file : BOOLEAN, by : 0..MaxCalls]
         /\ job'[j].by = job[j].by
         /\ job[j].status \in UpTo(job'[j].status)
         /\ job'[j].status = "none" <=> job[j].status = "none"
         /\ call' \in [ToolCalls -> CallType]
         /\ \A c \in ToolCalls :
              /\ \A f \in {"tool", "type", "id", "place", "response", "reply", "from"} : call'[c][f] = call[c][f]
              /\ call[c].place # "sent" => call'[c].file = call[c].file
              /\ call[c].place = "sent" =>
                   call'[c].file = (call[c].file \/ (call[c].id = j /\ job'[j].file))
<1>1. PICK s \in Statuses, h \in BOOLEAN, b \in 0..MaxCalls : job[j] = [status |-> s, file |-> h, by |-> b]
  BY DEF McpTypeOK
<1>2. /\ job' = [job EXCEPT ![j] = job'[j]]
      /\ job'[j] \in [status : Statuses, file : BOOLEAN, by : 0..MaxCalls]
      /\ job'[j].by = job[j].by
      /\ job[j].status \in UpTo(job'[j].status)
      /\ job'[j].status = "none" <=> job[j].status = "none"
  <2>1. CASE job[j].status = "QUEUED" /\ job' = [job EXCEPT ![j].status = "PROCESSING"]
    <3>1. job'[j] = [status |-> "PROCESSING", file |-> h, by |-> b]
      BY <1>1, <2>1 DEF McpTypeOK
    <3>2. job' = [job EXCEPT ![j] = job'[j]]
      BY <2>1 DEF McpTypeOK
    <3>3. QED
      BY <1>1, <2>1, <3>1, <3>2 DEF Statuses, UpTo
  <2>2. CASE job[j].status = "PROCESSING" /\ job' = [job EXCEPT ![j] = [status |-> "COMPLETED", file |-> TRUE, by |-> @.by]]
    <3>1. PICK r : r = [status |-> "COMPLETED", file |-> TRUE, by |-> b]
      OBVIOUS
    <3>2. job[j].by = b
      BY <1>1
    <3>3. job' = [job EXCEPT ![j] = r]
      BY <2>2, <3>1, <3>2
    <3>4. job'[j] = r
      BY <3>3 DEF McpTypeOK
    <3>5. r \in [status : Statuses, file : BOOLEAN, by : 0..MaxCalls] /\ r.by = b /\ r.status = "COMPLETED"
      BY <3>1 DEF Statuses
    <3>6. "PROCESSING" \in UpTo("COMPLETED")
      BY DEF UpTo
    <3>7. QED
      BY <2>2, <3>2, <3>3, <3>4, <3>5, <3>6
  <2>3. CASE job' = [job EXCEPT ![j].file = FALSE]
    <3>1. job'[j] = [status |-> s, file |-> FALSE, by |-> b]
      <4>1. PICK no \in BOOLEAN : no = FALSE
        OBVIOUS
      <4>2. job'[j] = [job[j] EXCEPT !.file = no]
        BY <2>3, <4>1 DEF McpTypeOK
      <4>3. job'[j] = [status |-> s, file |-> no, by |-> b]
        BY <1>1, <4>2
      <4>4. QED
        BY <4>1, <4>3
    <3>2. job' = [job EXCEPT ![j] = job'[j]]
      BY <2>3 DEF McpTypeOK
    <3>3. s \in UpTo(s)
      BY DEF Statuses, UpTo
    <3>4. QED
      BY <1>1, <3>1, <3>2, <3>3
  <2>4. QED
    BY <2>1, <2>2, <2>3 DEF ApiJobStep
<1>3. PICK g \in BOOLEAN : g = job'[j].file
  BY <1>2
<1>4. call' = [c \in ToolCalls |->
        IF call[c].id = j /\ call[c].place = "sent"
        THEN [call[c] EXCEPT !.file = @ \/ job'[j].file] ELSE call[c]]
  BY DEF ApiJobStep
<1>5. ASSUME NEW c \in ToolCalls
      PROVE  /\ call'[c] \in CallType
             /\ \A f \in {"tool", "type", "id", "place", "response", "reply", "from"} : call'[c][f] = call[c][f]
             /\ call[c].place # "sent" => call'[c].file = call[c].file
             /\ call[c].place = "sent" =>
                  call'[c].file = (call[c].file \/ (call[c].id = j /\ job'[j].file))
  <2>1. call[c] \in CallType
    BY DEF McpTypeOK, CallType
  <2>2. CASE call[c].id = j /\ call[c].place = "sent"
    <3>1. PICK k \in BOOLEAN : k = (call[c].file \/ g)
      OBVIOUS
    <3>2. call'[c] = [call[c] EXCEPT !.file = k]
      BY <1>3, <1>4, <2>2, <3>1
    <3>3. call'[c] \in CallType /\ call'[c].file = k
          /\ \A f \in {"tool", "type", "id", "place", "response", "reply", "from"} : call'[c][f] = call[c][f]
      BY <2>1, <3>2 DEF CallType
    <3>4. call'[c].file = (call[c].file \/ (call[c].id = j /\ job'[j].file))
      BY <1>3, <2>2, <3>1, <3>3, Zenon
    <3>5. QED
      BY <2>2, <3>3, <3>4, Zenon
  <2>3. CASE ~ (call[c].id = j /\ call[c].place = "sent")
    <3>1. call'[c] = call[c]
      BY <1>4, <2>3
    <3>2. call[c].place = "sent" => call'[c].file = (call[c].file \/ (call[c].id = j /\ job'[j].file))
      <4>1. SUFFICES ASSUME call[c].place = "sent"
                     PROVE  call'[c].file = (call[c].file \/ (call[c].id = j /\ job'[j].file))
        OBVIOUS
      <4>2. call[c].id # j
        BY <2>3, <4>1
      <4>3. call[c].file \in BOOLEAN
        BY <2>1 DEF CallType
      <4>4. QED
        BY <3>1, <4>2, <4>3, Zenon
    <3>3. QED
      BY <2>1, <3>1, <3>2, Zenon
  <2>4. QED
    BY <2>2, <2>3, Zenon
<1>6. call' \in [ToolCalls -> CallType]
  BY <1>4, <1>5
<1>7. QED
  BY <1>2, <1>5, <1>6, Zenon

-----------------------------------------------------------------------------
(* What is told agrees with what was made.                                 *)

(* The steps of one call leave the others alone.                           *)
LEMMA McpSteps ==
  ASSUME McpTypeOK, MadeInOrder, [McpNext]_mcpVars
  PROVE  \/ \E c \in ToolCalls : /\ CallTool(c) \/ Receive(c) \/ Lose(c) \/ Api(c)
                                 /\ call' = [call EXCEPT ![c] = call'[c]] /\ call'[c] \in CallType
         \/ \E j \in Jobs : ApiJobStep(j)
         \/ UNCHANGED <<job, call>>
BY CallToolFacts, ReceiveFacts, LoseFacts, ApiFacts DEF McpNext, mcpVars

LEMMA McpTypeStep ==
  ASSUME McpTypeOK, MadeInOrder, [McpNext]_mcpVars
  PROVE  McpTypeOK'
<1> DEFINE JobType == [status : Statuses, file : BOOLEAN, by : 0..MaxCalls]
<1>0. McpTypeOK <=> job \in [Jobs -> JobType] /\ call \in [ToolCalls -> CallType]
  BY DEF McpTypeOK, CallType
<1>1. McpTypeOK' <=> job' \in [Jobs -> JobType] /\ call' \in [ToolCalls -> CallType]
  BY DEF McpTypeOK, CallType
<1>2. ASSUME NEW c \in ToolCalls, CallTool(c) \/ Receive(c) \/ Lose(c) \/ Api(c),
             call' = [call EXCEPT ![c] = call'[c]], call'[c] \in CallType
      PROVE  McpTypeOK'
  <2>1. call' \in [ToolCalls -> CallType]
    BY <1>0, <1>2
  <2>2. CASE job' = job
    BY <1>0, <1>1, <2>1, <2>2
  <2>3. CASE job' # job
    <3>1. PICK j \in Jobs, row \in {"none", "QUEUED"} :
            job' = [job EXCEPT ![j] = [status |-> row, file |-> FALSE, by |-> c]]
      BY <1>2, <2>3, CallToolFacts, ReceiveFacts, LoseFacts, ApiFacts
    <3>2. [status |-> row, file |-> FALSE, by |-> c] \in JobType
      BY DEF ToolCalls, Statuses
    <3>3. job' \in [Jobs -> JobType]
      BY <1>0, <3>1, <3>2
    <3>4. QED
      BY <1>1, <2>1, <3>3
  <2>4. QED
    BY <2>2, <2>3
<1>3. ASSUME NEW j \in Jobs, ApiJobStep(j) PROVE McpTypeOK'
  <2>1. job' = [job EXCEPT ![j] = job'[j]] /\ job'[j] \in JobType /\ call' \in [ToolCalls -> CallType]
    BY <1>3, JobStepFacts
  <2>2. job' \in [Jobs -> JobType]
    BY <1>0, <2>1
  <2>3. QED
    BY <1>1, <2>1, <2>2
<1>4. CASE UNCHANGED <<job, call>>
  BY <1>4 DEF McpTypeOK
<1>5. QED
  BY <1>2, <1>3, <1>4, McpSteps

(* A step makes at most the next job, for the call that it answers.        *)
LEMMA JobsChange ==
  ASSUME McpTypeOK, MadeInOrder, MadeByCalls, [McpNext]_mcpVars
  PROVE  \/ /\ \A j \in Jobs : job'[j].by = job[j].by
            /\ \A j \in Jobs : job'[j].status = "none" <=> job[j].status = "none"
         \/ \E c \in ToolCalls, j \in Jobs \ Made :
              /\ Made \union {j} = 1..j
              /\ job[j].by = 0 /\ job'[j].by = c
              /\ \A k \in Jobs \ {j} : job'[k] = job[k]
<1>1. ASSUME NEW c \in ToolCalls, Api(c), job' # job
      PROVE  \E j \in Jobs \ Made :
               /\ Made \union {j} = 1..j
               /\ job[j].by = 0 /\ job'[j].by = c
               /\ \A k \in Jobs \ {j} : job'[k] = job[k]
  <2>1. PICK j \in Jobs \ Made, row \in {"none", "QUEUED"} :
          /\ Made \union {j} = 1..j
          /\ job' = [job EXCEPT ![j] = [status |-> row, file |-> FALSE, by |-> c]]
    BY <1>1, ApiFacts
  <2>2. job[j].by = 0
    BY DEF Made
  <2>3. job'[j].by = c /\ \A k \in Jobs \ {j} : job'[k] = job[k]
    BY <2>1 DEF McpTypeOK
  <2>4. QED
    BY <2>1, <2>2, <2>3
<1>2. ASSUME NEW j \in Jobs, ApiJobStep(j)
      PROVE  /\ \A k \in Jobs : job'[k].by = job[k].by
             /\ \A k \in Jobs : job'[k].status = "none" <=> job[k].status = "none"
  <2>1. /\ job' = [job EXCEPT ![j] = job'[j]]
        /\ job'[j].by = job[j].by
        /\ job'[j].status = "none" <=> job[j].status = "none"
    BY <1>2, JobStepFacts
  <2>2. \A k \in Jobs \ {j} : job'[k] = job[k]
    BY <2>1 DEF McpTypeOK
  <2>3. QED
    BY <2>1, <2>2
<1>3. CASE job' = job
  BY <1>3
<1>4. CASE job' # job
  <2>1. (\E c \in ToolCalls : Api(c)) \/ (\E j \in Jobs : ApiJobStep(j))
    BY <1>4, McpSteps, CallToolFacts, ReceiveFacts, LoseFacts
  <2>2. QED
    BY <1>1, <1>2, <1>4, <2>1
<1>5. QED
  BY <1>3, <1>4

LEMMA MadeStep ==
  ASSUME McpTypeOK, MadeInOrder, MadeByCalls, [McpNext]_mcpVars
  PROVE  MadeInOrder' /\ MadeByCalls'
<1>1. CASE /\ \A j \in Jobs : job'[j].by = job[j].by
           /\ \A j \in Jobs : job'[j].status = "none" <=> job[j].status = "none"
  <2>1. Made' = Made
    BY <1>1 DEF Made
  <2>2. QED
    BY <1>1, <2>1 DEF MadeInOrder, MadeByCalls
<1>2. CASE \E c \in ToolCalls, j \in Jobs \ Made :
             /\ Made \union {j} = 1..j
             /\ job[j].by = 0 /\ job'[j].by = c
             /\ \A k \in Jobs \ {j} : job'[k] = job[k]
  <2>1. PICK c \in ToolCalls, j \in Jobs \ Made :
          Made \union {j} = 1..j /\ job'[j].by = c /\ \A k \in Jobs \ {j} : job'[k] = job[k]
    BY <1>2
  <2>2. c # 0
    BY DEF ToolCalls
  <2>3. Made' = Made \union {j}
    BY <2>1, <2>2 DEF Made
  <2>4. MadeInOrder'
    BY <2>1, <2>3 DEF MadeInOrder, Jobs
  <2>5. QED
    BY <2>1, <2>3, <2>4 DEF MadeByCalls
<1>3. QED
  BY <1>1, <1>2, JobsChange

(* A call that nothing happens to, and for which nothing is made.          *)
LEMMA AgreesSame ==
  ASSUME NEW c \in ToolCalls, Agrees(c),
         \A f \in {"tool", "place", "response", "reply"} : call'[c][f] = call[c][f],
         \A j \in Jobs : job'[j].by = c <=> job[j].by = c
  PROVE  Agrees(c)'
<1>1. MadeBy(c)' = MadeBy(c)
  BY DEF MadeBy
<1>2. /\ call'[c].tool = call[c].tool /\ call'[c].place = call[c].place
      /\ call'[c].response = call[c].response /\ call'[c].reply = call[c].reply
  OBVIOUS
<1>3. ToldOf(c, call[c].response) => ToldOf(c, call[c].response)'
  BY <1>1, <1>2 DEF ToldOf
<1>4. ToldOf(c, call[c].reply) => ToldOf(c, call[c].reply)'
  BY <1>1, <1>2 DEF ToldOf
<1>5. QED
  BY <1>1, <1>2, <1>3, <1>4 DEF Agrees

LEMMA AgreesStep ==
  ASSUME McpTypeOK, MadeInOrder, MadeByCalls, \A c \in ToolCalls : Agrees(c), [McpNext]_mcpVars
  PROVE  \A c \in ToolCalls : Agrees(c)'
<1> SUFFICES ASSUME NEW d \in ToolCalls PROVE Agrees(d)'
  OBVIOUS
<1>0. Agrees(d) /\ d # 0
  BY DEF ToolCalls
<1>1. ASSUME NEW c \in ToolCalls, CallTool(c) \/ Receive(c) \/ Lose(c) \/ Api(c),
             call' = [call EXCEPT ![c] = call'[c]]
      PROVE  Agrees(d)'
  <2>1. CASE d # c
    <3>1. call'[d] = call[d]
      BY <1>1, <2>1 DEF McpTypeOK
    <3>2. \A j \in Jobs : job'[j].by = d <=> job[j].by = d
      <4>1. CASE job' = job
        BY <4>1
      <4>2. CASE job' # job
        <5>1. Api(c)
          BY <1>1, <4>2, CallToolFacts, ReceiveFacts, LoseFacts
        <5>2. PICK j \in Jobs \ Made, row \in {"none", "QUEUED"} :
                job' = [job EXCEPT ![j] = [status |-> row, file |-> FALSE, by |-> c]]
          BY <4>2, <5>1, ApiFacts
        <5>3. job[j].by = 0 /\ job'[j].by = c /\ \A k \in Jobs \ {j} : job'[k] = job[k]
          BY <5>2 DEF Made, McpTypeOK
        <5>4. QED
          BY <1>0, <2>1, <5>3
      <4>3. QED
        BY <4>1, <4>2
    <3>3. QED
      BY <1>0, <3>1, <3>2, AgreesSame
  <2>2. CASE d = c /\ CallTool(c)
    <3>1. /\ job' = job /\ call[c].place = "idle"
          /\ \/ call'[c].place = "answered" /\ call'[c].reply.error = "input"
             \/ call'[c].place = "sent" /\ call'[c].reply.error = "none"
      BY <2>2, CallToolFacts
    <3>2. MadeBy(c)' = {}
      BY <1>0, <2>2, <3>1 DEF Agrees, MadeBy
    <3>3. QED
      BY <2>2, <3>1, <3>2 DEF Agrees, ToldOf
  <2>3. CASE d = c /\ Receive(c)
    <3>1. /\ job' = job /\ call[c].place = "back" /\ call'[c].place = "answered"
          /\ call'[c].tool = call[c].tool
          /\ call'[c].reply.error = call[c].response.error
          /\ call[c].response.error = "none" => call'[c].reply.job = call[c].response.job
      BY <2>3, ReceiveFacts
    <3>2. MadeBy(c)' = MadeBy(c)
      BY <3>1 DEF MadeBy
    <3>3. ToldOf(c, call[c].reply)'
      BY <1>0, <2>3, <3>1, <3>2 DEF Agrees, ToldOf
    <3>4. QED
      BY <1>0, <2>3, <3>1, <3>2, <3>3 DEF Agrees
  <2>4. CASE d = c /\ Lose(c)
    <3>1. job' = job /\ call'[c].place = "answered" /\ call'[c].reply.error = "network"
      BY <2>4, LoseFacts
    <3>2. MadeBy(c)' = MadeBy(c)
      BY <3>1 DEF MadeBy
    <3>3. QED
      BY <1>0, <2>4, <3>1, <3>2 DEF Agrees, ToldOf
  <2>5. CASE d = c /\ Api(c)
    <3>1. /\ call[c].place = "sent" /\ call'[c].place = "back"
          /\ call'[c]["tool"] = call[c]["tool"] /\ call'[c]["reply"] = call[c]["reply"]
          /\ \/ /\ job' = job
                /\ \/ call'[c].response.error \in {"api", "server"}
                   \/ call'[c].response.error = "none" /\ call[c].tool # "create_export"
             \/ \E j \in Jobs \ Made, row \in {"none", "QUEUED"} :
                  /\ job' = [job EXCEPT ![j] = [status |-> row, file |-> FALSE, by |-> c]]
                  /\ \/ call'[c].response.error = "server"
                     \/ call'[c].response.error = "none" /\ call'[c].response.job = j
      BY <2>5, ApiFacts
    <3>2. MadeBy(c) = {}
      BY <1>0, <2>5, <3>1 DEF Agrees
    <3>3. CASE /\ job' = job
               /\ \/ call'[c].response.error \in {"api", "server"}
                  \/ call'[c].response.error = "none" /\ call[c].tool # "create_export"
      <4>1. MadeBy(c)' = {}
        BY <3>2, <3>3 DEF MadeBy
      <4>2. ToldOf(c, call[c].response)'
        BY <3>1, <3>3, <4>1 DEF ToldOf
      <4>3. QED
        BY <1>0, <2>5, <3>1, <4>1, <4>2 DEF Agrees
    <3>4. CASE \E j \in Jobs \ Made, row \in {"none", "QUEUED"} :
                 /\ job' = [job EXCEPT ![j] = [status |-> row, file |-> FALSE, by |-> c]]
                 /\ \/ call'[c].response.error = "server"
                    \/ call'[c].response.error = "none" /\ call'[c].response.job = j
      <4>1. PICK j \in Jobs, row \in {"none", "QUEUED"} :
              /\ job' = [job EXCEPT ![j] = [status |-> row, file |-> FALSE, by |-> c]]
              /\ \/ call'[c].response.error = "server"
                 \/ call'[c].response.error = "none" /\ call'[c].response.job = j
        BY <3>4
      <4>2. job'[j].by = c /\ \A k \in Jobs \ {j} : job'[k] = job[k]
        BY <4>1 DEF McpTypeOK
      <4>3. MadeBy(c)' = {j}
        BY <3>2, <4>2 DEF MadeBy
      <4>4. ToldOf(c, call[c].response)'
        BY <4>1, <4>2 DEF ToldOf
      <4>5. QED
        BY <1>0, <2>5, <3>1, <4>3, <4>4 DEF Agrees
    <3>5. QED
      BY <3>1, <3>3, <3>4
  <2>6. QED
    BY <1>1, <2>1, <2>2, <2>3, <2>4, <2>5
<1>2. ASSUME NEW j \in Jobs, ApiJobStep(j) PROVE Agrees(d)'
  <2>1. /\ job' = [job EXCEPT ![j] = job'[j]] /\ job'[j].by = job[j].by
        /\ \A f \in {"tool", "place", "response", "reply"} : call'[d][f] = call[d][f]
    BY <1>2, JobStepFacts
  <2>2. \A k \in Jobs : job'[k].by = job[k].by
    BY <2>1 DEF McpTypeOK
  <2>3. QED
    BY <1>0, <2>1, <2>2, AgreesSame
<1>3. CASE UNCHANGED <<job, call>>
  BY <1>0, <1>3, AgreesSame
<1>4. QED
  BY <1>1, <1>2, <1>3, McpSteps

-----------------------------------------------------------------------------
(* What a call knows is of its time.                                       *)

LEMMA StatusOrder ==
  /\ \A s \in Statuses : s \in UpTo(s) /\ UpTo(s) \subseteq Statuses
  /\ \A s, t, u \in Statuses : s \in UpTo(t) /\ t \in UpTo(u) => s \in UpTo(u)
<1>1. /\ UpTo("none") = {"none"}
      /\ UpTo("QUEUED") = {"none", "QUEUED"}
      /\ UpTo("PROCESSING") = {"none", "QUEUED", "PROCESSING"}
      /\ UpTo("COMPLETED") = {"none", "QUEUED", "PROCESSING", "COMPLETED"}
  BY DEF UpTo
<1>2. QED
  BY <1>1 DEF Statuses

(* No job goes back.                                                       *)
LEMMA StatusGrows ==
  ASSUME McpTypeOK, McpTypeOK', MadeInOrder, MadeByCalls, [McpNext]_mcpVars
  PROVE  \A i : StatusOf(i) \in UpTo(StatusOf(i)')
<1>1. \A i \in Jobs : job[i].status \in Statuses
  BY DEF McpTypeOK
<1>2. CASE job' = job
  BY <1>1, <1>2, StatusOrder DEF StatusOf, Statuses
<1>3. ASSUME NEW c \in ToolCalls, Api(c), job' # job
      PROVE  \A i : StatusOf(i) \in UpTo(StatusOf(i)')
  <2>1. PICK j \in Jobs \ Made, row \in {"none", "QUEUED"} :
          job' = [job EXCEPT ![j] = [status |-> row, file |-> FALSE, by |-> c]]
    BY <1>3, ApiFacts
  <2>2. job[j].status = "none"
    BY <2>1 DEF MadeByCalls
  <2>3. job'[j].status = row /\ \A k \in Jobs \ {j} : job'[k] = job[k]
    BY <2>1 DEF McpTypeOK
  <2>4. "none" \in UpTo("QUEUED") /\ "none" \in UpTo("none")
    BY DEF UpTo
  <2>5. job[j].status \in UpTo(job'[j].status)
    BY <2>2, <2>3, <2>4
  <2>6. QED
    BY <1>1, <2>3, <2>5, StatusOrder DEF StatusOf, Statuses
<1>4. ASSUME NEW j \in Jobs, ApiJobStep(j)
      PROVE  \A i : StatusOf(i) \in UpTo(StatusOf(i)')
  <2>1. job' = [job EXCEPT ![j] = job'[j]] /\ job[j].status \in UpTo(job'[j].status)
    BY <1>4, JobStepFacts
  <2>2. \A k \in Jobs \ {j} : job'[k] = job[k]
    BY <2>1 DEF McpTypeOK
  <2>3. QED
    BY <1>1, <2>1, <2>2, StatusOrder DEF StatusOf, Statuses
<1>5. QED
  BY <1>2, <1>3, <1>4, McpSteps, CallToolFacts, ReceiveFacts, LoseFacts

(* Time goes on for a call that nothing happens to.                        *)
LEMMA TimelySame ==
  ASSUME McpTypeOK, McpTypeOK', NEW c \in ToolCalls, NEW i, i = call[c].id, Timely(c),
         \A f \in {"tool", "id", "place", "response", "from"} : call'[c][f] = call[c][f],
         call[c].file => call'[c].file,
         call[c].place = "sent" /\ HasFile(i)' => call'[c].file,
         StatusOf(i) \in UpTo(StatusOf(i)')
  PROVE  Timely(c)'
<1>1. /\ call'[c].tool = call[c].tool /\ call'[c].id = i /\ call'[c].place = call[c].place
      /\ call'[c].response = call[c].response /\ call'[c].from = call[c].from
  OBVIOUS
<1>2. StatusOf(i) \in Statuses /\ StatusOf(i)' \in Statuses /\ call[c].from \in Statuses
  <2>1. StatusOf(i)' \in Statuses
    BY DEF McpTypeOK, StatusOf, Statuses
  <2>2. QED
    BY <2>1, StatusTypes DEF McpTypeOK
<1>3. StatusOf(call[c].id) = StatusOf(i) /\ StatusOf(call[c].id)' = StatusOf(i)'
      /\ HasFile(call[c].id)' = HasFile(i)'
  BY <1>1 DEF StatusOf, HasFile
<1>4. CASE call[c].place = "sent"
  <2>1. call[c].from \in UpTo(StatusOf(i))
    BY <1>3, <1>4 DEF Timely
  <2>2. call[c].from \in UpTo(StatusOf(i)')
    BY <1>2, <2>1, StatusOrder
  <2>3. UpTo(StatusOf(call[c].id))' = UpTo(StatusOf(i)')
    BY <1>3 DEF UpTo
  <2>4. QED
    BY <1>1, <1>3, <1>4, <2>2, <2>3 DEF Timely
<1>5. CASE call[c].place = "back"
  <2>1. PICK s : s = call[c].response.status
    OBVIOUS
  <2>2. CASE call[c].response.error = "none" /\ call[c].tool = "get_job_status"
    <3>1. call[c].from \in UpTo(s) /\ s \in UpTo(StatusOf(i))
      BY <1>3, <1>5, <2>1, <2>2 DEF Timely
    <3>2. s \in UpTo(StatusOf(i)')
      BY <1>2, <3>1, StatusOrder
    <3>3. UpTo(StatusOf(call[c].id))' = UpTo(StatusOf(i)') /\ UpTo(call[c].response.status)' = UpTo(s)
      BY <1>1, <1>3, <2>1 DEF UpTo
    <3>4. QED
      BY <1>1, <1>5, <2>1, <2>2, <3>1, <3>2, <3>3 DEF Timely
  <2>3. CASE ~ (call[c].response.error = "none" /\ call[c].tool = "get_job_status")
    BY <1>1, <1>5, <2>3 DEF Timely
  <2>4. QED
    BY <2>2, <2>3
<1>6. CASE call[c].place \notin {"sent", "back"}
  BY <1>1, <1>6 DEF Timely
<1>7. QED
  BY <1>4, <1>5, <1>6

LEMMA TimelyStep ==
  ASSUME McpTypeOK, McpTypeOK', MadeInOrder, MadeByCalls, TimeInv, [McpNext]_mcpVars
  PROVE  TimeInv'
<1> SUFFICES ASSUME NEW d \in ToolCalls PROVE Timely(d)'
  BY DEF TimeInv
<1>0. Timely(d)
  BY DEF TimeInv
<1>1. PICK i : i = call[d].id
  OBVIOUS
<1>2. StatusOf(i) \in UpTo(StatusOf(i)')
  BY StatusGrows
<1>3. call[d].place = "sent" /\ HasFile(i) => call[d].file
  BY <1>0, <1>1 DEF Timely
<1>4. ASSUME NEW c \in ToolCalls, CallTool(c) \/ Receive(c) \/ Lose(c) \/ Api(c),
             call' = [call EXCEPT ![c] = call'[c]]
      PROVE  Timely(d)'
  <2>1. CASE d # c
    <3>1. call'[d] = call[d]
      BY <1>4, <2>1 DEF McpTypeOK
    <3>2. HasFile(i)' => HasFile(i)
      <4>1. CASE job' = job
        BY <4>1 DEF HasFile
      <4>2. CASE job' # job
        <5>1. PICK j \in Jobs, row \in {"none", "QUEUED"} :
                job' = [job EXCEPT ![j] = [status |-> row, file |-> FALSE, by |-> c]]
          BY <1>4, <4>2, CallToolFacts, ReceiveFacts, LoseFacts, ApiFacts
        <5>2. ~ job'[j].file /\ \A k \in Jobs \ {j} : job'[k] = job[k]
          BY <5>1 DEF McpTypeOK
        <5>3. QED
          BY <5>2 DEF HasFile
      <4>3. QED
        BY <4>1, <4>2
    <3>3. QED
      BY <1>0, <1>1, <1>2, <1>3, <3>1, <3>2, TimelySame
  <2>2. CASE d = c /\ CallTool(c)
    <3>1. CASE call'[c].place = "sent"
      <4>1. /\ job' = job /\ call'[c].from = StatusOf(call'[c].id) /\ call'[c].file = HasFile(call'[c].id)
        BY <2>2, <3>1, CallToolFacts
      <4>2. PICK k : k = call'[c].id
        OBVIOUS
      <4>3. StatusOf(k) \in UpTo(StatusOf(k))
        BY StatusTypes, StatusOrder
      <4>4. StatusOf(call[c].id)' = StatusOf(k) /\ HasFile(call[c].id)' = HasFile(k)
        BY <4>1, <4>2 DEF StatusOf, HasFile
      <4>5. UpTo(StatusOf(call[c].id))' = UpTo(StatusOf(k))
        BY <4>4 DEF UpTo
      <4>6. QED
        BY <2>2, <3>1, <4>1, <4>2, <4>3, <4>4, <4>5 DEF Timely
    <3>2. CASE call'[c].place = "answered"
      BY <2>2, <3>2 DEF Timely
    <3>3. QED
      BY <2>2, <3>1, <3>2, CallToolFacts
  <2>3. CASE d = c /\ (Receive(c) \/ Lose(c))
    <3>1. call'[c].place = "answered"
      BY <2>3, ReceiveFacts, LoseFacts
    <3>2. QED
      BY <2>3, <3>1 DEF Timely
  <2>4. CASE d = c /\ Api(c)
    <3>1. /\ call[c].place = "sent" /\ call'[c].place = "back"
          /\ call'[c]["tool"] = call[c]["tool"] /\ call'[c]["id"] = call[c]["id"]
          /\ call'[c]["from"] = call[c]["from"] /\ call'[c]["file"] = call[c]["file"]
      BY <2>4, ApiFacts
    <3>2. CASE call'[c].response.error = "none" /\ call[c].tool = "get_job_status"
      <4>1. job' = job /\ call'[c].response.status = StatusOf(i)
        BY <1>1, <2>4, <3>2, ApiFacts
      <4>2. call[c].from \in UpTo(StatusOf(i))
        BY <1>0, <1>1, <2>4, <3>1 DEF Timely
      <4>3. PICK s : s = StatusOf(i)
        OBVIOUS
      <4>4. s \in UpTo(s) /\ call[c].from \in UpTo(s)
        BY <4>2, <4>3, StatusTypes, StatusOrder
      <4>5. StatusOf(call[c].id)' = s
        BY <1>1, <2>4, <3>1, <4>1, <4>3 DEF StatusOf
      <4>6. UpTo(StatusOf(call[c].id))' = UpTo(s) /\ UpTo(call[c].response.status)' = UpTo(s)
        BY <4>1, <4>3, <4>5 DEF UpTo
      <4>7. QED
        BY <2>4, <3>1, <3>2, <4>1, <4>3, <4>4, <4>6 DEF Timely
    <3>3. CASE call'[c].response.error = "none" /\ call[c].tool = "download_export"
      <4>1. HasFile(i)
        BY <1>1, <2>4, <3>3, ApiFacts
      <4>2. call'[c].file
        BY <1>3, <2>4, <3>1, <4>1
      <4>3. QED
        BY <2>4, <3>1, <3>3, <4>2 DEF Timely
    <3>4. CASE call'[c].response.error = "none" => call[c].tool \notin {"get_job_status", "download_export"}
      BY <2>4, <3>1, <3>4 DEF Timely
    <3>5. QED
      BY <3>2, <3>3, <3>4
  <2>5. QED
    BY <1>4, <2>1, <2>2, <2>3, <2>4
<1>5. ASSUME NEW j \in Jobs, ApiJobStep(j) PROVE Timely(d)'
  <2>1. /\ job' = [job EXCEPT ![j] = job'[j]]
        /\ \A f \in {"tool", "id", "place", "response", "from"} : call'[d][f] = call[d][f]
        /\ call[d].place # "sent" => call'[d].file = call[d].file
        /\ call[d].place = "sent" => call'[d].file = (call[d].file \/ (call[d].id = j /\ job'[j].file))
    BY <1>5, JobStepFacts
  <2>2. \A k \in Jobs \ {j} : job'[k] = job[k]
    BY <2>1 DEF McpTypeOK
  <2>3. HasFile(i)' => HasFile(i) \/ (i = j /\ job'[j].file)
    BY <2>2 DEF HasFile
  <2>4. call[d].place = "sent" /\ HasFile(i)' => call'[d].file
    BY <1>1, <1>3, <2>1, <2>3
  <2>5. call[d].file => call'[d].file
    BY <2>1
  <2>6. QED
    BY <1>0, <1>1, <1>2, <2>1, <2>4, <2>5, TimelySame
<1>6. CASE UNCHANGED <<job, call>>
  <2>1. HasFile(i)' = HasFile(i)
    BY <1>6 DEF HasFile
  <2>2. QED
    BY <1>0, <1>1, <1>2, <1>3, <1>6, <2>1, TimelySame
<1>7. QED
  BY <1>4, <1>5, <1>6, McpSteps

-----------------------------------------------------------------------------
(* The theorems.                                                           *)

LEMMA McpStart ==
  ASSUME McpInit
  PROVE  IInv /\ TimeInv
<1>1. McpTypeOK
  <2>1. [status |-> "none", file |-> FALSE, by |-> 0] \in [status : Statuses, file : BOOLEAN, by : 0..MaxCalls]
    BY DEF Statuses
  <2>2. Idle \in CallType
    BY Values
  <2>3. QED
    BY <2>1, <2>2 DEF McpInit, McpTypeOK, CallType
<1>2. Made = {} /\ \A j \in Jobs : job[j].by = 0
  BY DEF McpInit, Made
<1>3. MadeInOrder /\ MadeByCalls
  BY <1>2 DEF MadeInOrder, MadeByCalls, McpInit
<1>4. \A c \in ToolCalls : MadeBy(c) = {} /\ call[c] = Idle
  BY <1>2 DEF McpInit, MadeBy, ToolCalls
<1>5. Idle.place = "idle" /\ Idle.reply.error = "none"
  BY DEF Idle, NoReply
<1>6. \A c \in ToolCalls : Agrees(c)
  BY <1>4, <1>5 DEF Agrees
<1>7. TimeInv
  BY <1>4, <1>5 DEF TimeInv, Timely
<1>8. QED
  BY <1>1, <1>3, <1>6, <1>7 DEF IInv

LEMMA McpInvariant ==
  McpSpec => [](IInv /\ TimeInv)
<1>1. McpInit => IInv /\ TimeInv
  BY McpStart
<1>2. IInv /\ TimeInv /\ [McpNext]_mcpVars => (IInv /\ TimeInv)'
  <2> SUFFICES ASSUME IInv, TimeInv, [McpNext]_mcpVars
               PROVE  IInv' /\ TimeInv'
    OBVIOUS
  <2>1. McpTypeOK /\ MadeInOrder /\ MadeByCalls /\ \A c \in ToolCalls : Agrees(c)
    BY DEF IInv
  <2>2. McpTypeOK'
    BY <2>1, McpTypeStep
  <2>3. MadeInOrder' /\ MadeByCalls'
    BY <2>1, MadeStep
  <2>4. \A c \in ToolCalls : Agrees(c)'
    BY <2>1, AgreesStep
  <2>5. TimeInv'
    BY <2>1, <2>2, TimelyStep
  <2>6. QED
    BY <2>2, <2>3, <2>4, <2>5 DEF IInv
<1>3. QED
  BY <1>1, <1>2, PTL DEF McpSpec

(* Types of the jobs and the calls, for any number of them: what a tool    *)
(* answers names a job of the API or none.                                 *)
THEOREM McpTypesHold == McpSpec => []McpTypeOK
<1>1. IInv => McpTypeOK
  BY DEF IInv
<1>2. QED
  BY <1>1, McpInvariant, PTL

(* What is told of an export agrees with what was made: a call to create   *)
(* queues at most one job, none when it is told that it was refused, and   *)
(* the very job it is told of when it is told of success, with calls side  *)
(* by side, requests that fail half-way, and answers that are lost. Of a   *)
(* 500 and of a broken connection no more is said than that there is at    *)
(* most one job.                                                           *)
THEOREM ToldIsTrue == McpSpec => []AnswersAreTrue
<1>1. ASSUME IInv PROVE AnswersAreTrue
  <2> SUFFICES ASSUME NEW c \in ToolCalls
               PROVE  /\ Cardinality(MadeBy(c)) <= 1
                      /\ call[c].reply.error \in {"input", "api"} => MadeBy(c) = {}
                      /\ call[c].place = "answered" /\ call[c].reply.error = "none" /\ call[c].tool = "create_export"
                           => \E j \in Jobs : call[c].reply.job = j /\ job[j].by = c
    BY DEF AnswersAreTrue, OneJobPerCall, SuccessIsTrue, MadeBy
  <2>1. Agrees(c)
    BY <1>1 DEF IInv
  <2>2. Cardinality(MadeBy(c)) <= 1
    <3>1. CASE MadeBy(c) = {}
      <4>1. Cardinality(MadeBy(c)) = 0
        BY <3>1, FS_EmptySet
      <4>2. QED
        BY <4>1
    <3>2. CASE MadeBy(c) # {}
      <4>1. PICK j \in MadeBy(c) : TRUE
        BY <3>2
      <4>2. MadeBy(c) = {j}
        BY <2>1, <4>1 DEF Agrees
      <4>3. Cardinality(MadeBy(c)) = 1
        BY <4>2, FS_Singleton, Zenon
      <4>4. QED
        BY <4>3
    <3>3. QED
      BY <3>1, <3>2
  <2>3. QED
    BY <2>1, <2>2 DEF Agrees, ToldOf
<1>2. QED
  BY <1>1, McpInvariant, PTL

(* An answer is of the time of its call: the status told is one that the   *)
(* job had between the call and the answer, and a link is given only to a  *)
(* file that was there meanwhile, however many calls and jobs there are.   *)
THEOREM TimeIsKept == McpSpec => AnswerOfItsTime
<1>1. ASSUME IInv, TimeInv, [McpNext]_mcpVars
      PROVE  \A d \in ToolCalls : OfItsTime(d)
  <2> SUFFICES ASSUME NEW d \in ToolCalls, call[d].place = "back", call'[d].place = "answered",
                      call'[d].reply.error = "none"
               PROVE  /\ call[d].tool = "get_job_status" =>
                           /\ call[d].from \in UpTo(call'[d].reply.status)
                           /\ call'[d].reply.status \in UpTo(StatusOf(call[d].id))
                      /\ call[d].tool = "download_export" => call[d].file
    BY DEF OfItsTime
  <2>1. McpTypeOK /\ MadeInOrder /\ Timely(d)
    BY <1>1 DEF IInv, TimeInv
  <2>2. Receive(d)
    <3>1. ASSUME NEW j \in Jobs, ApiJobStep(j) PROVE FALSE
      <4>1. call'[d]["place"] = call[d]["place"]
        BY <2>1, <3>1, JobStepFacts
      <4>2. QED
        BY <4>1
    <3>2. PICK c \in ToolCalls : /\ CallTool(c) \/ Receive(c) \/ Lose(c) \/ Api(c)
                                 /\ call' = [call EXCEPT ![c] = call'[c]]
      BY <1>1, <2>1, <3>1, McpSteps
    <3>3. c = d
      BY <2>1, <3>2 DEF McpTypeOK
    <3>4. QED
      BY <2>1, <3>2, <3>3, CallToolFacts, LoseFacts, ApiFacts
  <2>3. call[d].response.error = "none" /\ call'[d].reply.status = call[d].response.status
    BY <2>1, <2>2, ReceiveFacts
  <2>4. QED
    BY <2>1, <2>3 DEF Timely
<1>2. IInv /\ TimeInv /\ [McpNext]_mcpVars => [\A c \in ToolCalls : OfItsTime(c)]_mcpVars
  BY <1>1
<1>3. QED
  BY <1>2, McpInvariant, PTL DEF McpSpec, AnswerOfItsTime
=============================================================================
