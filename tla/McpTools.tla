------------------------------ MODULE McpTools ------------------------------
(***************************************************************************)
(* The MCP server: an assistant calls tools, several at a time, and each   *)
(* call becomes one request to the API, whose jobs go on meanwhile.        *)
(* Requests and answers can be lost; there is no timeout and no retry.     *)
(* The API's handlers are not in the repository: they answer as the tests  *)
(* of the routes and the documentation of the routes say. The names are    *)
(* distinct from UseExport's, with which it is extended in the proofs.     *)
(***************************************************************************)
EXTENDS Integers, FiniteSets

CONSTANTS
  MaxCalls,  \* bound: tool calls of a session, numbered as they begin
  MaxJobs    \* bound: jobs that the API makes

ASSUME McpAssumption == {MaxCalls, MaxJobs} \subseteq Nat \ {0}

ToolCalls == 1..MaxCalls
Jobs == 1..MaxJobs
Undefined == "undefined"
NoReply == [error |-> "none", job |-> 0, status |-> "none", jobs |-> Undefined, hasMore |-> "no"]

VARIABLES
  job,    \* per job of the API: [status of its row, file: its file is there, by: the call that queued it]
  call    \* per call, what Idle has

mcpVars == <<job, call>>

(* from and file are history: the job's status when the call began, and    *)
(* whether its file was there or came while the call was under way.        *)
Idle == [tool |-> "none", type |-> "none", id |-> 0, place |-> "idle", response |-> NoReply, reply |-> NoReply,
         from |-> "none", file |-> FALSE]

Made == {j \in Jobs : job[j].by # 0}
StatusOf(j) == IF j \in Jobs THEN job[j].status ELSE "none"
HasFile(j) == j \in Jobs /\ job[j].file

McpInit ==
  /\ job = [j \in Jobs |-> [status |-> "none", file |-> FALSE, by |-> 0]]
  /\ call = [c \in ToolCalls |-> Idle]

-----------------------------------------------------------------------------
(* The tools: schema, request, answer                                      *)

Tools == {"create_export", "get_job_status", "list_jobs", "download_export", "other"}

(* What a call can carry: a type, or the id of a job that there is or 0.   *)
Types(tool) == IF tool = "create_export" THEN {"csv", "json", "xlsx"} ELSE {"none"}
Ids(tool) == IF tool \in {"get_job_status", "download_export"} THEN Made \union {0} ELSE {0}

(* An answer that is an error: the catch of the handler makes it one.      *)
Failure(error) == [NoReply EXCEPT !.error = error]

Begun(tool, type, id, valid) ==
  [tool |-> tool, type |-> type, id |-> id, from |-> StatusOf(id), file |-> HasFile(id),
   place |-> IF valid THEN "sent" ELSE "answered", response |-> NoReply,
   reply |-> IF valid THEN NoReply ELSE Failure("input")]

(* valid: the switch has the tool and its schema takes the arguments; the  *)
(* try of the handler is around all of it.                                 *)
CallTool(c) ==
  /\ call[c].place = "idle" /\ \A d \in ToolCalls : d < c => call[d].place # "idle"
  /\ \E tool \in Tools : \E type \in Types(tool), id \in Ids(tool), valid \in BOOLEAN :
       /\ tool = "other" => ~ valid
       /\ ~ valid => type \in {"csv", "none"} /\ id = 0
       /\ call' = [call EXCEPT ![c] = Begun(tool, type, id, valid)]
  /\ UNCHANGED job

(* Mutant: the answer is not asked whether it is one.                      *)
OkUnread(response) == TRUE

Ok(response) == response.error = "none"

(* undefined + undefined < undefined is false.                             *)
HasMore(r) == IF r.jobs = Undefined THEN "no" ELSE r.hasMore

(* Mutant: a job's status is remembered from an earlier answer.            *)
BodyRemembered(c) ==
  LET earlier == {d \in ToolCalls \ {c} : call[d].tool = "get_job_status" /\ call[d].id = call[c].id
                                        /\ call[d].reply.status # "none"}
  IN  IF call[c].tool = "get_job_status" /\ earlier # {}
      THEN call[CHOOSE d \in earlier : TRUE].reply ELSE call[c].response

Body(c) == call[c].response

(* The request is over, and what was noted of it is forgotten.             *)
Goes(c, place, reply) ==
  call' = [call EXCEPT ![c] = [@ EXCEPT !.place = place, !.response = NoReply, !.reply = reply,
                                        !.from = "none", !.file = FALSE]]

Receive(c) ==
  /\ call[c].place = "back"
  /\ Goes(c, "answered", IF Ok(Body(c)) THEN [Body(c) EXCEPT !.error = "none", !.hasMore = HasMore(Body(c))]
                         ELSE Failure(Body(c).error))
  /\ UNCHANGED job

(* Mutant: a request that failed is sent again.                            *)
AfterLossAgain == "sent"

(* fetch throws: the call is answered with the error.                      *)
AfterLoss == "answered"

(* The connection breaks before the API has the request or after it.       *)
Lose(c) ==
  /\ call[c].place \in {"sent", "back"}
  /\ Goes(c, AfterLoss, Failure("network"))
  /\ UNCHANGED job

-----------------------------------------------------------------------------
(* The API                                                                 *)

Respond(c, response) ==
  call' = [call EXCEPT ![c] = [@ EXCEPT !.place = "back", !.response = response]]

(* 401 or 429, whatever was asked; 500 before anything was done.           *)
Refuse(c) ==
  /\ call[c].place = "sent"
  /\ \E error \in {"api", "server"} : Respond(c, Failure(error))
  /\ UNCHANGED job

(* createJob adds to the queue and then creates the row.                   *)
Queue(c, status) ==
  LET j == Cardinality(Made) + 1
  IN  job' = [job EXCEPT ![j] = [status |-> status, file |-> FALSE, by |-> c]]

(* createJobSchema knows csv and json. The request may fail once the job   *)
(* is queued, without a row or with it.                                    *)
Create(c) ==
  /\ call[c].place = "sent" /\ call[c].tool = "create_export"
  /\ \/ /\ call[c].type \in {"csv", "json"} /\ Made # Jobs
        /\ \/ /\ Queue(c, "QUEUED")
              /\ Respond(c, [NoReply EXCEPT !.job = Cardinality(Made) + 1, !.status = "QUEUED"])
           \/ /\ \E status \in {"none", "QUEUED"} : Queue(c, status)
              /\ Respond(c, Failure("server"))
     \/ /\ call[c].type = "xlsx"
        /\ Respond(c, Failure("api"))
        /\ UNCHANGED job

GetStatus(c) ==
  /\ call[c].place = "sent" /\ call[c].tool = "get_job_status"
  /\ Respond(c, IF StatusOf(call[c].id) # "none"
                THEN [NoReply EXCEPT !.job = call[c].id, !.status = StatusOf(call[c].id)]
                ELSE Failure("api"))
  /\ UNCHANGED job

(* 410 when the file has gone, 404 or 400 without one.                     *)
Download(c) ==
  /\ call[c].place = "sent" /\ call[c].tool = "download_export"
  /\ Respond(c, IF HasFile(call[c].id) THEN [NoReply EXCEPT !.job = call[c].id, !.status = "link"]
                ELSE Failure("api"))
  /\ UNCHANGED job

(* The API answers with data and pagination, the client reads jobs, total, *)
(* offset and limit.                                                       *)
List(c) ==
  /\ call[c].place = "sent" /\ call[c].tool = "list_jobs"
  /\ Respond(c, NoReply)
  /\ UNCHANGED job

(* The statuses go on as JobLifecycle says: none of a job that failed. A   *)
(* file comes with the completion, and goes when its time is over.         *)
ApiJobStep(j) ==
  /\ \/ /\ job[j].status = "QUEUED"
        /\ job' = [job EXCEPT ![j].status = "PROCESSING"]
     \/ /\ job[j].status = "PROCESSING"
        /\ job' = [job EXCEPT ![j] = [status |-> "COMPLETED", file |-> TRUE, by |-> @.by]]
     \/ /\ job[j].file
        /\ job' = [job EXCEPT ![j].file = FALSE]
  /\ call' = [c \in ToolCalls |->
       IF call[c].id = j /\ call[c].place = "sent"
       THEN [call[c] EXCEPT !.file = @ \/ job'[j].file] ELSE call[c]]

Api(c) == Refuse(c) \/ Create(c) \/ GetStatus(c) \/ Download(c) \/ List(c)

McpNext ==
  \/ \E c \in ToolCalls : CallTool(c) \/ Receive(c) \/ Lose(c) \/ Api(c)
  \/ \E j \in Jobs : ApiJobStep(j)

(* Every request is answered by the API, or its connection breaks.         *)
McpSpec == McpInit /\ [][McpNext]_mcpVars

-----------------------------------------------------------------------------
(* Properties                                                              *)

Statuses == {"none", "QUEUED", "PROCESSING", "COMPLETED"}

Replies ==
  [error : {"none", "input", "api", "server", "network"}, job : 0..MaxJobs, status : Statuses \union {"link"},
   jobs : {Undefined}, hasMore : {"yes", "no"}]

(* Types; what a tool answers names a job of the API or none.              *)
McpTypeOK ==
  /\ job \in [Jobs -> [status : Statuses, file : BOOLEAN, by : 0..MaxCalls]]
  /\ call \in [ToolCalls -> [tool : Tools \union {"none"}, type : {"csv", "json", "xlsx", "none"},
                        id : 0..MaxJobs, place : {"idle", "sent", "back", "answered"},
                        response : Replies, reply : Replies, from : Statuses, file : BOOLEAN]]

(* A call to create queues at most one job, and none if the answer is that *)
(* its input is refused, by the server or by the API. (A 500 and an answer *)
(* that is lost tell nothing.)                                             *)
OneJobPerCall ==
  \A c \in ToolCalls :
    LET made == {j \in Jobs : job[j].by = c}
    IN  Cardinality(made) <= 1 /\ (call[c].reply.error \in {"input", "api"} => made = {})

(* A call that is answered with success did what it says: the job named is *)
(* one that this very call made.                                           *)
SuccessIsTrue ==
  \A c \in ToolCalls :
    call[c].place = "answered" /\ call[c].reply.error = "none" /\ call[c].tool = "create_export"
      => \E j \in Jobs : call[c].reply.job = j /\ job[j].by = c

(* What is told of an export agrees with what was made: at most one job by *)
(* a call, none if it was refused, the one that is named with success.     *)
AnswersAreTrue == OneJobPerCall /\ SuccessIsTrue

(* The statuses that a job with this one has had.                          *)
UpTo(status) ==
  CASE status = "none" -> {"none"}
    [] status = "QUEUED" -> {"none", "QUEUED"}
    [] status = "PROCESSING" -> {"none", "QUEUED", "PROCESSING"}
    [] OTHER -> {"none", "QUEUED", "PROCESSING", "COMPLETED"}

(* What is answered with success is of the time of the call: a status that *)
(* the job had meanwhile, a link to a file that was there meanwhile.       *)
OfItsTime(c) ==
  call[c].place = "back" /\ call'[c].place = "answered" /\ call'[c].reply.error = "none" =>
    /\ call[c].tool = "get_job_status" =>
         /\ call[c].from \in UpTo(call'[c].reply.status)
         /\ call'[c].reply.status \in UpTo(StatusOf(call[c].id))
    /\ call[c].tool = "download_export" => call[c].file

(* With calls side by side and jobs that go on, an answer is of the time   *)
(* of its call.                                                            *)
AnswerOfItsTime == [][\A c \in ToolCalls : OfItsTime(c)]_mcpVars

=============================================================================
