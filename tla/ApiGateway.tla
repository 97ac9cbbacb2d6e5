------------------------------ MODULE ApiGateway ------------------------------
(***************************************************************************)
(* The API server's way of a request: rate limiters, authentication, the   *)
(* gate of the route (scope, team role, runaway breaker), the handler, the *)
(* error handler, and the shutdown that an unhandled rejection starts.     *)
(*                                                                         *)
(* Handlers' bodies are not in the repository: one succeeds, and DELETE    *)
(* /keys/:id then has revoked the key, or its promise rejects; what it may *)
(* refuse is left out. The breaker's own state is in RunawayBreaker.       *)
(* Headers, parsing and logging are left out.                              *)
(***************************************************************************)
EXTENDS Integers, FiniteSets

CONSTANTS
  Requests,
  Scenarios,    \* what the requests may be: functions to [route, by, from]
  Keys,         \* API keys
  Scope,        \* per key: READ, WRITE or ADMIN
  Role,         \* per dashboard user: MEMBER, ADMIN or OWNER
  Victim,       \* the key that DELETE /keys/:id names
  Limit,        \* per tier, maxPerMinute and burstMax
  Window,       \* ticks of the sustained window
  BurstWindow,  \* ticks of the burst window
  MaxTime,      \* bound: no tick after this one
  MaxUnheard    \* bound: counts whose answer is lost

(* A burst window of 10 s in one of a minute, for twice the limit.         *)
ASSUME WindowsAssumption ==
  Window \in Nat \ {0} /\ BurstWindow \in 1..Window /\ {MaxTime, MaxUnheard} \subseteq Nat
ASSUME LimitAssumption ==
  /\ DOMAIN Limit = {"export", "download", "general"}
  /\ \A t \in DOMAIN Limit : /\ Limit[t].max \in Nat /\ Limit[t].burst \in Nat
                             /\ 2 * Limit[t].max <= Limit[t].burst
(* Dashboard users are known by other names than keys.                     *)
ASSUME KeysAssumption == Keys \intersect DOMAIN Role = {}

-----------------------------------------------------------------------------
(* Routes: the limiters' tier, the gate, the method, the status of success *)
(* and whether the handler is wrapped, so that its rejection is caught      *)

CreateJob == [tier |-> "export", gate |-> "breaker", method |-> "POST", ok |-> 201, wrapped |-> FALSE]
ListJobs == [tier |-> "general", gate |-> "none", method |-> "GET", ok |-> 200, wrapped |-> FALSE]
GetJob == [tier |-> "general", gate |-> "none", method |-> "GET", ok |-> 200, wrapped |-> FALSE]
Download == [tier |-> "download", gate |-> "none", method |-> "GET", ok |-> 200, wrapped |-> FALSE]
CreateKey == [tier |-> "general", gate |-> "scope", method |-> "POST", ok |-> 201, wrapped |-> TRUE]
ListKeys == [tier |-> "general", gate |-> "scope", method |-> "GET", ok |-> 200, wrapped |-> TRUE]
RevokeKey == [tier |-> "general", gate |-> "scope", method |-> "DELETE", ok |-> 204, wrapped |-> TRUE]
UpdateKey == [tier |-> "general", gate |-> "scope", method |-> "PATCH", ok |-> 200, wrapped |-> TRUE]
InviteMember == [tier |-> "general", gate |-> "ADMIN", method |-> "POST", ok |-> 200, wrapped |-> FALSE]
ChangeRole == [tier |-> "general", gate |-> "OWNER", method |-> "PATCH", ok |-> 200, wrapped |-> FALSE]
Signup == [tier |-> "general", gate |-> "public", method |-> "POST", ok |-> 200, wrapped |-> FALSE]
StripeEvent == [tier |-> "none", gate |-> "public", method |-> "POST", ok |-> 200, wrapped |-> FALSE]

RouteTable ==
  [createJob |-> CreateJob, listJobs |-> ListJobs, getJob |-> GetJob,
   download |-> Download, createKey |-> CreateKey, listKeys |-> ListKeys,
   revokeKey |-> RevokeKey, updateKey |-> UpdateKey, invite |-> InviteMember,
   changeRole |-> ChangeRole, signup |-> Signup, stripe |-> StripeEvent]

ASSUME ScenariosAssumption ==
  \A s \in Scenarios : \A r \in Requests : s[r].route \in DOMAIN RouteTable

-----------------------------------------------------------------------------
VARIABLES
  req,      \* what a request is
  pc,       \* where it is
  answer,   \* its status, 0 before there is one
  authed,   \* requests with req.apiKey set
  hits,     \* the limiters' counters: bucket to [n, until]
  log,      \* what the limiters counted, when and what they told (history)
  barred,   \* requests that came with a key revoked before (history)
  valid,    \* keys that are not revoked
  server,   \* up, draining or down
  now

vars == <<req, pc, answer, authed, hits, log, barred, valid, server, now>>

Route(r) == RouteTable[req[r].route]
Ended == {"done", "cut"}
InFlight(r) == pc[r] \notin Ended \union {"new"}

Init ==
  /\ req \in Scenarios
  /\ pc = [r \in Requests |-> "new"]
  /\ answer = [r \in Requests |-> 0]
  /\ authed = {}
  /\ hits = [b \in {} |-> [n |-> 0, until |-> 0]]
  /\ log = {}
  /\ barred = {}
  /\ valid = Keys
  /\ server = "up"
  /\ now = 0

GoTo(r, place) == pc' = [pc EXCEPT ![r] = place] /\ UNCHANGED answer
Answer(r, status) ==
  /\ pc' = [pc EXCEPT ![r] = "done"]
  /\ answer' = [answer EXCEPT ![r] = status]

(* The routers are mounted in this order; Stripe's is before everything.   *)
Arrive(r) ==
  /\ server = "up"
  /\ pc[r] = "new"
  /\ GoTo(r, IF Route(r).tier = "none" THEN "handler" ELSE "sustained")
  /\ barred' = IF req[r].by \in Keys \ valid THEN barred \union {r} ELSE barred
  /\ UNCHANGED <<req, authed, hits, log, valid, server, now>>

-----------------------------------------------------------------------------
(* Rate limiters: a counter in Redis per bucket, that ends with its window *)

(* The limiters run before authentication, when req.apiKey is not set yet. *)
Bucket(r, kind) ==
  <<kind, Route(r).tier, IF r \in authed THEN req[r].by ELSE req[r].from>>

(* Mutant: the store forgets the count.                                    *)
CountForgets(b, span) == [n |-> 1, until |-> now + span]

Count(b, span) ==
  IF b \in DOMAIN hits /\ now < hits[b].until
  THEN [hits[b] EXCEPT !.n = @ + 1]
  ELSE [n |-> 1, until |-> now + span]

(* Mutant: the limit itself is refused.                                    *)
OverEarly(n, max) == n >= max

Over(n, max) == n > max

(* Mutant: half the limit per minute, instead of twice.                    *)
BurstMaxHalf(tier) == Limit[tier].max \div 2

BurstMax(tier) == Limit[tier].burst

Told(told) == {e \in log : e.told \in told}

Kinds == {"sustained", "burst"}
Span(kind) == IF kind = "sustained" THEN Window ELSE BurstWindow
MaxOf(kind, tier) == IF kind = "sustained" THEN Limit[tier].max ELSE BurstMax(tier)

(* Redis runs the command of the limiter for this request.                 *)
Counts(r, kind, told) ==
  LET b == Bucket(r, kind)
      counter == Count(b, Span(kind))
  IN  /\ hits' = [x \in DOMAIN hits \union {b} |-> IF x = b THEN counter ELSE hits[x]]
      /\ log' = log \union {[by |-> r, kind |-> kind, at |-> now, n |-> counter.n, told |-> told]}

Exceeds(r, kind) == Over(Count(Bucket(r, kind), Span(kind)).n, MaxOf(kind, Route(r).tier))

(* The limiters run one after the other, each with a command to Redis.     *)
Limits(r, kind) ==
  /\ server # "down"
  /\ pc[r] = kind
  /\ IF Exceeds(r, kind)
     THEN Counts(r, kind, "refused") /\ Answer(r, 429)
     ELSE /\ Counts(r, kind, "passed")
          /\ GoTo(r, IF kind = "sustained" THEN "burst"
                     ELSE IF Route(r).gate = "public" THEN "handler" ELSE "auth")
  /\ UNCHANGED <<req, authed, barred, valid, server, now>>

(* The answer of a command is lost: the connection sends it again, or      *)
(* closes and rejects.                                                     *)
Unheard(r, kind) ==
  /\ server # "down"
  /\ pc[r] = kind
  /\ Cardinality(Told({"unheard"})) < MaxUnheard
  /\ Counts(r, kind, "unheard")
  /\ UNCHANGED <<pc, answer>> \/ Answer(r, 500)
  /\ UNCHANGED <<req, authed, barred, valid, server, now>>

(* Redis rejects a command: the error goes to the error handler.           *)
LimiterFails(r) ==
  /\ server # "down"
  /\ pc[r] \in Kinds
  /\ Answer(r, 500)
  /\ UNCHANGED <<req, authed, hits, log, barred, valid, server, now>>

-----------------------------------------------------------------------------
(* Authentication and the gate of the route                                *)

(* Mutant: a key's record is kept, and its revocation not seen.            *)
KnownBefore(by) == by \in Keys \union DOMAIN Role

(* validateApiKey: a key that exists and is not revoked; or a dashboard    *)
(* user, who acts with scope ADMIN.                                        *)
Known(by) == by \in valid \/ by \in DOMAIN Role

Authenticate(r) ==
  /\ server # "down"
  /\ pc[r] = "auth"
  /\ \/ /\ Known(req[r].by)
        /\ authed' = authed \union {r}
        /\ GoTo(r, "gate")
     \/ /\ ~ Known(req[r].by)
        /\ Answer(r, 401)
        /\ UNCHANGED authed
     \/ Answer(r, 500) /\ UNCHANGED authed    \* the query fails: next(error)
  /\ UNCHANGED <<req, hits, log, barred, valid, server, now>>

AllowedMethods(scope) ==
  CASE scope = "READ" -> {"GET", "HEAD"}
    [] scope = "WRITE" -> {"GET", "HEAD", "POST"}
    [] scope = "ADMIN" -> {"GET", "HEAD", "POST", "PUT", "PATCH", "DELETE"}

Level(role) == CASE role = "MEMBER" -> 0 [] role = "ADMIN" -> 1 [] role = "OWNER" -> 2

ScopeOf(by) == IF by \in Keys THEN Scope[by] ELSE "ADMIN"

CheckScope(r) ==
  /\ Route(r).gate = "scope"
  /\ IF Route(r).method \in AllowedMethods(ScopeOf(req[r].by))
     THEN GoTo(r, "handler")
     ELSE Answer(r, 403)
  /\ UNCHANGED server

(* Mutant: the process takes no notice.                                    *)
UnhandledIgnored(r) == GoTo(r, "hung") /\ UNCHANGED server

(* The rejection of an async middleware or handler reaches nobody but the  *)
(* process, which shuts down; the request is not answered.                 *)
Unhandled(r) ==
  /\ GoTo(r, "hung")
  /\ server' = IF server = "up" THEN "draining" ELSE server

RequireRole(r) ==
  /\ Route(r).gate \in {"ADMIN", "OWNER"}
  /\ \/ /\ IF req[r].by \in Keys \/ Level(Role[req[r].by]) >= Level(Route(r).gate)
           THEN GoTo(r, "handler")
           ELSE Answer(r, 403)
        /\ UNCHANGED server
     \/ req[r].by \notin Keys /\ Unhandled(r)

Breaker(r) ==
  /\ Route(r).gate = "breaker"
  /\ GoTo(r, "handler") \/ Answer(r, 429)
  /\ UNCHANGED server

Open(r) ==
  /\ Route(r).gate = "none"
  /\ GoTo(r, "handler")
  /\ UNCHANGED server

Gate(r) ==
  /\ server # "down"
  /\ pc[r] = "gate"
  /\ CheckScope(r) \/ RequireRole(r) \/ Breaker(r) \/ Open(r)
  /\ UNCHANGED <<req, authed, hits, log, barred, valid, now>>

(* The handler answers, or its promise rejects: asyncHandler passes that   *)
(* on to the error handler, and a handler without it leaves it unhandled.  *)
Handle(r) ==
  /\ server # "down"
  /\ pc[r] = "handler"
  /\ \/ /\ Answer(r, Route(r).ok)
        /\ valid' = IF req[r].route = "revokeKey" THEN valid \ {Victim} ELSE valid
        /\ UNCHANGED server
     \/ Route(r).wrapped /\ Answer(r, 500) /\ UNCHANGED <<valid, server>>
     \/ ~ Route(r).wrapped /\ Unhandled(r) /\ UNCHANGED valid
  /\ UNCHANGED <<req, authed, hits, log, barred, now>>

-----------------------------------------------------------------------------
(* Shutdown: no new connection; down when the last request has ended, or   *)
(* after the timeout, which destroys the sockets that are left.            *)

Signal ==
  /\ server = "up"
  /\ server' = "draining"
  /\ UNCHANGED <<req, pc, answer, authed, hits, log, barred, valid, now>>

StopServer ==
  /\ server = "draining"
  /\ server' = "down"
  /\ pc' = [r \in Requests |-> IF InFlight(r) THEN "cut" ELSE pc[r]]
  /\ UNCHANGED <<req, answer, authed, hits, log, barred, valid, now>>

Tick ==
  /\ now < MaxTime
  /\ server # "down"
  /\ now' = now + 1
  /\ UNCHANGED <<req, pc, answer, authed, hits, log, barred, valid, server>>

Limiter(r) == LimiterFails(r) \/ \E kind \in Kinds : Limits(r, kind) \/ Unheard(r, kind)

Step(r) == Limiter(r) \/ Authenticate(r) \/ Gate(r) \/ Handle(r)

Next ==
  \/ \E r \in Requests : Arrive(r) \/ Step(r)
  \/ Signal \/ StopServer \/ Tick

Spec == Init /\ [][Next]_vars

(* A request that runs goes on, and the shutdown's timeout comes.          *)
FairSpec ==
  Spec /\ (\A r \in Requests : WF_vars(Step(r))) /\ WF_vars(StopServer)

-----------------------------------------------------------------------------
(* Properties                                                              *)

Entries ==
  [by : Requests, kind : Kinds, at : Nat, n : Nat \ {0}, told : {"passed", "refused", "unheard"}]

(* Types; a counter ends at most one window from now.                      *)
TypeOK ==
  /\ req \in Scenarios
  /\ pc \in [Requests -> {"new", "auth", "gate", "handler", "hung"} \union Kinds \union Ended]
  /\ answer \in [Requests -> Nat]
  /\ log \subseteq Entries /\ \A e \in log : e.at <= now
  /\ \A b \in DOMAIN hits : hits[b] \in [n : Nat \ {0}, until : 1..(now + Window)]
  /\ authed \subseteq Requests /\ barred \subseteq Requests /\ valid \subseteq Keys
  /\ server \in {"up", "draining", "down"} /\ now \in Nat

(* What a limiter counted in a request's bucket, from one time to another. *)
Counted(kind, r, from, to) ==
  {e \in log : /\ e.kind = kind /\ e.at \in from..to
               /\ Route(e.by).tier = Route(r).tier /\ req[e.by].from = req[r].from}

(* In no span as long as the window does the sustained limiter let more    *)
(* than twice its limit through: the windows are fixed, not sliding.       *)
SpanBound ==
  \A e \in Told({"passed"}) :
    e.kind = "sustained" =>
      Cardinality(Counted("sustained", e.by, e.at, e.at + Window - 1) \intersect Told({"passed"}))
        <= 2 * Limit[Route(e.by).tier].max

(* A refusal follows as many counts of the same address, within the        *)
(* window, as the limit: of requests that the limiter let through, or      *)
(* whose command Redis ran without the answer coming back.                 *)
RefusedForCause ==
  \A e \in Told({"refused"}) :
    Cardinality(Counted(e.kind, e.by, e.at - Span(e.kind) + 1, e.at) \intersect Told({"passed", "unheard"}))
      >= MaxOf(e.kind, Route(e.by).tier)

(* The limits are kept, in any span, and nobody is refused without cause.  *)
LimitsKept == SpanBound /\ RefusedForCause

(* The burst limiter refuses only a spike that delays and repeated         *)
(* commands have made: as the sustained limiter comes first and lets no    *)
(* more than twice its limit through within a window, the spikes of        *)
(* clients never get as far as the burst limit.                            *)
BurstOnlyAfterDelay ==
  \A e \in Told({"refused"}) :
    e.kind = "burst" =>
      \E f \in Counted("burst", e.by, e.at - BurstWindow + 1, e.at) :
        \/ f.told = "unheard"
        \/ ~ \E g \in Told({"passed"}) : g.kind = "sustained" /\ g.by = f.by /\ g.at = f.at

(* A request that comes with a key revoked before it gets nothing from a   *)
(* route that asks for a key, and the route does nothing for it.           *)
RevokedStaysOut ==
  \A r \in barred :
    Route(r).gate # "public" => pc[r] \notin {"gate", "handler", "hung"} /\ answer[r] \in {0, 401, 429, 500}

(* Every request that is accepted is answered, or its connection is closed *)
(* by a shutdown.                                                          *)
EveryRequestEnds ==
  \A r \in Requests : (pc[r] # "new") ~> (pc[r] \in Ended)
=============================================================================
