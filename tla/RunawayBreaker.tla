---------------------------- MODULE RunawayBreaker ----------------------------
(***************************************************************************)
(* The protection against runaway clients: requests with one API key and   *)
(* one payload count up a Redis key whose time to live is the window. INCR *)
(* and EXPIRE are two commands, of a request that may end in between.      *)
(*                                                                         *)
(* Other keys have counters of their own and are left out. A request that  *)
(* is refused and sent again is another request. Names are distinct from   *)
(* ApiGateway's, whose proofs extend both modules.                         *)
(***************************************************************************)
EXTENDS Integers, FiniteSets

CONSTANTS
  Posts,          \* POST /jobs with this API key and this payload
  Threshold,      \* config.threshold
  WindowSeconds,  \* config.windowSeconds, in ticks
  Faults          \* what may go wrong: FaultKinds

(* crash: an API server dies; reject: Redis answers with an error, or the  *)
(* connection is closed; resend: the connection drops after a command was  *)
(* executed, and ioredis sends it again; outage: Redis is unreachable for  *)
(* a time or for good.                                                     *)
FaultKinds == {"crash", "reject", "resend", "outage"}

ASSUME PostsAssumption == IsFiniteSet(Posts)
ASSUME ThresholdAssumption == Threshold \in Nat \ {0}
ASSUME WindowSecondsAssumption == WindowSeconds \in Nat \ {0}
ASSUME FaultsAssumption == Faults \subseteq FaultKinds

VARIABLES
  place,     \* where a request is in the middleware
  count,     \* the value of the key, 0 when there is none
  ttl,       \* its time to live
  counted,   \* requests that the present key has counted
  maker,     \* the request that was told it made the present key, if one was (history)
  resent,    \* <<r, command>> executed and sent again: at most once each
  redisUp

breakerVars == <<place, count, ttl, counted, maker, resent, redisUp>>

NoLimit == WindowSeconds + 1
Settled == {"passed", "blocked", "open", "lost"}

BreakerInit ==
  /\ place = [r \in Posts |-> "new"]
  /\ count = 0
  /\ ttl = 0
  /\ counted = {}
  /\ maker = {}
  /\ resent = {}
  /\ redisUp = TRUE

MoveTo(r, to) == place' = [place EXCEPT ![r] = to]

-----------------------------------------------------------------------------
(* createCircuitBreaker and incrementAndCheck                              *)

Enter(r) ==
  /\ place[r] = "new"
  /\ MoveTo(r, "incr")
  /\ UNCHANGED <<count, ttl, counted, maker, resent, redisUp>>

(* Redis executes INCR; a key that it creates has no limit. told: those    *)
(* who hear of it.                                                         *)
CountUp(r, told) ==
  /\ redisUp
  /\ place[r] = "incr"
  /\ count' = count + 1
  /\ ttl' = IF count = 0 THEN NoLimit ELSE ttl
  /\ counted' = counted \union {r}
  /\ maker' = IF count = 0 THEN told ELSE maker

(* Redis executes EXPIRE, on the key that there is by now.                 *)
SetLimit(r) ==
  /\ redisUp
  /\ place[r] = "expire"
  /\ ttl' = IF count > 0 THEN WindowSeconds ELSE ttl
  /\ UNCHANGED <<count, counted, maker>>

(* Mutant: the request after the threshold is let through.                 *)
VerdictLate(n) == IF n > Threshold + 1 THEN "blocked" ELSE "passed"

(* Mutant: the threshold itself is refused.                                *)
VerdictEarly(n) == IF n >= Threshold THEN "blocked" ELSE "passed"

Verdict(n) == IF n > Threshold THEN "blocked" ELSE "passed"

(* Mutant: the limit is set when the request is refused.                   *)
IsFirstBlocked(n) == n > Threshold

IsFirst(n) == n = 1

Incr(r) ==
  /\ CountUp(r, {r})
  /\ MoveTo(r, IF IsFirst(count + 1) THEN "expire" ELSE Verdict(count + 1))
  /\ UNCHANGED <<resent, redisUp>>

Expire(r) ==
  /\ SetLimit(r)
  /\ MoveTo(r, Verdict(1))
  /\ UNCHANGED <<resent, redisUp>>

(* The catch block of the middleware: next() without a verdict.            *)
FailOpen(r) ==
  /\ "reject" \in Faults
  /\ redisUp
  /\ place[r] \in {"incr", "expire"}
  /\ MoveTo(r, "open")
  /\ UNCHANGED <<count, ttl, counted, maker, resent, redisUp>>

-----------------------------------------------------------------------------
(* Redis, its connection and the process                                   *)

(* The answer of a command is lost with the connection; the client is made *)
(* with maxRetriesPerRequest null and sends the command again.             *)
LoseAnswer(r) ==
  /\ "resend" \in Faults
  /\ <<r, place[r]>> \notin resent
  /\ CountUp(r, {}) \/ SetLimit(r)
  /\ resent' = resent \union {<<r, place[r]>>}
  /\ UNCHANGED <<place, redisUp>>

Crash(r) ==
  /\ "crash" \in Faults
  /\ place[r] \in {"incr", "expire"}
  /\ MoveTo(r, "lost")
  /\ UNCHANGED <<count, ttl, counted, maker, resent, redisUp>>

Outage ==
  /\ "outage" \in Faults
  /\ redisUp' = ~redisUp
  /\ UNCHANGED <<place, count, ttl, counted, maker, resent>>

(* Time passes; a key whose time is over is removed.                       *)
KeyTick ==
  /\ ttl \in 1 .. WindowSeconds
  /\ ttl' = ttl - 1
  /\ IF ttl = 1
     THEN count' = 0 /\ counted' = {} /\ maker' = {}
     ELSE UNCHANGED <<count, counted, maker>>
  /\ UNCHANGED <<place, resent, redisUp>>

BreakerNext ==
  \/ \E r \in Posts :
       Enter(r) \/ Incr(r) \/ Expire(r) \/ FailOpen(r) \/ LoseAnswer(r) \/ Crash(r)
  \/ Outage
  \/ KeyTick

BreakerSpec == BreakerInit /\ [][BreakerNext]_breakerVars

(* Redis executes the commands it receives while it is reachable, and time *)
(* passes. Nobody owes the end of an outage.                               *)
BreakerFairness ==
  /\ \A r \in Posts : SF_breakerVars(Incr(r)) /\ SF_breakerVars(Expire(r))
  /\ WF_breakerVars(KeyTick)

BreakerFairSpec == BreakerSpec /\ BreakerFairness

-----------------------------------------------------------------------------
(* Properties                                                              *)

BreakerTypeOK ==
  /\ place \in [Posts -> {"new", "incr", "expire"} \union Settled]
  /\ count \in Nat
  /\ ttl \in 0 .. NoLimit
  /\ counted \subseteq Posts
  /\ maker \subseteq counted
  /\ resent \subseteq Posts \X {"incr", "expire"}
  /\ redisUp \in BOOLEAN

(* Of the requests that one key counts, at most Threshold pass on its      *)
(* word, whatever is lost, repeated or overlaps (incrementAndCheck).       *)
PassedPerWindow ==
  Cardinality({r \in counted : place[r] = "passed"}) <= Threshold

Twice(command) == {r \in Posts : <<r, command>> \in resent}

(* While the key has counted none of them twice, a request is refused only *)
(* if more than Threshold requests were counted by the same key.           *)
BlockedForCause ==
  counted \intersect Twice("incr") = {} /\ (\E r \in counted : place[r] = "blocked")
    => Cardinality(counted) > Threshold

(* Once a key has a limit no request extends it, as long as no EXPIRE was  *)
(* executed twice: the window is measured from the first request, and a    *)
(* client that never stops is let through again when it is over.           *)
LimitOnlyShrinks ==
  [][(ttl \in 1 .. WindowSeconds) /\ Twice("expire") = {} => ttl' < ttl \/ UNCHANGED ttl]_breakerVars

(* Every key goes away, and with it the refusals, unless the request that  *)
(* made it was not told so or ended between its two commands, or Redis     *)
(* does not come back: no other request, fault or repeated command keeps a *)
(* key for ever.                                                           *)
WindowEnds ==
  []<>redisUp =>
    ((count > 0) ~> (count = 0 \/ maker = {} \/ \E r \in maker : place[r] \in {"open", "lost"}))
=============================================================================
