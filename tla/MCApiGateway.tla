---------------------------- MODULE MCApiGateway ----------------------------
(* The instance of ApiGateway that TLC checks: three requests of one       *)
(* address against a limit of one, so that there are two windows, a        *)
(* refusal between them and, with delays and a lost answer, a burst that   *)
(* is refused; or two that meet the gates, with a key revoked among them,  *)
(* beside Stripe's, which no limiter counts.                               *)
EXTENDS ApiGateway, TLC

CONSTANTS r1, r2, r3, k1, k2, member, owner, here, there

ThreeRequests == {r1, r2, r3}
TwoKeys == {k1, k2}
KeyScope == (k1 :> "WRITE") @@ (k2 :> "ADMIN")
TeamRole == (member :> "MEMBER") @@ (owner :> "OWNER")
Tiers == [export |-> [max |-> 2, burst |-> 4], download |-> [max |-> 1, burst |-> 2],
          general |-> [max |-> 1, burst |-> 2]]

R(route, by, from) == [route |-> route, by |-> by, from |-> from]
Three(a, b, c) == (r1 :> a) @@ (r2 :> b) @@ (r3 :> c)

Scenes ==
  {Three(R("download", "none", here), R("download", "none", here), R("download", "none", here)),
   Three(R("createJob", k1, here), R("revokeKey", k2, here), R("stripe", "none", here)),
   Three(R("updateKey", k1, here), R("listKeys", k1, there), R("stripe", "none", here)),
   Three(R("changeRole", member, here), R("signup", "none", there), R("stripe", "none", here)),
   Three(R("invite", owner, here), R("getJob", k1, there), R("stripe", "none", here))}
=============================================================================
