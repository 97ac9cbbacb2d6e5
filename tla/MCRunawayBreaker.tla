--------------------------- MODULE MCRunawayBreaker ---------------------------
(* The instance of RunawayBreaker that TLC checks.                         *)
EXTENDS RunawayBreaker

CONSTANTS r1, r2, r3

ThreeRequests == {r1, r2, r3}
AllFaults == FaultKinds
=============================================================================
