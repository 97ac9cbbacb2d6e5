--------------------------- MODULE MCUsageBilling ---------------------------
(* The instance of UsageBilling that TLC checks: four events of Stripe and *)
(* no exports; three exports on the free plan, none or one of a schedule;  *)
(* or two exports of a customer who upgrades or cancels meanwhile.         *)
EXTENDS UsageBilling

CONSTANTS j1, j2, j3

ThreeJobs == {j1, j2, j3}
TwoTiers == {"PRO", "SCALE"}
Limits == [FREE |-> 4, PRO |-> 9, SCALE |-> 20]

S(plan, jobs, scheduled, n) ==
  [plan |-> plan, jobs |-> jobs, scheduled |-> scheduled, events |-> n]
AllStarts ==
  {S("none", {}, {}, 4), S("FREE", ThreeJobs, {}, 0), S("FREE", ThreeJobs, {j3}, 0),
   S("PRO", {j1, j2}, {}, 1), S("none", {j1, j2}, {}, 1)}
=============================================================================
