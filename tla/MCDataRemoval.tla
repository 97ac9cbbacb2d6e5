---------------------------- MODULE MCDataRemoval ----------------------------
(* The instance of DataRemoval that TLC checks: two jobs, one object per   *)
(* page of a listing, and days that are 7, 30 and 90 in the code.          *)
EXTENDS DataRemoval

TwoJobs == {1, 2}
FewDays == [audit |-> 2, delivery |-> 1, session |-> 1, team |-> 1]
AllScenes == {{"cleanup", "exports"}, {"cleanup", "tables"}, {"deletion", "exports", "tables"},
              {"deletion", "emails"}}
=============================================================================
