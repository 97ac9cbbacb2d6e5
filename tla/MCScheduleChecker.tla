-------------------------- MODULE MCScheduleChecker --------------------------
(* The instance of ScheduleChecker that TLC checks.                        *)
EXTENDS ScheduleChecker

CONSTANTS p1, p2, s1, s2

TwoProcs == {p1, p2}
TwoSchedules == {s1, s2}
FirstBroken == {s1}
AllFaults == FaultKinds
=============================================================================
