---------------------------- MODULE MCExportJobs ----------------------------
(* Small instances of ExportJobs for TLC.                                  *)
EXTENDS ExportJobs, TLC

CONSTANTS j1, j2, api, worker

OneJob == {j1}
TwoProcs == {api, worker}
OneApi == {api}
Both == {"email", "webhook"}
AllChannels == {"email", "webhook", "warning"}
AllFaults == FaultKinds
LivingFaults == {"export", "crash", "shutdown"}
ExportOnly == {"export"}
=============================================================================
