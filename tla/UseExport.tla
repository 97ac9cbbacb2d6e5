------------------------------ MODULE UseExport ------------------------------
(***************************************************************************)
(* The React hook useExport and the button built on it. Each call of       *)
(* exportData is a chain of awaits (create the job, poll it, sleep, get    *)
(* the download URL) that shares one abort controller reference, one timer *)
(* reference and the hook's state with every other call.                   *)
(*                                                                         *)
(* The progress value is left out. A setState after unmounting has no      *)
(* effect in React; what the state holds then is not looked at.            *)
(***************************************************************************)
EXTENDS Naturals

CONSTANTS
  Calls,   \* calls of exportData
  None,    \* null in a reference
  Uses     \* what the component around the hook does: UseKinds

(* overlap: starts an export while one is in progress (disableWhile-       *)
(* Exporting is false); cancel: calls cancel(); unmount: goes away;        *)
(* network: requests may fail.                                             *)
UseKinds == {"overlap", "cancel", "unmount", "network"}

ASSUME UsesAssumption == Uses \subseteq UseKinds
ASSUME NoneAssumption == None \notin Calls

VARIABLES
  pc,           \* where a call is
  aborted,      \* calls whose signal is aborted
  stale,        \* calls whose closure holds the status FAILED
  controller,   \* abortControllerRef: the call it belongs to
  timer,        \* pollingTimeoutRef: the call it belongs to
  mounted,      \* isMountedRef
  isExporting, status, error,   \* state of the hook; error: whether there is one
  downloadUrl,  \* state of the button: the call whose URL it has
  server,       \* status of the job of a call
  last,         \* history: the call started last
  givenUp,      \* history: calls in progress at a cancel() or a later call
  intruded      \* history: another call than the last has written to the state since that was made

refVars == <<controller, timer>>
stateVars == <<isExporting, status, error, downloadUrl>>
historyVars == <<last, givenUp, intruded>>
vars == <<pc, aborted, stale, refVars, mounted, stateVars, server, historyVars>>

Requests == {"create", "poll", "download"}
Running == Requests \union {"sleep", "stuck"}
InProgress == {c \in Calls : pc[c] \in Running}

Init ==
  /\ pc = [c \in Calls |-> "none"]
  /\ aborted = {}
  /\ stale = {}
  /\ controller = None
  /\ timer = None
  /\ mounted = TRUE
  /\ isExporting = FALSE
  /\ status = None
  /\ error = FALSE
  /\ downloadUrl = None
  /\ server = [c \in Calls |-> "QUEUED"]
  /\ last = None
  /\ givenUp = {}
  /\ intruded = FALSE

(* clearTimeout: a call that sleeps on the timer in the reference is never *)
(* woken.                                                                  *)
WithoutTimer ==
  [c \in Calls |-> IF c = timer /\ pc[c] = "sleep" THEN "stuck" ELSE pc[c]]

AbortCurrent == aborted' = aborted \union ({controller} \ {None})

-----------------------------------------------------------------------------
(* exportData                                                              *)

MayStart == mounted /\ (isExporting => "overlap" \in Uses)

(* The calls in progress lose the hook to another, which sets all of its   *)
(* state anew.                                                             *)
GiveUpOthers ==
  /\ givenUp' = givenUp \union InProgress
  /\ intruded' = FALSE

(* A call writes to the state, whether it is the last or not.              *)
Writes(c) ==
  /\ intruded' = (intruded \/ c # last)
  /\ UNCHANGED <<last, givenUp>>

(* Mutant: the error of the last export is not cleared.                    *)
StartKeepsError(c) ==
  /\ MayStart
  /\ pc[c] = "none"
  /\ AbortCurrent
  /\ pc' = [WithoutTimer EXCEPT ![c] = "create"]
  /\ stale' = IF status = "FAILED" THEN stale \union {c} ELSE stale
  /\ controller' = c
  /\ isExporting' = TRUE
  /\ status' = "QUEUED"
  /\ downloadUrl' = None
  /\ last' = c
  /\ GiveUpOthers
  /\ UNCHANGED <<timer, mounted, error, server>>

(* Mutant: the link of the last export is not taken away.                  *)
StartKeepsUrl(c) ==
  /\ MayStart
  /\ pc[c] = "none"
  /\ AbortCurrent
  /\ pc' = [WithoutTimer EXCEPT ![c] = "create"]
  /\ stale' = IF status = "FAILED" THEN stale \union {c} ELSE stale
  /\ controller' = c
  /\ isExporting' = TRUE
  /\ error' = FALSE
  /\ status' = "QUEUED"
  /\ last' = c
  /\ GiveUpOthers
  /\ UNCHANGED <<timer, mounted, downloadUrl, server>>

Start(c) ==
  /\ MayStart
  /\ pc[c] = "none"
  /\ AbortCurrent
  /\ pc' = [WithoutTimer EXCEPT ![c] = "create"]
  /\ stale' = IF status = "FAILED" THEN stale \union {c} ELSE stale
  /\ controller' = c
  /\ isExporting' = TRUE
  /\ error' = FALSE
  /\ status' = "QUEUED"
  /\ downloadUrl' = None
  /\ last' = c
  /\ GiveUpOthers
  /\ UNCHANGED <<timer, mounted, server>>

(* Mutant: the catch block leaves the status to the poll.                  *)
RejectKeepsStatus(c, shown) ==
  /\ pc' = [pc EXCEPT ![c] = "rejected"]
  /\ IF mounted
     THEN error' = TRUE /\ isExporting' = FALSE /\ status' = shown
     ELSE UNCHANGED <<error, isExporting, status>>
  /\ controller' = None
  /\ UNCHANGED <<timer, downloadUrl>>

(* The catch and finally blocks: shown is what the poll has shown before.  *)
Reject(c, shown) ==
  /\ pc' = [pc EXCEPT ![c] = "rejected"]
  /\ IF mounted
     THEN /\ error' = TRUE
          /\ isExporting' = FALSE
          /\ status' = IF c \in stale THEN shown ELSE "FAILED"
     ELSE UNCHANGED <<error, isExporting, status>>
  /\ controller' = None
  /\ UNCHANGED <<timer, downloadUrl>>

CreateReturns(c) ==
  /\ pc[c] = "create"
  /\ c \notin aborted
  /\ pc' = [pc EXCEPT ![c] = "poll"]
  /\ status' = "PROCESSING"
  /\ Writes(c)
  /\ UNCHANGED <<aborted, stale, refVars, mounted, isExporting, error, downloadUrl, server>>

(* Mutant: the error path does not reset isExporting.                      *)
RequestFailsKeeps(c) ==
  /\ pc[c] \in Requests
  /\ c \in aborted \/ "network" \in Uses
  /\ pc' = [pc EXCEPT ![c] = "rejected"]
  /\ error' = TRUE
  /\ status' = "FAILED"
  /\ controller' = None
  /\ Writes(c)
  /\ UNCHANGED <<aborted, stale, timer, downloadUrl, isExporting, mounted, server>>

(* A request fails, or is given up because the signal is aborted.          *)
RequestFails(c) ==
  /\ pc[c] \in Requests
  /\ c \in aborted \/ "network" \in Uses
  /\ Reject(c, status)
  /\ Writes(c)
  /\ UNCHANGED <<aborted, stale, mounted, server>>

-----------------------------------------------------------------------------
(* pollJobStatus                                                           *)

PollsAgain(c) == server[c] \notin {"COMPLETED", "FAILED"}

PollReturns(c) ==
  /\ pc[c] = "poll"
  /\ c \notin aborted
  /\ mounted
  /\ \/ /\ PollsAgain(c)
        /\ pc' = [pc EXCEPT ![c] = "sleep"]
        /\ timer' = c
        /\ status' = server[c]
        /\ UNCHANGED <<controller, isExporting, error, downloadUrl>>
     \/ /\ server[c] = "COMPLETED"
        /\ pc' = [pc EXCEPT ![c] = "download"]
        /\ status' = server[c]
        /\ UNCHANGED <<refVars, isExporting, error, downloadUrl>>
     \/ /\ server[c] = "FAILED"
        /\ Reject(c, "FAILED")
  /\ Writes(c)
  /\ UNCHANGED <<aborted, stale, mounted, server>>

(* Mutant: the poll returns without a word once the component is gone.     *)
PollUnmountedSilent(c) ==
  /\ pc[c] = "poll"
  /\ c \notin aborted
  /\ ~mounted
  /\ pc' = [pc EXCEPT ![c] = "silent"]
  /\ UNCHANGED <<aborted, stale, refVars, mounted, stateVars, server, historyVars>>

PollUnmounted(c) ==
  /\ pc[c] = "poll"
  /\ c \notin aborted
  /\ ~mounted
  /\ Reject(c, status)
  /\ Writes(c)
  /\ UNCHANGED <<aborted, stale, mounted, server>>

TimerFires(c) ==
  /\ pc[c] = "sleep"
  /\ IF c \in aborted
     THEN Reject(c, status) /\ Writes(c)
     ELSE pc' = [pc EXCEPT ![c] = "poll"] /\ UNCHANGED <<refVars, stateVars, historyVars>>
  /\ UNCHANGED <<aborted, stale, mounted, server>>

(* The promise resolves, exportData returns, and the button has the URL.   *)
DownloadReturns(c) ==
  /\ pc[c] = "download"
  /\ c \notin aborted
  /\ pc' = [pc EXCEPT ![c] = "resolved"]
  /\ IF mounted
     THEN isExporting' = FALSE /\ status' = "COMPLETED"
     ELSE UNCHANGED <<isExporting, status>>
  /\ controller' = None
  /\ downloadUrl' = c
  /\ Writes(c)
  /\ UNCHANGED <<aborted, stale, timer, mounted, error, server>>

-----------------------------------------------------------------------------
(* The component and the server                                            *)

Cancel ==
  /\ "cancel" \in Uses
  /\ InProgress # {}
  /\ AbortCurrent
  /\ controller' = None
  /\ pc' = WithoutTimer
  /\ timer' = None
  /\ IF mounted
     THEN isExporting' = FALSE /\ status' = "FAILED"
     ELSE UNCHANGED <<isExporting, status>>
  /\ givenUp' = givenUp \union InProgress
  /\ UNCHANGED <<stale, mounted, error, downloadUrl, server, last, intruded>>

Unmount ==
  /\ "unmount" \in Uses
  /\ mounted
  /\ mounted' = FALSE
  /\ AbortCurrent
  /\ pc' = WithoutTimer
  /\ UNCHANGED <<stale, refVars, stateVars, server, historyVars>>

(* FAILED is a status that the API documents; the row of an export that    *)
(* this API has given up stays PROCESSING (FailureRecorded of ExportJobs), *)
(* so nothing says that a job ends.                                        *)
JobStep(c) ==
  /\ pc[c] \notin {"none", "create"}
  /\ \/ server[c] = "QUEUED" /\ server' = [server EXCEPT ![c] = "PROCESSING"]
     \/ server[c] = "PROCESSING" /\ \E s \in {"COMPLETED", "FAILED"} : server' = [server EXCEPT ![c] = s]
  /\ UNCHANGED <<pc, aborted, stale, refVars, mounted, stateVars, historyVars>>

-----------------------------------------------------------------------------
CallStep(c) ==
  \/ CreateReturns(c)
  \/ RequestFails(c)
  \/ PollReturns(c)
  \/ PollUnmounted(c)
  \/ TimerFires(c)
  \/ DownloadReturns(c)

Next ==
  \/ \E c \in Calls : Start(c) \/ CallStep(c) \/ JobStep(c)
  \/ Cancel
  \/ Unmount

Spec == Init /\ [][Next]_vars

(* Requests and timers come back.                                          *)
Fairness == \A c \in Calls : WF_vars(CallStep(c))

FairSpec == Spec /\ Fairness

-----------------------------------------------------------------------------
(* Properties                                                              *)

TypeOK ==
  /\ pc \in [Calls -> Running \union {"none", "resolved", "rejected"}]
  /\ aborted \subseteq Calls
  /\ stale \subseteq Calls
  /\ controller \in Calls \union {None}
  /\ timer \in Calls \union {None}
  /\ mounted \in BOOLEAN
  /\ isExporting \in BOOLEAN
  /\ status \in {None, "QUEUED", "PROCESSING", "COMPLETED", "FAILED"}
  /\ error \in BOOLEAN
  /\ downloadUrl \in Calls \union {None}
  /\ server \in [Calls -> {"QUEUED", "PROCESSING", "COMPLETED", "FAILED"}]
  /\ last \in Calls \union {None}
  /\ givenUp \subseteq Calls
  /\ intruded \in BOOLEAN

(* useExport.ts:24: "Whether an export is currently in progress". Every    *)
(* call sets and resets the one flag, on several paths, and calls overlap; *)
(* the flag is right until the call that lost the hook settles after all,  *)
(* and right again with the next call.                                     *)
InProgressShown ==
  mounted /\ ~intruded => (isExporting <=> InProgress \ givenUp # {})

(* Once the last export has settled, the hook has an error if and only if  *)
(* that export was rejected: neither the error of an earlier call nor its  *)
(* success is left standing.                                               *)
ErrorIsOfLast ==
  mounted /\ ~intruded /\ last # None /\ pc[last] \in {"resolved", "rejected"}
    => (error <=> pc[last] = "rejected")

(* The link that the button shows is that of the export started last.      *)
LinkIsOfLast ==
  mounted /\ ~intruded /\ downloadUrl # None => downloadUrl = last

(* After the last call was rejected the hook shows FAILED, whatever it has *)
(* shown in between; unless the call was made by a render that showed the  *)
(* failure of an earlier one (useExport.ts:159 tests that render's status).*)
RejectionShown ==
  mounted /\ ~intruded /\ last # None /\ pc[last] = "rejected" /\ last \notin stale
    => status = "FAILED"

(* What the hook shows of outcomes, error, link and status, is the last    *)
(* call's, however calls overlap, until an earlier one writes after it.    *)
OutcomeIsOfLast == ErrorIsOfLast /\ LinkIsOfLast /\ RejectionShown

(* A call of exportData returns or throws once its job has ended, or it is *)
(* aborted, or the component is gone, unless its timer was cleared while   *)
(* it slept: such a call, and no other, stays pending for ever.            *)
EveryCallSettles ==
  \A c \in Calls :
    (pc[c] \in Running /\ (server[c] \in {"COMPLETED", "FAILED"} \/ c \in aborted \/ ~mounted))
      ~> pc[c] \in {"resolved", "rejected", "stuck"}
=============================================================================
