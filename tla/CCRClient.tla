----------------------------- MODULE CCRClient -----------------------------
(***************************************************************************)
(* How a worker tells the server its state                                 *)
(* (src/src/cli/transports/ccrClient.ts): initialize() registers it with a *)
(* PUT of its own, reportState() and reportMetadata() go through the       *)
(* uploader of WorkerStateUploader, and a worker that is superseded, or    *)
(* died, is followed by one with the next epoch.  The reports come from    *)
(* src/src/utils/sessionState.ts when the worker is a process of its own,  *)
(* and from src/src/bridge/remoteBridgeCore.ts in the REPL.                *)
(***************************************************************************)
EXTENDS WorkerStateUploader

CONSTANTS Workers,     \* the names of the workers that follow each other
          Wirings,     \* who reports: "remoteIO", "bridge"
          Early,       \* whether reports may come before initialize() is done
          MaxReports   \* bound: patches given to the uploader of one worker

States == {"idle", "running", "requires_action"}

ASSUME WorkersAssumption == /\ Workers \in Seq(Values) /\ Len(Workers) > 0
                            /\ Wirings \subseteq {"remoteIO", "bridge"}
                            /\ Early \in BOOLEAN /\ MaxReports \in Nat

ASSUME KeysAssumption ==
  /\ Keys = {"worker_status", "requires_action_details", "pending_action", "task_summary"}
  /\ States \cup {"null", "dead", "other"} \subseteq Values

VARIABLES
  epoch,             \* this.workerEpoch
  serverEpoch,       \* the epoch of the worker that registered last
  init,              \* initialize(): none, sent, taken by the server, done, failed
  currentState,      \* this.currentState, which reportState() compares with
  reported,          \* the state and the details that were reported last
  hasPendingAction,  \* of sessionState.ts
  wiring

clientVars == <<epoch, serverEpoch, init, currentState, reported, hasPendingAction, wiring>>
allVars == <<uploaderVars, clientVars>>

Me == Workers[epoch]

\* Mutated form: what the last worker waited for stays.
InitPatchOfStatus == [k \in {"worker_status", "task_summary"} |->
                        IF k = "worker_status" THEN "idle" ELSE "null"]

\* The PUT of initialize(): idle, and nothing left of a worker that died.
InitPatch == [k \in {"worker_status", "pending_action", "task_summary"} |->
                IF k = "worker_status" THEN "idle" ELSE "null"]

\* The first worker finds what one before it has left.
Dead == [worker_status |-> "requires_action", requires_action_details |-> "dead",
         pending_action |-> "dead", task_summary |-> "dead"]

NoReport == [state |-> "idle", details |-> "null"]

ClientInit ==
  /\ base = Dead /\ server = Dead /\ up = NewUploader /\ shown = 0
  /\ epoch = 1 /\ serverEpoch = 1 /\ init = "none"
  /\ currentState = "none" /\ reported = NoReport /\ hasPendingAction = FALSE
  /\ wiring \in Wirings

----------------------------------------------------------------------------
(* initialize()                                                            *)

Initialize ==
  /\ init = "none" /\ ~up.closed
  /\ init' = "sent"
  /\ UNCHANGED <<uploaderVars, epoch, serverEpoch, currentState, reported, hasPendingAction, wiring>>

InitTaken ==
  /\ init = "sent" /\ epoch = serverEpoch
  /\ init' = "taken"
  /\ server' = Updated(server, InitPatch)
  /\ base' = IF up.given = <<>> THEN server' ELSE base
  /\ UNCHANGED <<up, shown, epoch, serverEpoch, currentState, reported, hasPendingAction, wiring>>

InitDone ==
  /\ init = "taken" /\ init' = "done"
  /\ currentState' = "idle"
  /\ UNCHANGED <<uploaderVars, epoch, serverEpoch, reported, hasPendingAction, wiring>>

\* The PUT fails: the caller closes the client.
InitFails ==
  /\ init \in {"sent", "taken"} /\ init' = "failed"
  /\ up' = ClosedUploader(up)
  /\ UNCHANGED <<server, base, shown, epoch, serverEpoch, currentState, reported,
                 hasPendingAction, wiring>>

----------------------------------------------------------------------------
(* Reports                                                                 *)

\* Mutated form: a state that is reported again with other details is dropped.
IsNewsByState(s, details) == s # currentState

IsNews(s, details) == s # currentState \/ details # "null"

StatusPatch(s, details) ==
  [k \in {"worker_status", "requires_action_details"} |->
     IF k = "worker_status" THEN s ELSE details]

\* reportState(), on the uploader u
ReportedState(u, s, details) ==
  IF IsNews(s, details) THEN Enqueued(u, StatusPatch(s, details)) ELSE u

MayReport == /\ init = "done" \/ (Early /\ init \notin {"none", "failed"})
             /\ Len(up.given) + 3 <= MaxReports

\* notifySessionStateChanged(): the state, and the metadata that go with it.
NotifyState(s, details) ==
  LET mirror == IF details # "null" \/ hasPendingAction
                  THEN Enqueued(ReportedState(up, s, details), [k \in {"pending_action"} |-> details])
                  ELSE ReportedState(up, s, details)
  IN /\ wiring = "remoteIO" /\ MayReport
     /\ (details # "null") = (s = "requires_action")
     /\ currentState' = s /\ reported' = [state |-> s, details |-> details]
     /\ hasPendingAction' = (details # "null")
     /\ up' = IF s = "idle" THEN Enqueued(mirror, [k \in {"task_summary"} |-> "null"]) ELSE mirror
     /\ UNCHANGED <<server, base, shown, epoch, serverEpoch, init, wiring>>

\* notifySessionMetadataChanged(), of the summary of a turn in progress.
NotifySummary ==
  /\ wiring = "remoteIO" /\ MayReport
  /\ up' = Enqueued(up, [k \in {"task_summary"} |-> Me])
  /\ UNCHANGED <<server, base, shown, clientVars>>

\* The bridge reports the state alone.
BridgeReports(s) ==
  /\ wiring = "bridge" /\ MayReport
  /\ currentState' = s /\ reported' = [state |-> s, details |-> "null"]
  /\ up' = ReportedState(up, s, "null")
  /\ UNCHANGED <<server, base, shown, epoch, serverEpoch, init, hasPendingAction, wiring>>

----------------------------------------------------------------------------
(* The uploader, and the server                                            *)

PutTaken == epoch = serverEpoch /\ ServerTakes /\ UNCHANGED clientVars
PutSucceeds == Succeed /\ UNCHANGED clientVars
PutFails == Fail /\ UNCHANGED clientVars
PutRetried == Retry /\ UNCHANGED clientVars

\* close()
CloseClient == ~up.closed /\ CloseUploader /\ UNCHANGED clientVars

\* The next worker registers: the server refuses what this one sends.
Register ==
  /\ serverEpoch < Len(Workers) /\ serverEpoch' = serverEpoch + 1
  /\ UNCHANGED <<uploaderVars, epoch, init, currentState, reported, hasPendingAction, wiring>>

\* handleEpochMismatch(): a request, be it a heartbeat, is answered with 409.
EpochMismatch ==
  /\ epoch # serverEpoch /\ ~up.closed /\ init # "none"
  /\ up' = [ClosedUploader(up) EXCEPT !.stage = IF @ = "sent" THEN "sleeping" ELSE @]
  /\ init' = IF init = "sent" THEN "failed" ELSE init
  /\ UNCHANGED <<server, base, shown, epoch, serverEpoch, currentState, reported,
                 hasPendingAction, wiring>>

\* The worker that registered starts, wherever the last one was.
NextWorker ==
  /\ epoch # serverEpoch /\ epoch' = serverEpoch
  /\ up' = NewUploader /\ shown' = 0 /\ base' = server
  /\ init' = "none" /\ currentState' = "none" /\ reported' = NoReport
  /\ hasPendingAction' = FALSE
  /\ UNCHANGED <<server, serverEpoch, wiring>>

ClientNext ==
  \/ Initialize \/ InitTaken \/ InitDone \/ InitFails
  \/ \E s \in States : BridgeReports(s) \/ \E d \in {"null", Me, "other"} : NotifyState(s, d)
  \/ NotifySummary
  \/ PutTaken \/ PutSucceeds \/ PutFails \/ PutRetried \/ CloseClient
  \/ Register \/ EpochMismatch \/ NextWorker

ClientSpec == ClientInit /\ [][ClientNext]_allVars

\* Timers and answers come; a server that is asked again and again takes and
\* confirms a PUT in the end.
FairClientSpec ==
  /\ ClientSpec
  /\ WF_allVars(PutRetried) /\ WF_allVars(EpochMismatch)
  /\ SF_allVars(PutTaken) /\ SF_allVars(PutSucceeds)

----------------------------------------------------------------------------
(* Properties                                                              *)

\* The variables have their types; a PUT in flight says something.
TypeOK ==
  /\ up.pending \in Patches /\ up.current \in Patches
  /\ (up.stage = "none") = (up.current = NoPatch)
  /\ up.covers \in 0..Len(up.given) /\ shown \in 0..up.covers
  /\ server \in [Keys -> Values] /\ base \in [Keys -> Values]
  /\ epoch \in 1..serverEpoch /\ serverEpoch \in 1..Len(Workers)
  /\ init \in {"none", "sent", "taken", "done", "failed"}
  /\ currentState \in States \cup {"none"} /\ reported \in [state : States, details : Values]
  /\ hasPendingAction \in BOOLEAN /\ wiring \in Wirings

Settled == init = "done" /\ ~up.closed /\ up.stage = "none" /\ epoch = serverEpoch

\* When nothing is on its way the server shows the state that was reported
\* last, and the action that is waited for, twice, when there is one:
\* reportState() skips only what the server has, and no merge and no retry of
\* the uploader brings back what is over.  (Details a dead worker left stay
\* until the first report that is not skipped.)
StatusAgrees ==
  Settled =>
    /\ server["worker_status"] = reported.state
    /\ server["pending_action"] = IF wiring = "remoteIO" THEN reported.details ELSE "null"
    /\ (\E i \in DOMAIN up.given : "worker_status" \in DOMAIN up.given[i]) =>
         server["requires_action_details"] = reported.details

\* Once a worker is initialized nothing that a dead one waited for or did is
\* shown as its own, although the dead one's PUTs were under way when it died.
NothingOfTheDead ==
  (init = "done" /\ epoch = serverEpoch) =>
    \A k \in {"pending_action", "task_summary"} : server[k] \in {"null", Me, "other"}

\* Every report reaches the server, unless the client is closed or replaced,
\* however often its PUTs fail: sendWithRetry() tries again what waits too.
EventuallyShown == shown < Len(up.given) ~> (shown = Len(up.given) \/ up.closed)
=============================================================================
