-------------------------- MODULE RemoteExecutions --------------------------
(***************************************************************************)
(* Remote executions of one plan: an execute request, handled by the       *)
(* daemon or by the command line itself, opens a pull request in the       *)
(* execution repository; the daemon polls it and settles the manifest and  *)
(* the job's metadata when it has closed.                                  *)
(*                                                                         *)
(* Nothing ties these steps together: the manifest, the metadata and the   *)
(* daemon's list of tracked executions are written one after another, each *)
(* write may be lost, daemon and command line may die between any two of   *)
(* them, and several executions of the plan may be under way.              *)
(***************************************************************************)
EXTENDS Integers, Sequences, SequencesExt

CONSTANTS
  DaemonClients, CliClients, \* who handles an execute request
  MaxPrs,                    \* bound on the pull requests
  MaxFaults                  \* bound on deaths and on writes that fail

Clients == DaemonClients \cup CliClients
Prs     == 1 .. MaxPrs

ASSUME ClientsAssumption == DaemonClients \cap CliClients = {}
ASSUME BoundsAssumption ==
  MaxPrs \in Nat /\ MaxFaults \in Nat

VARIABLES
  status,    \* plan.status in tasks.json
  pc, shipped, mine,    \* per client: progress, the status in the manifest it pushed,
                        \* the pull request it opened
  prs,       \* the pull requests, see Pulls
  records,   \* metadata.json of the remote jobs, oldest first: [pr, status]
  up, tracked,          \* the daemon; remote_executions[plan], 0 for none
  poll, polled, labelled, \* the poller: progress, pull request, its label
  notices,   \* TrackRemote requests under way
  dropped,   \* history: pull requests that left the list unsettled, for another one
             \* or after a write that failed
  faults

clientVars == <<pc, shipped, mine>>
pollVars   == <<poll, polled, labelled>>
vars == <<status, clientVars, prs, records, up, tracked, pollVars, notices, dropped, faults>>

Init ==
  /\ status = "READY"
  /\ pc = [c \in Clients |-> "idle"]
  /\ shipped = [c \in Clients |-> "none"] /\ mine = [c \in Clients |-> 0]
  /\ prs = <<>>
  /\ records = <<>>
  /\ up = TRUE /\ tracked = 0
  /\ poll = "idle" /\ polled = 0 /\ labelled = FALSE
  /\ notices = {} /\ dropped = {} /\ faults = 0

-----------------------------------------------------------------------------
Recorded(p) == \E i \in DOMAIN records : records[i].pr = p
RecordIs(p, s) == \E i \in DOMAIN records : records[i] = [pr |-> p, status |-> s]
Running == {i \in DOMAIN records : records[i].status = "RemoteRunning"}

Closed(p) == ~prs[p].open

\* A death, or a write that fails.
Fault   == faults < MaxFaults /\ faults' = faults + 1
NoFault == UNCHANGED faults

-----------------------------------------------------------------------------
(* trigger_execution and trigger_remote. *)

At(c, from, to) == pc[c] = from /\ pc' = [pc EXCEPT ![c] = to]

\* The requests of the clients cs are over.
Over(cs) ==
  /\ pc' = [c \in Clients |-> IF c \in cs THEN "idle" ELSE pc[c]]
  /\ shipped' = [c \in Clients |-> IF c \in cs THEN "none" ELSE shipped[c]]
  /\ mine' = [c \in Clients |-> IF c \in cs THEN 0 ELSE mine[c]]

\* The gate: only a READY manifest is executed.
Admit(c) ==
  /\ c \in DaemonClients => up
  /\ status = "READY" /\ Len(prs) < MaxPrs
  /\ At(c, "idle", "admitted")
  /\ UNCHANGED <<status, shipped, mine, prs, records, up, tracked, pollVars, notices, dropped,
                 faults>>

\* trigger_remote_execution: the branch and the files on it, the manifest as it is
\* now among them.
Ship(c) ==
  /\ At(c, "admitted", "shipped")
  /\ shipped' = [shipped EXCEPT ![c] = status]
  /\ UNCHANGED <<status, mine, prs, records, up, tracked, pollVars, notices, dropped, faults>>

Open(c) ==
  /\ Len(prs) < MaxPrs
  /\ At(c, "shipped", "opened")
  /\ prs' = Append(prs, [open |-> TRUE, ready |-> shipped[c] = "READY",
                         result |-> "none", label |-> FALSE])
  /\ mine' = [mine EXCEPT ![c] = Len(prs) + 1]
  /\ UNCHANGED <<status, shipped, records, up, tracked, pollVars, notices, dropped, faults>>

\* Any call of trigger_remote_execution fails, as for a branch that another request
\* of the same second has made.
TriggerFails(c) ==
  /\ pc[c] \in {"admitted", "shipped"}
  /\ Over({c})
  /\ UNCHANGED <<status, prs, records, up, tracked, pollVars, notices, dropped, faults>>

\* If the manifest cannot be written the trigger goes on.
Flip(c) ==
  /\ At(c, "opened", "flipped")
  /\ \/ status' = "EXECUTING" /\ NoFault
     \/ Fault /\ UNCHANGED status
  /\ UNCHANGED <<shipped, mine, prs, records, up, tracked, pollVars, notices, dropped>>

\* JobMetadata::new_remote and save, whose failure nobody sees.
Record(c) ==
  /\ At(c, "flipped", "recorded")
  /\ \/ records' = Append(records, [pr |-> mine[c], status |-> "RemoteRunning"]) /\ NoFault
     \/ Fault /\ UNCHANGED records
  /\ UNCHANGED <<status, shipped, mine, prs, up, tracked, pollVars, notices, dropped>>

\* The URL ends without a number: the run is neither recorded nor tracked.
NoNumber(c) ==
  /\ pc[c] = "flipped" /\ Fault
  /\ Over({c})
  /\ UNCHANGED <<status, prs, records, up, tracked, pollVars, notices, dropped>>

\* remote_executions[plan] = p; what the plan had before is replaced.
TracksNow(p) ==
  /\ tracked' = p
  /\ dropped' = dropped \cup ({tracked} \ {0, p})

\* The daemon tracks what it has triggered itself.
Track(c) ==
  /\ c \in DaemonClients /\ pc[c] = "recorded"
  /\ TracksNow(mine[c])
  /\ Over({c})
  /\ UNCHANGED <<status, prs, records, up, pollVars, notices, faults>>

\* notify_daemon_track_remote: nobody is told while the daemon is down.
Notify(c) ==
  /\ c \in CliClients /\ pc[c] = "recorded"
  /\ notices' = IF up THEN notices \cup {mine[c]} ELSE notices
  /\ Over({c})
  /\ UNCHANGED <<status, prs, records, up, tracked, pollVars, dropped, faults>>

\* TuiRequest::TrackRemote.
TrackRemote(p) ==
  /\ p \in notices
  /\ notices' = notices \ {p}
  /\ TracksNow(p)
  /\ UNCHANGED <<status, clientVars, prs, records, up, pollVars, faults>>

-----------------------------------------------------------------------------
(* poll_remote_executions: the daemon's main loop waits for it, everything *)
(* else goes on.                                                           *)

PollOver == poll' = "idle" /\ polled' = 0 /\ labelled' = FALSE

PollBegin ==
  /\ up /\ poll = "idle" /\ tracked # 0
  /\ poll' = "asking" /\ polled' = tracked
  /\ UNCHANGED <<status, clientVars, prs, records, up, tracked, labelled, notices, dropped, faults>>

PollOpen ==
  /\ poll = "asking" /\ ~Closed(polled)
  /\ PollOver
  /\ UNCHANGED <<status, clientVars, prs, records, up, tracked, notices, dropped, faults>>

\* gh does not answer: the next round asks again.
PollFails ==
  /\ poll = "asking"
  /\ PollOver
  /\ UNCHANGED <<status, clientVars, prs, records, up, tracked, notices, dropped, faults>>

\* Considered defect: a pull request that closed is a success, as is its merge.
AnyClose == Closed(polled)

Succeeded == prs[polled].label

\* State and labels come in one answer; the runner closes first and labels later.
PollClosed ==
  /\ poll = "asking"
  /\ Closed(polled)
  /\ poll' = "closed"
  /\ labelled' = Succeeded
  /\ UNCHANGED <<status, clientVars, prs, records, up, tracked, polled, notices, dropped,
                 faults>>

\* If the manifest cannot be written the metadata are settled all the same.
PollFlip ==
  /\ poll = "closed"
  /\ poll' = "flipped"
  /\ \/ status' = (IF labelled THEN "COMPLETED" ELSE "FAILED") /\ NoFault
     \/ Fault /\ UNCHANGED status
  /\ UNCHANGED <<clientVars, prs, records, up, tracked, polled, labelled, notices, dropped>>

\* Considered defect: the job is looked up by its plan.
OfThePlan(i) == TRUE

JobFound(i) == records[i].pr = polled

\* The job is looked up on disk by its pull request; that the save fails is not seen.
PollRecord ==
  /\ poll = "flipped"
  /\ poll' = "recorded"
  /\ \/ /\ records' = [i \in DOMAIN records |->
              IF JobFound(i)
              THEN [records[i] EXCEPT !.status = IF labelled THEN "Success" ELSE "Failed"]
              ELSE records[i]]
        /\ NoFault /\ UNCHANGED dropped
     \/ Fault /\ dropped' = dropped \cup {polled} /\ UNCHANGED records
  /\ UNCHANGED <<status, clientVars, prs, up, tracked, polled, labelled, notices>>

\* Whatever is tracked for the plan by now is removed.
PollForget ==
  /\ poll = "recorded"
  /\ PollOver /\ tracked' = 0
  /\ dropped' = dropped \cup ({tracked} \ {0, polled})
  /\ UNCHANGED <<status, clientVars, prs, records, up, notices, faults>>

-----------------------------------------------------------------------------
(* Deaths and restarts. *)

DaemonDies ==
  /\ up /\ Fault
  /\ up' = FALSE /\ tracked' = 0 /\ PollOver /\ notices' = {}
  /\ Over(DaemonClients)
  /\ UNCHANGED <<status, prs, records, dropped>>

CliDies(c) ==
  /\ pc[c] # "idle" /\ Fault
  /\ Over({c})
  /\ UNCHANGED <<status, prs, records, up, tracked, pollVars, notices, dropped>>

\* Considered defect: tracked executions live in memory only.
Nothing == 0

Oldest == CHOOSE i \in Running : \A j \in Running : i <= j

\* run_daemon inserts the running remote jobs newest first: of two jobs of one plan
\* the older one stays.
Restored == IF Running = {} THEN 0 ELSE records[Oldest].pr

DaemonStarts ==
  /\ ~up
  /\ up' = TRUE /\ tracked' = Restored
  /\ dropped' = dropped \cup {records[i].pr : i \in {i \in Running : i # Oldest}}
  /\ UNCHANGED <<status, clientVars, prs, records, pollVars, notices, faults>>

-----------------------------------------------------------------------------
(* The runner and the user. *)

\* The workflow executes the pushed manifest, whose gate refuses any status but
\* READY, and closes the pull request: gh pr close ... || true.
Close(p) ==
  /\ prs[p].result = "none"
  /\ \E result \in IF prs[p].ready THEN {"succeeded", "failed"} ELSE {"failed"}, open \in BOOLEAN :
       prs' = [prs EXCEPT ![p] = [@ EXCEPT !.result = result, !.open = open]]
  /\ UNCHANGED <<status, clientVars, records, up, tracked, pollVars, notices, dropped, faults>>

\* gh pr edit --add-label succeeded || true, after the close; it may never take
\* effect.  Nobody reads the label of a run that failed.
Label(p) ==
  /\ prs[p].result = "succeeded" /\ ~prs[p].label
  /\ prs' = [prs EXCEPT ![p] = [@ EXCEPT !.label = TRUE]]
  /\ UNCHANGED <<status, clientVars, records, up, tracked, pollVars, notices, dropped, faults>>

\* The user makes the plan executable again.
MarkReady ==
  /\ status # "READY"
  /\ status' = "READY"
  /\ UNCHANGED <<clientVars, prs, records, up, tracked, pollVars, notices, dropped, faults>>

-----------------------------------------------------------------------------
ClientStep(c) ==
  \/ Ship(c) \/ Open(c) \/ TriggerFails(c)
  \/ Flip(c) \/ Record(c) \/ NoNumber(c) \/ Track(c) \/ Notify(c)

PollStep == PollBegin \/ PollOpen \/ PollClosed \/ PollFlip \/ PollRecord \/ PollForget

Next ==
  \/ \E c \in Clients : Admit(c) \/ ClientStep(c)
  \/ \E p \in notices : TrackRemote(p)
  \/ PollStep \/ PollFails
  \/ DaemonDies \/ \E c \in CliClients : CliDies(c)
  \/ DaemonStarts
  \/ MarkReady
  \/ \E p \in DOMAIN prs : Close(p) \/ Label(p)

Spec == Init /\ [][Next]_vars

\* Whoever has begun goes on, the daemon is started again, and gh answers now and
\* then.  No pull request has to close.
Fairness ==
  /\ \A c \in Clients : WF_vars(ClientStep(c))
  /\ WF_vars(\E p \in notices : TrackRemote(p))
  /\ WF_vars(PollStep) /\ SF_vars(PollClosed)
  /\ WF_vars(DaemonStarts)

FairSpec == Spec /\ Fairness

-----------------------------------------------------------------------------
Statuses == {"READY", "EXECUTING", "COMPLETED", "FAILED"}

\* [label]: the label succeeded.
Pulls == [open : BOOLEAN, ready : BOOLEAN, result : {"none", "succeeded", "failed"},
          label : BOOLEAN]

TypeOK ==
  /\ status \in Statuses
  /\ pc \in [Clients -> {"idle", "admitted", "shipped", "opened", "flipped", "recorded"}]
  /\ shipped \in [Clients -> Statuses \cup {"none"}]
  /\ mine \in [Clients -> Prs \cup {0}]
  /\ prs \in Seq(Pulls) /\ Len(prs) <= MaxPrs
  /\ records \in Seq([pr : Prs, status : {"RemoteRunning", "Success", "Failed"}])
  /\ up \in BOOLEAN /\ tracked \in Prs \cup {0}
  /\ poll \in {"idle", "asking", "closed", "flipped", "recorded"}
  /\ polled \in Prs \cup {0} /\ labelled \in BOOLEAN
  /\ notices \subseteq Prs /\ dropped \subseteq Prs
  /\ faults \in 0 .. MaxFaults

\* A job is recorded as finished only when its pull request is closed, and as a
\* success only when its run succeeded; the manifest becomes COMPLETED only after a
\* run of the plan that succeeded.  This whatever other executions, deaths, lost
\* writes and late labels come in between (poll_remote_executions).
RecordTruthful ==
  /\ \A i \in DOMAIN records : records[i].status # "RemoteRunning" => Closed(records[i].pr)
  /\ \A i \in DOMAIN records :
       records[i].status = "Success" => prs[records[i].pr].result = "succeeded"
  /\ status = "COMPLETED" => \E p \in DOMAIN prs : prs[p].result = "succeeded"

\* A success that is recorded is never taken back: not by a second poll of the same
\* pull request, which a late TrackRemote or a restart brings about, and not by the
\* outcome of another execution of the plan (poll_remote_executions).
SuccessStands ==
  [][\A p \in Prs : RecordIs(p, "Success") => RecordIs(p, "Success")']_vars

\* "the matching COMPLETED / FAILED transitions land in poll_remote_executions when
\* the PR closes" (trigger_execution): a run that is recorded, and that the daemon
\* tracks or is being told to track, is settled however often the daemon dies and is
\* started again, unless another execution of the plan takes its place in the list
\* or the outcome could not be saved.
Settles ==
  \A p \in Prs :
    (tracked = p \/ p \in notices) /\ Recorded(p) /\ Closed(p)
      ~> RecordIs(p, "Success") \/ RecordIs(p, "Failed") \/ p \in dropped

\* The comment without the exception: overlapping executions refute it.
TransitionsLand ==
  \A p \in Prs :
    tracked = p /\ Recorded(p) /\ Closed(p) ~> RecordIs(p, "Success") \/ RecordIs(p, "Failed")

\* "The local daemon monitors the PR and updates the plan status to COMPLETED or
\* FAILED" (README of the execution repository): a run that succeeded is not recorded
\* as Failed.  Refuted: the label comes after the close.
FailedIsFailed ==
  \A p \in DOMAIN prs : RecordIs(p, "Failed") => prs[p].result = "failed"
=============================================================================
