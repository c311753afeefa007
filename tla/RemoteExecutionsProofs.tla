----------------------- MODULE RemoteExecutionsProofs -----------------------
(***************************************************************************)
(* Theorems about RemoteExecutions, for every set of clients and every     *)
(* bound: whatever executions overlap, whoever dies and whatever write is  *)
(* lost.  BaseInv is inductive; besides types it says which pull requests  *)
(* exist, what a pull request keeps, and what the poller knows.            *)
(***************************************************************************)
EXTENDS RemoteExecutions, WellFoundedInduction, TLAPS

JobRecord == [pr : Prs, status : {"RemoteRunning", "Success", "Failed"}]

-----------------------------------------------------------------------------
(* The list of pull requests. *)

LEMMA OpenedAnother ==
  ASSUME NEW s \in Seq(Pulls), NEW r \in Pulls
  PROVE  LET t == Append(s, r) IN
         /\ t \in Seq(Pulls) /\ Len(t) = Len(s) + 1
         /\ DOMAIN t = 1 .. (Len(s) + 1) /\ DOMAIN s = 1 .. Len(s)
         /\ \A q \in DOMAIN s : t[q] = s[q]
         /\ t[Len(s) + 1] = r
<1> HIDE DEF Pulls
<1>1. QED
  OBVIOUS

LEMMA ChangedOne ==
  ASSUME NEW s \in Seq(Pulls), NEW p \in DOMAIN s, NEW r \in Pulls
  PROVE  LET t == [s EXCEPT ![p] = r] IN
         /\ t \in Seq(Pulls) /\ Len(t) = Len(s) /\ DOMAIN t = DOMAIN s
         /\ \A q \in DOMAIN s : t[q] = IF q = p THEN r ELSE s[q]
<1> HIDE DEF Pulls
<1>1. QED
  OBVIOUS

\* A pull request without a result is open; only a run that succeeded gets the label.
PullsInv ==
  \A p \in DOMAIN prs : /\ prs[p].result = "none" => prs[p].open
                        /\ prs[p].label => prs[p].result = "succeeded"

\* The runner's steps change one pull request, within its type.
LEMMA RunnerStep ==
  ASSUME TypeOK, PullsInv, NEW p \in DOMAIN prs, Close(p) \/ Label(p)
  PROVE  \E r \in Pulls :
           /\ prs' = [prs EXCEPT ![p] = r]
           /\ ~prs[p].open => ~r.open
           /\ prs[p].label => r.label
           /\ prs[p].result = "succeeded" => r.result = "succeeded"
           /\ r.result = "none" => r.open
           /\ r.label => r.result = "succeeded"
<1>1. prs[p] \in Pulls
  BY DEF TypeOK
<1>2. CASE Close(p)
  <2>1. PICK result \in {"succeeded", "failed"}, open \in BOOLEAN :
           prs' = [prs EXCEPT ![p] = [prs[p] EXCEPT !.result = result, !.open = open]]
    BY <1>2 DEF Close
  <2> DEFINE r == [prs[p] EXCEPT !.result = result, !.open = open]
  <2>2. r \in Pulls /\ r.result = result /\ r.open = open /\ r.label = prs[p].label
    BY <1>1 DEF Pulls
  <2>3. prs[p].result = "none" /\ prs[p].open /\ ~prs[p].label
    BY <1>2, <1>1 DEF Close, PullsInv, Pulls
  <2> HIDE DEF r
  <2>4. prs' = [prs EXCEPT ![p] = r]
    BY <2>1 DEF r
  <2>5. QED
    BY <2>2, <2>3, <2>4
<1>3. CASE Label(p)
  <2> DEFINE r == [prs[p] EXCEPT !.label = TRUE]
  <2>1. prs' = [prs EXCEPT ![p] = r] /\ prs[p].result = "succeeded"
    BY <1>3 DEF Label
  <2>2. r \in Pulls /\ r.result = prs[p].result /\ r.open = prs[p].open /\ r.label
    BY <1>1 DEF Pulls
  <2> HIDE DEF r
  <2>3. QED
    BY <2>1, <2>2
<1>4. QED
  BY <1>2, <1>3

\* Every pull request stays, closed if it was, with its label and its success.
PrsKept ==
  /\ DOMAIN prs \subseteq DOMAIN prs'
  /\ \A q \in DOMAIN prs :
       /\ Closed(q) => ~prs'[q].open
       /\ prs[q].label => prs'[q].label
       /\ prs[q].result = "succeeded" => prs'[q].result = "succeeded"

\* What Open appends.
Opened(ready) == [open |-> TRUE, ready |-> ready, result |-> "none", label |-> FALSE]

LEMMA OpenAppends ==
  ASSUME TypeOK, NEW c \in Clients, Open(c)
  PROVE  \E r \in Pulls : /\ r.open /\ r.result = "none" /\ ~r.label
                          /\ prs' = Append(prs, r)
<1> DEFINE r == Opened(shipped[c] = "READY")
<1>1. r \in Pulls /\ r.open /\ r.result = "none" /\ ~r.label
  BY DEF Pulls, Opened
<1>2. prs' = Append(prs, r)
  BY DEF Open, Opened
<1> HIDE DEF r
<1>3. QED
  BY <1>1, <1>2

LEMMA PrsStay == ASSUME TypeOK, PullsInv, [Next]_vars PROVE PrsKept /\ PullsInv' /\ prs' \in Seq(Pulls)
<1>1. prs \in Seq(Pulls)
  BY DEF TypeOK
<1>2. ASSUME NEW c \in Clients, Open(c) PROVE PrsKept /\ PullsInv' /\ prs' \in Seq(Pulls)
  <2>1. PICK r \in Pulls : /\ r.open /\ r.result = "none" /\ ~r.label /\ prs' = Append(prs, r)
    BY <1>2, OpenAppends
  <2>2. /\ prs' \in Seq(Pulls)
        /\ DOMAIN prs' = 1 .. (Len(prs) + 1) /\ DOMAIN prs = 1 .. Len(prs) /\ Len(prs) \in Nat
        /\ \A q \in DOMAIN prs : prs'[q] = prs[q]
        /\ prs'[Len(prs) + 1] = r
    BY <1>1, <2>1, OpenedAnother
  <2>3. \A q \in DOMAIN prs' : q \in DOMAIN prs \/ q = Len(prs) + 1
    BY <2>2
  <2>4. DOMAIN prs \subseteq DOMAIN prs'
    BY <2>2
  <2>5. QED
    BY <2>1, <2>2, <2>3, <2>4 DEF PrsKept, PullsInv, Closed
<1>3. ASSUME NEW p \in DOMAIN prs, Close(p) \/ Label(p)
      PROVE  PrsKept /\ PullsInv' /\ prs' \in Seq(Pulls)
  <2>1. PICK r \in Pulls :
           /\ prs' = [prs EXCEPT ![p] = r]
           /\ ~prs[p].open => ~r.open
           /\ prs[p].label => r.label
           /\ prs[p].result = "succeeded" => r.result = "succeeded"
           /\ r.result = "none" => r.open
           /\ r.label => r.result = "succeeded"
    BY <1>3, RunnerStep
  <2>2. /\ prs' \in Seq(Pulls) /\ DOMAIN prs' = DOMAIN prs
        /\ \A q \in DOMAIN prs : prs'[q] = IF q = p THEN r ELSE prs[q]
    BY <1>1, <2>1, ChangedOne
  <2>3. QED
    BY <2>1, <2>2 DEF PrsKept, PullsInv, Closed
<1>4. CASE UNCHANGED prs
  BY <1>1, <1>4 DEF PrsKept, PullsInv, Closed
<1>5. QED
  BY <1>2, <1>3, <1>4
     DEF Next, vars, clientVars, ClientStep, PollStep, Admit, Ship, TriggerFails, Flip, Record,
         NoNumber, Track, Notify, TrackRemote, PollBegin, PollOpen, PollFails, PollClosed, PollFlip,
         PollRecord, PollForget, DaemonDies, CliDies, DaemonStarts, MarkReady

-----------------------------------------------------------------------------
(* The restart. *)

LEMMA OldestRuns == ASSUME TypeOK, Running # {} PROVE Oldest \in Running
<1>1. Running \subseteq Nat
  BY DEF Running, TypeOK
<1>2. PICK i \in Running : \A j \in Running : ~(<<j, i>> \in OpToRel(<, Nat))
  BY <1>1, NatLessThanWellFounded, WFMin
<1>3. \A j \in Running : ~(j < i)
  BY <1>1, <1>2 DEF OpToRel
<1>4. \A j \in Running : i <= j
  BY <1>1, <1>3
<1>5. QED
  BY <1>4 DEF Oldest

-----------------------------------------------------------------------------
(* The inductive invariant. *)

\* Nothing names a pull request that does not exist.
NamesInv ==
  /\ \A c \in Clients : pc[c] \in {"opened", "flipped", "recorded"} => mine[c] \in DOMAIN prs
  /\ tracked # 0 => tracked \in DOMAIN prs
  /\ notices \subseteq DOMAIN prs
  /\ \A i \in DOMAIN records : records[i].pr \in DOMAIN prs
  /\ poll # "idle" => polled \in DOMAIN prs

\* What the poller knows of the pull request it asked for stays true: that it is
\* closed, and that it has the label if the answer said so.  If the answer did not, no
\* success of it is recorded yet.
PolledInv ==
  /\ poll \in {"closed", "flipped", "recorded"} =>
       Closed(polled) /\ (labelled => prs[polled].label)
  /\ poll \in {"closed", "flipped"} /\ RecordIs(polled, "Success") => labelled

\* A finished record belongs to a closed pull request, a success to a labelled one.
RecordsInv ==
  \A i \in DOMAIN records :
    /\ records[i].status # "RemoteRunning" => Closed(records[i].pr)
    /\ records[i].status = "Success" => prs[records[i].pr].label

ManifestInv == status = "COMPLETED" => \E p \in DOMAIN prs : prs[p].result = "succeeded"

BaseInv == TypeOK /\ PullsInv /\ NamesInv /\ PolledInv /\ RecordsInv /\ ManifestInv

LEMMA InitBase == Init => BaseInv
<1> SUFFICES ASSUME Init PROVE BaseInv
  OBVIOUS
<1>1. prs = <<>> /\ records = <<>> /\ <<>> \in Seq(Pulls) /\ <<>> \in Seq(JobRecord)
      /\ Len(<<>>) = 0 /\ DOMAIN <<>> = {}
  BY DEF Init
<1>2. TypeOK
  <2>1. status \in Statuses /\ faults \in 0 .. MaxFaults /\ Len(prs) <= MaxPrs
    BY <1>1, BoundsAssumption DEF Init, Statuses
  <2>2. shipped \in [Clients -> Statuses \cup {"none"}] /\ mine \in [Clients -> Prs \cup {0}]
    BY DEF Init
  <2>3. QED
    BY <1>1, <2>1, <2>2 DEF Init, TypeOK, JobRecord
<1>3. PullsInv /\ NamesInv /\ RecordsInv
  BY <1>1 DEF Init, PullsInv, NamesInv, RecordsInv
<1>4. PolledInv /\ ManifestInv
  BY DEF Init, PolledInv, ManifestInv
<1>5. QED
  BY <1>2, <1>3, <1>4 DEF BaseInv

\* What stays as long as pull requests are kept and records and poller stay.
LEMMA KeptRecords ==
  ASSUME BaseInv, PrsKept, UNCHANGED records
  PROVE  /\ RecordsInv'
         /\ \A i \in DOMAIN records' : records'[i].pr \in DOMAIN prs'
BY DEF BaseInv, RecordsInv, NamesInv, PrsKept, Closed

LEMMA KeptPolled ==
  ASSUME BaseInv, PrsKept, UNCHANGED <<poll, polled, labelled, records>>
  PROVE  PolledInv' /\ (poll' # "idle" => polled' \in DOMAIN prs')
BY DEF BaseInv, PolledInv, NamesInv, PrsKept, Closed, RecordIs

LEMMA KeptManifest ==
  ASSUME BaseInv, PrsKept, status' = status \/ status' # "COMPLETED"
  PROVE  ManifestInv'
BY DEF BaseInv, ManifestInv, PrsKept

\* A fault is counted, or none happens.
LEMMA CountedFault == ASSUME TypeOK, Fault \/ NoFault PROVE faults' \in 0 .. MaxFaults
BY BoundsAssumption DEF TypeOK, Fault, NoFault

LEMMA StepBase == BaseInv /\ [Next]_vars => BaseInv'
<1> SUFFICES ASSUME BaseInv, [Next]_vars PROVE BaseInv'
  OBVIOUS
<1>t. TypeOK /\ PullsInv /\ NamesInv /\ PolledInv /\ RecordsInv /\ ManifestInv
  BY DEF BaseInv
<1>k. PrsKept /\ PullsInv' /\ prs' \in Seq(Pulls)
  BY <1>t, PrsStay
<1>d. DOMAIN prs = 1 .. Len(prs) /\ Len(prs) \in 0 .. MaxPrs /\ DOMAIN prs \subseteq Prs
  BY <1>t, BoundsAssumption DEF TypeOK, Prs
<1>1. ASSUME NEW c \in Clients, Admit(c) \/ Ship(c) PROVE BaseInv'
  <2>1. /\ \E to \in {"admitted", "shipped"} : pc' = [pc EXCEPT ![c] = to]
        /\ UNCHANGED <<status, mine, prs, records, up, tracked, poll, polled, labelled, notices,
                       dropped, faults>>
        /\ shipped' \in [Clients -> Statuses \cup {"none"}]
    BY <1>1, <1>t DEF Admit, Ship, At, pollVars, TypeOK
  <2>2. TypeOK'
    BY <1>t, <2>1, ZenonT(40) DEF TypeOK
  <2>3. NamesInv'
    BY <1>t, <2>1 DEF TypeOK, NamesInv
  <2>4. QED
    BY <1>k, <2>1, <2>2, <2>3, KeptRecords, KeptPolled, KeptManifest DEF BaseInv
<1>2. ASSUME NEW c \in Clients, Open(c) PROVE BaseInv'
  <2>1. PICK r \in Pulls : prs' = Append(prs, r)
    BY <1>2, <1>t, OpenAppends
  <2>2. prs \in Seq(Pulls)
    BY <1>t DEF TypeOK
  <2>3. Len(prs') = Len(prs) + 1 /\ DOMAIN prs' = 1 .. (Len(prs) + 1)
    BY <2>1, <2>2, OpenedAnother
  <2>4. Len(prs') <= MaxPrs /\ Len(prs) + 1 \in Prs /\ Len(prs) + 1 \in DOMAIN prs'
    BY <1>2, <1>d, <2>3, BoundsAssumption DEF Open, Prs
  <2>5. /\ pc' = [pc EXCEPT ![c] = "opened"] /\ mine' = [mine EXCEPT ![c] = Len(prs) + 1]
        /\ UNCHANGED <<status, shipped, records, up, tracked, poll, polled, labelled, notices,
                       dropped, faults>>
    BY <1>2 DEF Open, At, pollVars
  <2>6. TypeOK'
    BY <1>t, <1>k, <2>4, <2>5 DEF TypeOK
  <2>7. NamesInv'
    BY <1>t, <1>k, <2>4, <2>5 DEF TypeOK, NamesInv, PrsKept
  <2>8. QED
    BY <1>k, <2>5, <2>6, <2>7, KeptRecords, KeptPolled, KeptManifest DEF BaseInv
<1>3. ASSUME NEW c \in Clients, Flip(c) PROVE BaseInv'
  <2>1. /\ pc[c] = "opened" /\ pc' = [pc EXCEPT ![c] = "flipped"]
        /\ status' \in {status, "EXECUTING"}
        /\ UNCHANGED <<shipped, mine, prs, records, up, tracked, poll, polled, labelled, notices,
                       dropped>>
        /\ Fault \/ NoFault
    BY <1>3 DEF Flip, At, pollVars
  <2>2. TypeOK'
    BY <1>t, <2>1, CountedFault DEF TypeOK, Statuses
  <2>3. NamesInv'
    BY <1>t, <2>1 DEF TypeOK, NamesInv
  <2>4. QED
    BY <1>k, <2>1, <2>2, <2>3, KeptRecords, KeptPolled, KeptManifest DEF BaseInv
<1>4. ASSUME NEW c \in Clients, Record(c) PROVE BaseInv'
  <2>1. /\ pc[c] = "flipped" /\ pc' = [pc EXCEPT ![c] = "recorded"]
        /\ UNCHANGED <<status, shipped, mine, prs, up, tracked, poll, polled, labelled, notices,
                       dropped>>
        /\ Fault \/ NoFault
    BY <1>4 DEF Record, At, pollVars
  <2> DEFINE new == [pr |-> mine[c], status |-> "RemoteRunning"]
  <2>2. mine[c] \in DOMAIN prs /\ mine[c] \in Prs
    BY <1>t, <1>d, <2>1 DEF NamesInv
  <2>3. records \in Seq(JobRecord) /\ new \in JobRecord
    BY <1>t, <2>2 DEF TypeOK, JobRecord
  <2>4. CASE UNCHANGED records
    <3>1. TypeOK'
      BY <1>t, <2>1, <2>4, CountedFault DEF TypeOK
    <3>2. NamesInv'
      BY <1>t, <2>1, <2>4 DEF TypeOK, NamesInv
    <3>3. QED
      BY <1>k, <2>1, <2>4, <3>1, <3>2, KeptRecords, KeptPolled, KeptManifest DEF BaseInv
  <2>5. CASE records' = Append(records, new)
    <3>1. /\ records' \in Seq(JobRecord) /\ DOMAIN records' = 1 .. (Len(records) + 1)
          /\ \A i \in DOMAIN records : records'[i] = records[i]
          /\ records'[Len(records) + 1] = new
          /\ DOMAIN records = 1 .. Len(records) /\ Len(records) \in Nat
      BY <2>3, <2>5
    <3>2. \A i \in DOMAIN records' : i \in DOMAIN records \/ i = Len(records) + 1
      BY <3>1
    <3>3. new.pr = mine[c] /\ new.status = "RemoteRunning"
      OBVIOUS
    <3> HIDE DEF new
    <3>4. TypeOK'
      BY <1>t, <2>1, <3>1, CountedFault DEF TypeOK, JobRecord
    <3>5. NamesInv'
      BY <1>t, <2>1, <2>2, <3>1, <3>2, <3>3 DEF NamesInv, TypeOK
    <3>6. RecordsInv'
      BY <1>t, <2>1, <3>1, <3>2, <3>3 DEF RecordsInv, Closed
    <3>7. \A p \in Prs : RecordIs(p, "Success")' => RecordIs(p, "Success")
      BY <3>1, <3>2, <3>3 DEF RecordIs
    <3>8. poll # "idle" => polled \in Prs
      BY <1>t, <1>d DEF NamesInv
    <3>9. PolledInv'
      BY <1>t, <2>1, <3>7, <3>8 DEF PolledInv, Closed, RecordIs
    <3>10. QED
      BY <1>k, <2>1, <3>4, <3>5, <3>6, <3>9, KeptManifest DEF BaseInv
  <2>6. QED
    BY <1>4, <2>4, <2>5 DEF Record
<1>5. ASSUME NEW cs \in SUBSET Clients, Over(cs), UNCHANGED <<status, prs, records>>,
             TypeOK', UNCHANGED <<poll, polled, labelled>> \/ PollOver,
             tracked' # 0 => tracked' \in DOMAIN prs, notices' \subseteq DOMAIN prs
      PROVE  BaseInv'
  <2>1. NamesInv'
    BY <1>t, <1>5 DEF Over, NamesInv, PollOver
  <2>2. PolledInv'
    BY <1>t, <1>5 DEF PolledInv, PollOver, RecordIs, Closed
  <2>3. QED
    BY <1>k, <1>5, <2>1, <2>2, KeptRecords, KeptManifest DEF BaseInv
<1>6. ASSUME NEW c \in Clients, TriggerFails(c) \/ NoNumber(c) \/ CliDies(c) PROVE BaseInv'
  <2>1. /\ Over({c})
        /\ UNCHANGED <<status, prs, records, up, tracked, poll, polled, labelled, notices, dropped>>
        /\ Fault \/ NoFault
    BY <1>6 DEF TriggerFails, NoNumber, CliDies, pollVars, NoFault
  <2>2. TypeOK'
    BY <1>t, <2>1, CountedFault DEF TypeOK, Over
  <2>3. QED
    BY <1>t, <1>5, <2>1, <2>2 DEF NamesInv
<1>7. ASSUME NEW c \in Clients, Track(c) PROVE BaseInv'
  <2>1. mine[c] \in DOMAIN prs /\ mine[c] \in Prs
    BY <1>7, <1>t, <1>d DEF Track, NamesInv
  <2>2. /\ Over({c}) /\ tracked' = mine[c] /\ dropped' = dropped \cup ({tracked} \ {0, mine[c]})
        /\ UNCHANGED <<status, prs, records, up, poll, polled, labelled, notices, faults>>
    BY <1>7 DEF Track, TracksNow, pollVars
  <2>3. TypeOK'
    BY <1>t, <2>1, <2>2 DEF TypeOK, Over
  <2>4. QED
    BY <1>t, <1>5, <2>1, <2>2, <2>3 DEF NamesInv
<1>8. ASSUME NEW c \in Clients, Notify(c) PROVE BaseInv'
  <2>1. mine[c] \in DOMAIN prs /\ mine[c] \in Prs
    BY <1>8, <1>t, <1>d DEF Notify, NamesInv
  <2>2. /\ Over({c}) /\ notices' \subseteq notices \cup {mine[c]}
        /\ UNCHANGED <<status, prs, records, up, tracked, poll, polled, labelled, dropped, faults>>
    BY <1>8 DEF Notify, pollVars
  <2>3. TypeOK'
    BY <1>t, <2>1, <2>2 DEF TypeOK, Over
  <2>4. QED
    BY <1>t, <1>5, <2>1, <2>2, <2>3 DEF NamesInv
<1>9. ASSUME NEW p \in notices, TrackRemote(p) PROVE BaseInv'
  <2>1. /\ tracked' = p /\ dropped' = dropped \cup ({tracked} \ {0, p}) /\ notices' = notices \ {p}
        /\ UNCHANGED <<status, pc, shipped, mine, prs, records, up, poll, polled, labelled, faults>>
    BY <1>9 DEF TrackRemote, TracksNow, clientVars, pollVars
  <2>2. TypeOK'
    BY <1>t, <2>1 DEF TypeOK
  <2>3. NamesInv'
    BY <1>t, <2>1 DEF NamesInv
  <2>4. QED
    BY <1>k, <2>1, <2>2, <2>3, KeptRecords, KeptPolled, KeptManifest DEF BaseInv
<1>10. CASE PollBegin \/ PollOpen \/ PollFails \/ PollForget
  <2>1. /\ \/ poll' = "asking" /\ polled' = tracked /\ tracked # 0 /\ labelled' = labelled
           \/ PollOver
        /\ tracked' \in {tracked, 0} /\ dropped' \subseteq dropped \cup ({tracked} \ {0})
        /\ UNCHANGED <<status, pc, shipped, mine, prs, records, up, notices, faults>>
    BY <1>10 DEF PollBegin, PollOpen, PollFails, PollForget, clientVars
  <2>2. TypeOK'
    BY <1>t, <2>1 DEF TypeOK, PollOver
  <2>3. NamesInv' /\ PolledInv'
    BY <1>t, <2>1 DEF NamesInv, PolledInv, PollOver
  <2>4. QED
    BY <1>k, <2>1, <2>2, <2>3, KeptRecords, KeptManifest DEF BaseInv
<1>11. CASE PollClosed
  <2>1. /\ poll = "asking" /\ Closed(polled) /\ poll' = "closed" /\ labelled' = prs[polled].label
        /\ UNCHANGED <<status, pc, shipped, mine, prs, records, up, tracked, polled, notices, dropped,
                       faults>>
    BY <1>11 DEF PollClosed, Succeeded, clientVars
  <2>2. polled \in DOMAIN prs
    BY <1>t, <2>1 DEF NamesInv
  <2>3. labelled' \in BOOLEAN
    <3>1. prs[polled] \in Pulls
      BY <1>t, <2>2 DEF TypeOK
    <3>2. QED
      BY <2>1, <3>1 DEF Pulls
  <2>4. TypeOK'
    BY <1>t, <2>1, <2>3 DEF TypeOK
  <2>5. RecordIs(polled, "Success") => prs[polled].label
    <3> SUFFICES ASSUME NEW i \in DOMAIN records, records[i] = [pr |-> polled, status |-> "Success"]
                 PROVE  prs[polled].label
      BY DEF RecordIs
    <3>1. records[i].pr = polled /\ records[i].status = "Success"
      OBVIOUS
    <3>2. QED
      BY <1>t, <3>1 DEF RecordsInv
  <2>6. NamesInv' /\ PolledInv'
    BY <1>t, <2>1, <2>5 DEF NamesInv, PolledInv, RecordIs, Closed
  <2>7. QED
    BY <1>k, <2>1, <2>4, <2>6, KeptRecords, KeptManifest DEF BaseInv
<1>12. CASE PollFlip
  <2>1. /\ poll = "closed" /\ poll' = "flipped"
        /\ status' \in {status, IF labelled THEN "COMPLETED" ELSE "FAILED"}
        /\ UNCHANGED <<pc, shipped, mine, prs, records, up, tracked, polled, labelled, notices, dropped>>
        /\ Fault \/ NoFault
    BY <1>12 DEF PollFlip, clientVars
  <2>2. TypeOK'
    BY <1>t, <2>1, CountedFault DEF TypeOK, Statuses
  <2>3. NamesInv' /\ PolledInv'
    BY <1>t, <2>1 DEF NamesInv, PolledInv, RecordIs, Closed
  <2>4. labelled => \E p \in DOMAIN prs : prs[p].result = "succeeded"
    BY <1>t, <2>1 DEF NamesInv, PolledInv, PullsInv
  <2>5. ManifestInv'
    BY <1>t, <2>1, <2>4 DEF ManifestInv
  <2>6. QED
    BY <1>k, <2>1, <2>2, <2>3, <2>5, KeptRecords DEF BaseInv
<1>13. CASE PollRecord
  <2>1. /\ poll = "flipped" /\ poll' = "recorded"
        /\ UNCHANGED <<status, pc, shipped, mine, prs, up, tracked, polled, labelled, notices>>
        /\ Fault \/ NoFault
        /\ dropped' \subseteq dropped \cup {polled}
    BY <1>13 DEF PollRecord, clientVars
  <2>2. polled \in DOMAIN prs /\ polled \in Prs /\ Closed(polled) /\ (labelled => prs[polled].label)
    BY <1>t, <1>d, <2>1 DEF NamesInv, PolledInv
  <2> DEFINE Ended(r) == [r EXCEPT !.status = IF labelled THEN "Success" ELSE "Failed"]
  <2>3. CASE UNCHANGED records
    <3>1. TypeOK'
      BY <1>t, <2>1, <2>2, <2>3, CountedFault DEF TypeOK
    <3>2. NamesInv' /\ PolledInv'
      BY <1>t, <2>1, <2>2, <2>3 DEF NamesInv, PolledInv, Closed
    <3>3. QED
      BY <1>k, <2>1, <2>3, <3>1, <3>2, KeptRecords, KeptManifest DEF BaseInv
  <2>4. CASE records' = [i \in DOMAIN records |->
                           IF records[i].pr = polled THEN Ended(records[i]) ELSE records[i]]
    <3>1. records \in Seq(JobRecord)
      BY <1>t DEF TypeOK, JobRecord
    <3>2. \A r \in JobRecord : /\ Ended(r) \in JobRecord /\ Ended(r).pr = r.pr
                               /\ Ended(r).status = IF labelled THEN "Success" ELSE "Failed"
      BY DEF JobRecord
    <3> HIDE DEF Ended
    <3>3. \A i \in DOMAIN records :
            /\ records'[i] \in JobRecord /\ records'[i].pr = records[i].pr
            /\ records'[i].status = (IF records[i].pr # polled THEN records[i].status
                                     ELSE IF labelled THEN "Success" ELSE "Failed")
      BY <2>4, <3>1, <3>2
    <3>4. records' \in Seq(JobRecord) /\ DOMAIN records' = DOMAIN records
      BY <2>4, <3>1, <3>3
    <3>5. TypeOK'
      BY <1>t, <2>1, <2>2, <3>4, CountedFault DEF TypeOK, JobRecord
    <3>6. NamesInv' /\ PolledInv'
      BY <1>t, <2>1, <2>2, <3>3, <3>4 DEF NamesInv, PolledInv, Closed
    <3>7. RecordsInv'
      BY <1>t, <2>1, <2>2, <3>3, <3>4 DEF RecordsInv, Closed
    <3>8. QED
      BY <1>k, <2>1, <3>5, <3>6, <3>7, KeptManifest DEF BaseInv
  <2>5. QED
    BY <1>13, <2>3, <2>4 DEF PollRecord, JobFound
<1>14. CASE DaemonDies
  <2>1. /\ Over(DaemonClients) /\ PollOver /\ tracked' = 0 /\ notices' = {} /\ up' = FALSE /\ Fault
        /\ UNCHANGED <<status, prs, records, dropped>>
    BY <1>14 DEF DaemonDies
  <2>2. TypeOK'
    BY <1>t, <2>1, CountedFault DEF TypeOK, Over, PollOver
  <2>3. DaemonClients \in SUBSET Clients
    BY DEF Clients
  <2>4. QED
    BY <1>5, <2>1, <2>2, <2>3
<1>15. CASE DaemonStarts
  <2>1. /\ up' = TRUE /\ tracked' = Restored
        /\ dropped' = dropped \cup {records[i].pr : i \in {i \in Running : i # Oldest}}
        /\ UNCHANGED <<status, pc, shipped, mine, prs, records, poll, polled, labelled, notices, faults>>
    BY <1>15 DEF DaemonStarts, clientVars, pollVars
  <2>2. \A i \in Running : records[i].pr \in DOMAIN prs /\ records[i].pr \in Prs
    BY <1>t, <1>d DEF Running, NamesInv
  <2>3. Restored = 0 \/ (Restored \in DOMAIN prs /\ Restored \in Prs)
    BY <1>t, <2>2, OldestRuns DEF Restored
  <2>4. TypeOK'
    BY <1>t, <2>1, <2>2, <2>3 DEF TypeOK
  <2>5. NamesInv'
    BY <1>t, <2>1, <2>3 DEF NamesInv
  <2>6. QED
    BY <1>k, <2>1, <2>4, <2>5, KeptRecords, KeptPolled, KeptManifest DEF BaseInv
<1>16. ASSUME NEW p \in DOMAIN prs, Close(p) \/ Label(p) PROVE BaseInv'
  <2>1. UNCHANGED <<status, pc, shipped, mine, records, up, tracked, poll, polled, labelled, notices,
                    dropped, faults>>
    BY <1>16 DEF Close, Label, clientVars, pollVars
  <2>2. Len(prs') <= MaxPrs
    <3>1. PICK r \in Pulls : prs' = [prs EXCEPT ![p] = r]
      BY <1>16, <1>t, RunnerStep
    <3>2. QED
      BY <1>t, <3>1, ChangedOne DEF TypeOK
  <2>3. TypeOK'
    BY <1>t, <1>k, <2>1, <2>2 DEF TypeOK
  <2>4. NamesInv'
    BY <1>t, <1>k, <2>1 DEF NamesInv, PrsKept
  <2>5. QED
    BY <1>k, <2>1, <2>3, <2>4, KeptRecords, KeptPolled, KeptManifest DEF BaseInv
<1>17. CASE MarkReady \/ UNCHANGED vars
  <2>1. /\ status' \in {status, "READY"}
        /\ UNCHANGED <<pc, shipped, mine, prs, records, up, tracked, poll, polled, labelled, notices,
                       dropped, faults>>
    BY <1>17 DEF MarkReady, vars, clientVars, pollVars
  <2>2. TypeOK'
    BY <1>t, <2>1 DEF TypeOK, Statuses
  <2>3. NamesInv'
    BY <1>t, <2>1 DEF NamesInv
  <2>4. QED
    BY <1>k, <2>1, <2>2, <2>3, KeptRecords, KeptPolled, KeptManifest DEF BaseInv
<1>18. QED
  BY <1>1, <1>2, <1>3, <1>4, <1>6, <1>7, <1>8, <1>9, <1>10, <1>11, <1>12, <1>13, <1>14, <1>15,
     <1>16, <1>17
     DEF Next, ClientStep, PollStep, Clients

\* The inductive invariant holds in every behaviour, overlapping executions, late
\* labels, deaths and lost writes included.
THEOREM RemoteInvariant == Spec => []BaseInv
<1>1. QED
  BY InitBase, StepBase, PTL DEF Spec

\* Every variable keeps its type.
THEOREM RemoteTypes == Spec => []TypeOK
<1>1. BaseInv => TypeOK
  BY DEF BaseInv
<1>2. QED
  BY <1>1, RemoteInvariant, PTL

\* poll_remote_executions: a finished record belongs to a closed pull request, a
\* success to a run that succeeded, and a COMPLETED manifest to some such run.
THEOREM RecordsAreTruthful == Spec => []RecordTruthful
<1>1. BaseInv => RecordTruthful
  BY DEF BaseInv, RecordsInv, PullsInv, NamesInv, ManifestInv, RecordTruthful
<1>2. QED
  BY <1>1, RemoteInvariant, PTL

\* poll_remote_executions: a success that is recorded is never taken back, also when
\* its pull request is polled again or another execution of the plan is settled.
THEOREM SuccessesStand == Spec => SuccessStands
<1>1. ASSUME BaseInv, [Next]_vars, NEW p \in Prs, RecordIs(p, "Success")
      PROVE  RecordIs(p, "Success")'
  <2>t. TypeOK /\ PolledInv
    BY <1>1 DEF BaseInv
  <2>1. PICK i \in DOMAIN records : records[i] = [pr |-> p, status |-> "Success"]
    BY <1>1 DEF RecordIs
  <2>2. records[i].pr = p /\ records[i].status = "Success" /\ records \in Seq(JobRecord)
    BY <2>t, <2>1 DEF TypeOK, JobRecord
  <2>3. ASSUME NEW c \in Clients, Record(c) PROVE RecordIs(p, "Success")'
    <3> DEFINE new == [pr |-> mine[c], status |-> "RemoteRunning"]
    <3>1. CASE UNCHANGED records
      BY <1>1, <3>1 DEF RecordIs
    <3>2. CASE records' = Append(records, new)
      <4> HIDE DEF new
      <4>1. i \in DOMAIN records' /\ records'[i] = records[i]
        BY <2>2, <3>2
      <4>2. QED
        BY <2>1, <4>1 DEF RecordIs
    <3>3. QED
      BY <2>3, <3>1, <3>2 DEF Record
  <2>4. CASE PollRecord
    <3>1. CASE UNCHANGED records
      BY <1>1, <3>1 DEF RecordIs
    <3>2. CASE p # polled /\ ~UNCHANGED records
      <4>1. i \in DOMAIN records' /\ records'[i] = records[i]
        BY <2>2, <2>4, <3>2 DEF PollRecord, JobFound
      <4>2. QED
        BY <2>1, <4>1 DEF RecordIs
    <3>3. CASE p = polled /\ ~UNCHANGED records
      <4>1. labelled
        BY <1>1, <2>t, <2>4, <3>3 DEF PollRecord, PolledInv
      <4>2. i \in DOMAIN records' /\ records'[i] = [records[i] EXCEPT !.status = "Success"]
        BY <2>2, <2>4, <3>3, <4>1 DEF PollRecord, JobFound
      <4>3. records'[i] = [pr |-> p, status |-> "Success"]
        BY <2>1, <4>2
      <4>4. QED
        BY <4>2, <4>3 DEF RecordIs
    <3>4. QED
      BY <3>1, <3>2, <3>3
  <2>5. CASE UNCHANGED records
    BY <1>1, <2>5 DEF RecordIs
  <2>6. QED
    BY <1>1, <2>3, <2>4, <2>5
       DEF Next, vars, clientVars, ClientStep, PollStep, Admit, Ship, Open, TriggerFails, Flip,
           NoNumber, Track, Notify, TrackRemote, PollBegin, PollOpen, PollFails, PollClosed, PollFlip,
           PollForget, DaemonDies, CliDies, DaemonStarts, Close, Label, MarkReady
<1>2. BaseInv /\ [Next]_vars => [\A p \in Prs : RecordIs(p, "Success") => RecordIs(p, "Success")']_vars
  BY <1>1
<1>3. QED
  BY <1>2, RemoteInvariant, PTL DEF Spec, SuccessStands
=============================================================================
