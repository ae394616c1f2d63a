----------------------------- MODULE ChangeWindow -----------------------------
(***************************************************************************)
(* The ChangeWindow controller: one maintenance window, reconciled again   *)
(* and again against the PropagationStatus objects of its impacted         *)
(* applications.  One Reconcile step is one whole call of                  *)
(* ChangeWindowReconciler.Reconcile: snapshot of the applications,         *)
(* baseline, silence, parked hard refresh, gates, phase decision, signed   *)
(* report, timeline, Kafka report and the status patch.                    *)
(*                                                                         *)
(* What can go wrong around it is part of the model: the report may not    *)
(* reach Kafka or its acknowledgement may be lost, the patch may fail      *)
(* (this is also a crash between the report and the patch; the controller  *)
(* keeps nothing in memory), and the reconciler reads the window from an   *)
(* informer cache that may be versions behind the API server, so that its  *)
(* merge patch is a difference to an old version.                          *)
(***************************************************************************)
EXTENDS ValidationGates

CONSTANTS
    NumClusters,          \* length of every PropagationStatus' targetClusters
    Contents,             \* what a row may say: records [state, obs]
    EndTime,              \* spec.endTime
    StabilizationPeriod,  \* spec.stabilizationPeriodSeconds, 0 when unset
    Heartbeat,            \* 15 minutes
    MaxAttempts,          \* spec.hardRefresh.maxAttempts, defaulted
    WaitBetween,          \* spec.hardRefresh.waitBetweenSeconds, defaulted
    TimelineCap,          \* 50
    PSChurn,              \* may PropagationStatus objects appear, and they and reports vanish?
    Delays,               \* bound: ages at which a new report may reach its row
    MaxBehind,            \* bound: versions the informer cache may be behind, 0 when it never lags
    OutageEnd,            \* bound: Kafka and API failures happen before this time
    MaxTime               \* bound on the clock

Clusters == 1 .. NumClusters

ASSUME WindowAssumption ==
    /\ NumClusters \in Nat \ {0}
    /\ \A c \in Contents : c.state \in RowStates /\ c.obs \in Observation
    /\ EndTime \in Nat
    /\ StabilizationPeriod \in Nat
    /\ Heartbeat \in Nat \ {0}
    /\ MaxAttempts \in Nat \ {0}
    /\ WaitBetween \in Nat \ {0}
    /\ TimelineCap \in Nat \ {0}
    /\ Delays \subseteq Nat
    /\ PSChurn \in BOOLEAN
    /\ MaxBehind \in Nat
    /\ OutageEnd \in Nat
    /\ MaxTime \in Nat

VARIABLES
    now,        \* the clock
    ps,         \* the PropagationStatus rows of every application
    status,     \* the window's status at the API server
    cache,      \* the window's status in the reconciler's informer cache
    coming,     \* the versions after it that the watch has yet to deliver, oldest first
    published,  \* the last report on the Kafka topic
    evaluated   \* history: times of the last stored evaluation and of the last failed one

vars == <<now, ps, status, cache, coming, published, evaluated>>

Phases == {"", "Scheduled", "BaselineCaptured", "WaitingForChange", "Executing",
           "PlatformRecovering", "Succeeded", "TimedOut"}

-----------------------------------------------------------------------------
(* The status of the window.                                               *)

NotFound == [known |-> FALSE, rows |-> <<>>]

MissingRow == [state |-> "Missing", observedAt |-> NoTime, obs |-> EmptyObservation]

\* A PropagationStatus that was not reconciled yet, or targets no cluster.
NoRows == [known |-> TRUE, rows |-> <<>>]

\* One that was reconciled before any of its target clusters reported.
Unreported == [known |-> TRUE, rows |-> [j \in Clusters |-> MissingRow]]

NoAction == [attempts |-> 0, lastAttemptAt |-> NoTime, history |-> <<>>, result |-> ""]

NoBaseline == [capturedAt |-> NoTime, source |-> {}]

\* checksum stands for the digest over the report id (its time), the overall
\* result and the gates, and for the signature over that digest.
NoSignedReport == [timestamp |-> NoTime, overallResult |-> "", gates |-> <<>>, checksum |-> <<>>]

NoValidation == [gates |-> <<>>, issues |-> <<>>, passed |-> FALSE]

InitialStatus ==
    [ phase |-> "", overall |-> "", silent |-> {},
      actions |-> [k \in Apps \X Clusters |-> NoAction],
      validation |-> NoValidation, stabilizationStartedAt |-> NoTime,
      lastReportedAt |-> NoTime, appStates |-> [a \in Apps |-> NotFound],
      baseline |-> NoBaseline, signedReport |-> NoSignedReport, timeline |-> <<>> ]

NoReport == [phase |-> "", passed |-> FALSE]

Init ==
    /\ now = 0
    /\ ps \in [Apps -> IF PSChurn THEN {NotFound, NoRows} ELSE {Unreported}]
    /\ status = InitialStatus
    /\ cache = InitialStatus
    /\ coming = <<>>
    /\ published = NoReport
    /\ evaluated = [at |-> NoTime, failedAt |-> NoTime]

-----------------------------------------------------------------------------
(* The environment: the clock and the PropagationStatus controller.        *)

Tick ==
    /\ now < MaxTime
    /\ now' = now + 1
    /\ UNCHANGED <<ps, status, cache, coming, published, evaluated>>

CreatePS(a) ==
    /\ PSChurn /\ ~ps[a].known
    /\ ps' = [ps EXCEPT ![a] = NoRows]
    /\ UNCHANGED <<now, status, cache, coming, published, evaluated>>

\* The PropagationStatus controller rewrites the rows, one for each target: from
\* no report, from the one it saw last, or from a newer one.
LastSeen(a, j) == IF j \in DOMAIN ps[a].rows THEN ps[a].rows[j].observedAt ELSE NoTime

PossibleRows(a, j) ==
    LET times == {t \in {LastSeen(a, j)} \cup {now - d : d \in Delays} : t >= 0 /\ t >= LastSeen(a, j)}
    IN  {[state |-> c.state, observedAt |-> t, obs |-> c.obs] : c \in Contents, t \in times}
        \cup (IF PSChurn \/ LastSeen(a, j) = NoTime THEN {MissingRow} ELSE {})

UpdatePS(a) ==
    /\ ps[a].known
    /\ \E rows \in [Clusters -> UNION {PossibleRows(a, j) : j \in Clusters}] :
          /\ \A j \in Clusters : rows[j] \in PossibleRows(a, j)
          /\ ps' = [ps EXCEPT ![a].rows = rows]
    /\ UNCHANGED <<now, status, cache, coming, published, evaluated>>

DeletePS(a) ==
    /\ PSChurn /\ ps[a].known
    /\ ps' = [ps EXCEPT ![a] = NotFound]
    /\ UNCHANGED <<now, status, cache, coming, published, evaluated>>

-----------------------------------------------------------------------------
(* The parts of one reconcile.                                             *)

\* Mutant: an entry is only fetched once.
FetchOnce(view) == [a \in Apps |-> IF view.appStates[a].rows = <<>> THEN ps[a] ELSE view.appStates[a]]

\* An application whose PropagationStatus is gone keeps its old entry.
FetchAppStates(view) == [a \in Apps |-> IF ps[a].known THEN ps[a] ELSE view.appStates[a]]

\* The baseline is put together from the rows of the visit, up to and with the
\* first one that names a version; source is the set of these rows.
captureBaseline(appStates, order) ==
    LET Stops(p) == RowAt(appStates, order, p).obs.versioned
        Read(p)  == \A q \in Places(appStates, order) : Stops(q) => LaterOrSame(q, p)
    IN  [ capturedAt |-> now,
          source |-> {<<order[p[1]], p[2]>> : p \in {q \in Places(appStates, order) : Read(q)}} ]

\* The baseline is captured when the status has none.
BaselineOnce(view, appStates, order) ==
    IF view.baseline = NoBaseline THEN captureBaseline(appStates, order) ELSE view.baseline

\* Mutants: no wait between attempts; attempts counted down.
RefreshWithoutWait(action) ==
    IF action.attempts >= MaxAttempts
    THEN [action EXCEPT !.result = "ExhaustedRetries"]
    ELSE [ attempts |-> action.attempts + 1, lastAttemptAt |-> now,
           history |-> Append(action.history, now), result |-> "Parked" ]
AttemptsCountDown(action) ==
    [action EXCEPT !.attempts = @ - 1, !.lastAttemptAt = now, !.result = "Parked"]

\* runParkedHardRefreshAction on one row that is Diverged.
runParkedHardRefreshAction(action) ==
    IF action.attempts >= MaxAttempts
    THEN [action EXCEPT !.result = "ExhaustedRetries"]
    ELSE IF action.lastAttemptAt # NoTime /\ now - action.lastAttemptAt < WaitBetween
    THEN action
    ELSE [ attempts |-> action.attempts + 1, lastAttemptAt |-> now,
           history |-> Append(action.history, now), result |-> "Parked" ]

IsDiverged(appStates, k) ==
    k[2] \in DOMAIN appStates[k[1]].rows /\ appStates[k[1]].rows[k[2]].state = "Diverged"

RunActions(view, appStates) ==
    [ k \in Apps \X Clusters |->
        IF IsDiverged(appStates, k) THEN runParkedHardRefreshAction(view.actions[k])
                                    ELSE view.actions[k] ]

\* Mutants: a failed evaluation leaves the stabilization clock running; the end
\* of the window is not looked at; it is looked at before the verdict.
DecideKeepsClock(previous, passed, startedAt) ==
    LET clock == IF startedAt = NoTime THEN now ELSE startedAt
    IN  IF passed
        THEN IF now < clock + StabilizationPeriod
             THEN [phase |-> "PlatformRecovering", overall |-> "InProgress", startedAt |-> clock]
             ELSE [phase |-> "Succeeded", overall |-> "Good", startedAt |-> clock]
        ELSE IF now > EndTime
        THEN [phase |-> "TimedOut", overall |-> "Degraded", startedAt |-> startedAt]
        ELSE [ phase |-> IF previous = "BaselineCaptured" THEN "WaitingForChange" ELSE "Executing",
               overall |-> "InProgress", startedAt |-> startedAt ]
DecideWithoutEnd(previous, passed, startedAt) ==
    [ phase |-> IF passed THEN "Succeeded" ELSE "Executing",
      overall |-> IF passed THEN "Good" ELSE "InProgress", startedAt |-> startedAt ]

DecideEndFirst(previous, passed, startedAt) ==
    IF now > EndTime
    THEN [phase |-> "TimedOut", overall |-> "Degraded", startedAt |-> NoTime]
    ELSE DecideKeepsClock(previous, passed, IF passed THEN startedAt ELSE NoTime)

\* The phase decision: [phase, overall, stabilizationStartedAt].
Decide(previous, passed, startedAt) ==
    LET clock == IF StabilizationPeriod > 0 /\ startedAt = NoTime THEN now ELSE startedAt
    IN  IF passed
        THEN IF StabilizationPeriod > 0 /\ now < clock + StabilizationPeriod
             THEN [phase |-> "PlatformRecovering", overall |-> "InProgress", startedAt |-> clock]
             ELSE [phase |-> "Succeeded", overall |-> "Good", startedAt |-> clock]
        ELSE IF now > EndTime
        THEN [phase |-> "TimedOut", overall |-> "Degraded", startedAt |-> NoTime]
        ELSE [ phase |-> IF previous \in {"", "Scheduled", "BaselineCaptured"}
                         THEN "WaitingForChange" ELSE "Executing",
               overall |-> "InProgress", startedAt |-> NoTime ]

GenerateSignedReport(result, gates) ==
    [ timestamp |-> now, overallResult |-> result, gates |-> gates,
      checksum |-> <<now, result, gates>> ]

\* Mutant: the cap keeps the oldest entries.
KeepOldest(timeline, phase) ==
    LET longer == Append(timeline, phase)
    IN  IF Len(longer) > TimelineCap THEN SubSeq(longer, 1, TimelineCap) ELSE longer

RecordTransition(timeline, phase) ==
    LET longer == Append(timeline, phase)
    IN  IF Len(longer) > TimelineCap
        THEN SubSeq(longer, Len(longer) - TimelineCap + 1, Len(longer)) ELSE longer

\* Mutant: no heartbeat.
ReportDueOnChange(previous, phase, oldValidation, validation, lastReportedAt) ==
    phase # previous \/ validation # oldValidation

\* A report is due on a phase change, a changed verdict, or the heartbeat.
ReportDue(previous, phase, oldValidation, validation, lastReportedAt) ==
    \/ phase # previous
    \/ validation # oldValidation
    \/ lastReportedAt # NoTime /\ now - lastReportedAt >= Heartbeat

\* LastReportedAt moves when the report was sent.
ReportedAt(view, reported) == IF reported THEN now ELSE view.lastReportedAt

\* The phase a reconcile starts from: capturing the baseline sets it first.
PreviousPhase(view) == IF view.baseline = NoBaseline THEN "BaselineCaptured" ELSE view.phase

\* The status a reconcile computes from the version it read.
NewStatus(view, order, appStates, silent, validation, decision, reported) ==
    [ phase |-> decision.phase,
      overall |-> decision.overall,
      silent |-> silent,
      actions |-> RunActions(view, appStates),
      validation |-> validation,
      stabilizationStartedAt |-> decision.startedAt,
      lastReportedAt |-> ReportedAt(view, reported),
      appStates |-> appStates,
      baseline |-> BaselineOnce(view, appStates, order),
      signedReport |-> IF decision.phase \in {"Succeeded", "TimedOut"}
                       THEN GenerateSignedReport(decision.phase, validation.gates)
                       ELSE view.signedReport,
      timeline |-> IF decision.phase # PreviousPhase(view)
                   THEN RecordTransition(view.timeline, decision.phase)
                   ELSE view.timeline ]

-----------------------------------------------------------------------------
(* client.MergeFrom: the patch holds what differs between the version read *)
(* and the version computed; the API server applies it to its own version. *)

PutWhole(new, old, current) == new   \* mutant: an update, not a merge patch

Pick(new, old, current) == IF new # old THEN new ELSE current

MergeAction(new, old, current) ==
    [ attempts |-> Pick(new.attempts, old.attempts, current.attempts),
      lastAttemptAt |-> Pick(new.lastAttemptAt, old.lastAttemptAt, current.lastAttemptAt),
      history |-> Pick(new.history, old.history, current.history),
      result |-> Pick(new.result, old.result, current.result) ]

MergeSigned(new, old, current) ==
    [ timestamp |-> Pick(new.timestamp, old.timestamp, current.timestamp),
      overallResult |-> Pick(new.overallResult, old.overallResult, current.overallResult),
      gates |-> Pick(new.gates, old.gates, current.gates),
      checksum |-> Pick(new.checksum, old.checksum, current.checksum) ]

\* What a second capture leaves empty keeps the value of the first.
MergeBaseline(new, old, current) ==
    IF new = old THEN current
    ELSE [capturedAt |-> new.capturedAt, source |-> new.source \cup current.source]

MergeFrom(new, old, current) ==
    [ phase |-> Pick(new.phase, old.phase, current.phase),
      overall |-> Pick(new.overall, old.overall, current.overall),
      silent |-> Pick(new.silent, old.silent, current.silent),
      actions |-> [k \in Apps \X Clusters |->
                     MergeAction(new.actions[k], old.actions[k], current.actions[k])],
      validation |->
        [ gates  |-> Pick(new.validation.gates, old.validation.gates, current.validation.gates),
          issues |-> Pick(new.validation.issues, old.validation.issues, current.validation.issues),
          passed |-> Pick(new.validation.passed, old.validation.passed, current.validation.passed) ],
      stabilizationStartedAt |-> Pick(new.stabilizationStartedAt, old.stabilizationStartedAt,
                                      current.stabilizationStartedAt),
      lastReportedAt |-> Pick(new.lastReportedAt, old.lastReportedAt, current.lastReportedAt),
      appStates |-> [a \in Apps |-> Pick(new.appStates[a], old.appStates[a], current.appStates[a])],
      baseline |-> MergeBaseline(new.baseline, old.baseline, current.baseline),
      signedReport |-> MergeSigned(new.signedReport, old.signedReport, current.signedReport),
      timeline |-> Pick(new.timeline, old.timeline, current.timeline) ]

\* The watch brings a new version to the cache, at once or after those before it.
CacheAfterWrite ==
    \/ coming = <<>> /\ cache' = status' /\ coming' = <<>>
    \/ status' = status /\ UNCHANGED <<cache, coming>>
    \/ /\ status' # status /\ Len(coming) < MaxBehind
       /\ coming' = Append(coming, status')
       /\ cache' = cache

-----------------------------------------------------------------------------
\* Before startTime only the phase is written, and a patch error is ignored.
ReconcileScheduled(patched) ==
    /\ now < StartTime
    /\ patched \/ now < OutageEnd
    /\ LET new == [cache EXCEPT !.phase = "Scheduled", !.overall = "Pending"]
       IN  status' = IF patched THEN MergeFrom(new, cache, status) ELSE status
    /\ CacheAfterWrite
    /\ UNCHANGED <<now, ps, published, evaluated>>

\* Outcomes of ProduceReport: acknowledged, not delivered, delivered without
\* the acknowledgement reaching the writer.
Deliveries == {"acked", "failed", "ackLost"}

\* One call of Reconcile in the window.  Its intermediate results are bound in
\* the order the code computes them.
Reconcile(order, delivery, patched) ==
    /\ now >= StartTime
    /\ (delivery = "acked" /\ patched) \/ now < OutageEnd
    /\ \E appStates \in {FetchAppStates(cache)} :
       \E silent \in {SilentClusters(appStates, now)} :
       \E validation \in {evaluateGates(appStates, order, silent)} :
       \E decision \in {Decide(PreviousPhase(cache), validation.passed,
                               cache.stabilizationStartedAt)} :
       \E due \in {ReportDue(PreviousPhase(cache), decision.phase,
                             cache.validation, validation, cache.lastReportedAt)} :
       \E new \in {NewStatus(cache, order, appStates, silent, validation, decision,
                             due /\ delivery = "acked")} :
          /\ published' = IF due /\ delivery # "failed"
                          THEN [phase |-> new.phase, passed |-> validation.passed]
                          ELSE published
          /\ status' = IF patched THEN MergeFrom(new, cache, status) ELSE status
          /\ evaluated' = IF ~patched THEN evaluated
                          ELSE [ at |-> now,
                                 failedAt |-> IF validation.passed THEN evaluated.failedAt
                                                                   ELSE now ]
    /\ CacheAfterWrite
    /\ UNCHANGED <<now, ps>>

\* The watch delivers the next version.
InformerSync ==
    /\ coming # <<>>
    /\ cache' = Head(coming) /\ coming' = Tail(coming)
    /\ UNCHANGED <<now, ps, status, published, evaluated>>

-----------------------------------------------------------------------------
Environment ==
    \E a \in Apps : CreatePS(a) \/ UpdatePS(a) \/ DeletePS(a)

ReconcileAny ==
    \/ \E patched \in BOOLEAN : ReconcileScheduled(patched)
    \/ \E order \in Orders, delivery \in Deliveries, patched \in BOOLEAN :
          Reconcile(order, delivery, patched)

Next == Tick \/ Environment \/ ReconcileAny \/ InformerSync

\* A reconcile that meets neither a Kafka nor an API failure.
ReconcileOK ==
    \/ ReconcileScheduled(TRUE)
    \/ \E order \in Orders : Reconcile(order, "acked", TRUE)

Spec == Init /\ [][Next]_vars

\* Every reconcile returns RequeueAfter or an error, so it is tried again for
\* ever; the watch keeps delivering; time passes.  PropagationStatus objects
\* owe nothing.
FairSpec == Spec /\ WF_vars(Tick) /\ WF_vars(InformerSync) /\ WF_vars(ReconcileOK)
-----------------------------------------------------------------------------
(***************************************************************************)
(* Properties.                                                             *)
(***************************************************************************)

Times == {NoTime} \cup Nat

Refreshes == [ attempts : Nat, lastAttemptAt : Times, history : Seq(Nat),
               result : {"", "Parked", "ExhaustedRetries"} ]

StatusOK(s) ==
    /\ s.phase \in Phases
    /\ s.overall \in {"", "Pending", "InProgress", "Good", "Degraded"}
    /\ s.actions \in [Apps \X Clusters -> Refreshes]
    /\ s.validation.passed \in BOOLEAN
    /\ s.stabilizationStartedAt \in Times
    /\ s.lastReportedAt \in Times
    /\ s.baseline.capturedAt \in Times
    /\ s.signedReport.timestamp \in Times
    /\ s.signedReport.overallResult \in {"", "Succeeded", "TimedOut"}
    /\ s.timeline \in Seq(Phases)

\* The clock, every version of the status and the history have their types, and
\* the cache is as far behind as the watch has versions to deliver.
TypeOK ==
    /\ now \in Nat
    /\ StatusOK(status)
    /\ StatusOK(cache)
    /\ Len(coming) <= MaxBehind /\ \A i \in 1 .. Len(coming) : StatusOK(coming[i])
    /\ status = IF coming = <<>> THEN cache ELSE coming[Len(coming)]
    /\ published.phase \in Phases /\ published.passed \in BOOLEAN
    /\ evaluated.at \in Times /\ evaluated.failedAt \in Times

\* The hard-refresh record of every cluster stays within its retry budget and
\* waits between attempts, whatever patch is lost and however old the version
\* is that a reconcile starts from (runParkedHardRefreshAction).
Paced(x) ==
    /\ x.attempts = Len(x.history) /\ x.attempts <= MaxAttempts
    /\ \A i \in 1 .. Len(x.history) - 1 : x.history[i + 1] - x.history[i] >= WaitBetween
    /\ x.attempts > 0 => x.lastAttemptAt = x.history[x.attempts]
HardRefreshPaced == \A k \in Apps \X Clusters : Paced(status.actions[k])

\* With a stabilization period, a recovering or succeeded window has a running
\* stabilization clock that no stored failed evaluation is later than, and it
\* succeeded no sooner than one whole period after the clock started.
StabilizationClean ==
    StabilizationPeriod > 0 =>
        /\ status.phase \in {"PlatformRecovering", "Succeeded"} =>
              /\ status.stabilizationStartedAt # NoTime
              /\ evaluated.failedAt <= status.stabilizationStartedAt
        /\ status.phase = "Succeeded" =>
              evaluated.at >= status.stabilizationStartedAt + StabilizationPeriod

\* A window is Succeeded only on evidence: some cluster reported, and every row
\* of its snapshot is InSync, Healthy and was fresh at the evaluation that
\* stored the phase, even when the PropagationStatus it came from is gone.
SucceededOnFreshEvidence ==
    status.phase = "Succeeded" =>
        /\ RowsOf(status.appStates) # {}
        /\ \A r \in RowsOf(status.appStates) :
              /\ r.state = "InSync" /\ r.obs.health = "Healthy"
              /\ Age(evaluated.at, r.observedAt) <= StaleThreshold

\* The stored signed report, timeline and phase tell one story: a decided phase
\* carries a report with the same result, made at that evaluation, whose
\* checksum covers it; the timeline ends with the phase, never repeats a phase
\* in a row and stays within its cap.
AuditTrailAgrees ==
    LET t == status.timeline
        r == status.signedReport
    IN  /\ status.phase \in {"Succeeded", "TimedOut"} =>
              r.overallResult = status.phase /\ r.timestamp = evaluated.at
        /\ r.timestamp # NoTime => r.checksum = <<r.timestamp, r.overallResult, r.gates>>
        /\ Len(t) <= TimelineCap
        /\ \A i \in 1 .. Len(t) - 1 : t[i] # t[i + 1]
        /\ evaluated.at # NoTime => t # <<>> /\ t[Len(t)] = status.phase

\* The report clock never goes back and only ever moves to the present, also when
\* a reconcile starts from an old version or its patch is lost.
ReportClockMonotone ==
    [][/\ status'.lastReportedAt >= status.lastReportedAt
       /\ status'.lastReportedAt # status.lastReportedAt => status'.lastReportedAt = now]_vars

\* Once a first report was acknowledged, the topic catches up with the stored
\* phase and verdict and stays with it after the outage: a report that was lost,
\* or sent for an evaluation whose patch failed, is repaired by the heartbeat.
ReportsConverge ==
    <>[](status.lastReportedAt # NoTime =>
            published = [phase |-> status.phase, passed |-> status.validation.passed])

\* A window never stays Succeeded on reports that went stale: when a row of its
\* snapshot is too old, because the cluster fell silent or its PropagationStatus
\* is gone, the phase is taken back, or the row is refreshed.
StaleRow(a, j) ==
    LET rows == status.appStates[a].rows
    IN  j \in DOMAIN rows /\ Age(now, rows[j].observedAt) > StaleThreshold
SilenceReopens ==
    \A a \in Apps : \A j \in Clusters :
        StaleRow(a, j) ~> (status.phase # "Succeeded" \/ ~StaleRow(a, j))

\* Every window is decided: once its end has passed it is timed out, or its
\* gates hold and it is recovering or succeeded.
WindowDecided ==
    now > EndTime ~> status.phase \in {"TimedOut", "PlatformRecovering", "Succeeded"}

\* Lagging cache: whatever mixed status the patches against old versions leave
\* behind, the status becomes coherent again, over and over, if only the watch
\* catches up now and then or the rows come to rest.  Without either it may stay
\* mixed for ever.
Coherent ==
    /\ status.overall = CASE status.phase = "" -> ""
                          [] status.phase = "Scheduled" -> "Pending"
                          [] status.phase = "Succeeded" -> "Good"
                          [] status.phase = "TimedOut" -> "Degraded"
                          [] OTHER -> "InProgress"
    /\ status.validation.passed <=> status.phase \in {"PlatformRecovering", "Succeeded"}
    /\ StabilizationPeriod > 0 =>
          (status.stabilizationStartedAt # NoTime <=>
              status.phase \in {"PlatformRecovering", "Succeeded"})
Heals == ([]<>(coming = <<>>) \/ <>[][FALSE]_ps) => []<>Coherent

\* README: the ClusterVersion check "Validates OCP version stability (not
\* progressing, Available=True)".  So a verdict never passes while a row of the
\* snapshot reports an upgrade.
VersionStableEverywhere ==
    status.validation.passed =>
        \A r \in RowsOf(status.appStates) : r.obs.cv \in {"none", "available"}

-----------------------------------------------------------------------------
(* What the window promises to its readers, and the status that shows it.  *)

StoredOutcome == IF evaluated.at = NoTime THEN "none"
                 ELSE IF status.validation.passed THEN "good" ELSE "bad"

Lifecycle ==
    INSTANCE WindowLifecycle WITH
        Opening <- StartTime, Closing <- EndTime, Settling <- StabilizationPeriod,
        outcome <- StoredOutcome, since <- status.stabilizationStartedAt,
        phase <- status.phase,
        signed <- [result |-> status.signedReport.overallResult,
                   at |-> status.signedReport.timestamp]

\* With an informer that keeps up, Reconcile with its lost reports, failed patches
\* and vanishing applications implements the lifecycle: readers see no phase,
\* stabilization clock or signed decision that it does not allow.
ImplementsLifecycle == Lifecycle!Spec
=============================================================================
