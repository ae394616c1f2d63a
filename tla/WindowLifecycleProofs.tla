------------------------ MODULE WindowLifecycleProofs ------------------------
(***************************************************************************)
(* Proofs about a ChangeWindow whose reconciles read the latest version    *)
(* (MaxBehind = 0), with lost reports, failed patches and vanishing     *)
(* applications: it implements WindowLifecycle, its audit trail agrees     *)
(* with its phase, it succeeds only on fresh evidence, and its baseline    *)
(* stays.                                                                  *)
(***************************************************************************)
EXTENDS ChangeWindowProofs

-----------------------------------------------------------------------------
(* What a reconcile does to the status it reads, field by field.           *)

\* A patch against the latest version stores what was computed.
LEMMA MergeLatest ==
    ASSUME NEW new, NEW s, NEW m, m = MergeFrom(new, s, s)
    PROVE  /\ m.phase = new.phase
           /\ m.validation.passed = new.validation.passed
           /\ m.stabilizationStartedAt = new.stabilizationStartedAt
           /\ \A a \in Apps : m.appStates[a] = new.appStates[a]
           /\ m.signedReport.timestamp = new.signedReport.timestamp
           /\ m.signedReport.overallResult = new.signedReport.overallResult
           /\ m.signedReport.gates = new.signedReport.gates
           /\ m.signedReport.checksum = new.signedReport.checksum
           /\ m.timeline = new.timeline
           /\ m.baseline = MergeBaseline(new.baseline, s.baseline, s.baseline)
BY DEF MergeFrom, MergeSigned, Pick

\* A baseline that is there stays; one that is captured is stored as it is.
LEMMA BaselineMerged ==
    ASSUME NEW appStates, NEW order
    PROVE  LET b == BaselineOnce(status, appStates, order)
           IN  MergeBaseline(b, status.baseline, status.baseline) = b
<1>1. CASE status.baseline = NoBaseline
  <2> DEFINE b == captureBaseline(appStates, order)
  <2>1. BaselineOnce(status, appStates, order) = b
    BY <1>1 DEF BaselineOnce
  <2>2. PICK S : b = [capturedAt |-> now, source |-> S]
    BY DEF captureBaseline
  <2>3. S \cup {} = S
    OBVIOUS
  <2> HIDE DEF b
  <2> QED BY <1>1, <2>1, <2>2, <2>3 DEF MergeBaseline, NoBaseline
<1>2. CASE status.baseline # NoBaseline
  BY <1>2 DEF BaselineOnce, MergeBaseline
<1> QED BY <1>1, <1>2

\* What a stored Scheduled phase leaves alone.
Schedules ==
    /\ now < StartTime /\ UNCHANGED <<now, evaluated>>
    /\ status'.phase = "Scheduled"
    /\ status'.validation.passed = status.validation.passed
    /\ status'.stabilizationStartedAt = status.stabilizationStartedAt
    /\ \A a \in Apps : status'.appStates[a] = status.appStates[a]
    /\ status'.signedReport.timestamp = status.signedReport.timestamp
    /\ status'.signedReport.overallResult = status.signedReport.overallResult
    /\ status'.signedReport.gates = status.signedReport.gates
    /\ status'.signedReport.checksum = status.signedReport.checksum
    /\ status'.timeline = status.timeline
    /\ status'.baseline = status.baseline

\* What a stored evaluation of snapshot appStates with decision d does.
Evaluates(appStates, order, validation, d) ==
    /\ now >= StartTime /\ now' = now /\ evaluated'.at = now
    /\ validation = evaluateGates(appStates, order, SilentClusters(appStates, now))
    /\ validation.passed \in BOOLEAN
    /\ d = Decide(PreviousPhase(status), validation.passed, status.stabilizationStartedAt)
    /\ status'.phase = d.phase
    /\ status'.validation.passed = validation.passed
    /\ status'.stabilizationStartedAt = d.startedAt
    /\ \A a \in Apps : status'.appStates[a] = appStates[a]
    /\ IF d.phase \in {"Succeeded", "TimedOut"}
       THEN /\ status'.signedReport.timestamp = now
            /\ status'.signedReport.overallResult = d.phase
            /\ status'.signedReport.checksum = <<now, d.phase, status'.signedReport.gates>>
       ELSE /\ status'.signedReport.timestamp = status.signedReport.timestamp
            /\ status'.signedReport.overallResult = status.signedReport.overallResult
            /\ status'.signedReport.gates = status.signedReport.gates
            /\ status'.signedReport.checksum = status.signedReport.checksum
    /\ status'.timeline = IF d.phase # PreviousPhase(status)
                          THEN RecordTransition(status.timeline, d.phase) ELSE status.timeline
    /\ status'.baseline = BaselineOnce(status, appStates, order)

\* Each step lets time pass, stores the phase Scheduled, stores an evaluation of
\* a fetched snapshot, or leaves all of this alone.
LEMMA StoredSteps ==
    ASSUME TypeInv, StabInv, [Next]_vars
    PROVE  \/ UNCHANGED <<now, status, evaluated>>
           \/ now' = now + 1 /\ UNCHANGED <<status, evaluated>>
           \/ Schedules
           \/ \E order \in Orders :
                 LET appStates  == FetchAppStates(status)
                     validation == evaluateGates(appStates, order, SilentClusters(appStates, now))
                 IN  Evaluates(appStates, order, validation,
                               Decide(PreviousPhase(status), validation.passed,
                                      status.stabilizationStartedAt))
<1>0. cache = status /\ DOMAIN status = Fields
  BY DEF StabInv, TypeInv, PacedInv, PacedVersion
<1>1. CASE Tick
  BY <1>1 DEF Tick
<1>2. CASE Environment \/ UNCHANGED vars \/ InformerSync
  BY <1>2 DEF Environment, CreatePS, DeletePS, UpdatePS, vars, InformerSync
<1>3. ASSUME NEW patched \in BOOLEAN, ReconcileScheduled(patched)
      PROVE  UNCHANGED <<now, status, evaluated>> \/ Schedules
  <2> DEFINE new == [status EXCEPT !.phase = "Scheduled", !.overall = "Pending"]
  <2>1. /\ now < StartTime /\ UNCHANGED <<now, evaluated>>
        /\ status' = IF patched THEN MergeFrom(new, status, status) ELSE status
    BY <1>0, <1>3 DEF ReconcileScheduled
  <2>2. /\ new.phase = "Scheduled" /\ new.validation = status.validation
        /\ new.stabilizationStartedAt = status.stabilizationStartedAt
        /\ new.appStates = status.appStates /\ new.signedReport = status.signedReport
        /\ new.timeline = status.timeline /\ new.baseline = status.baseline
    BY <1>0 DEF Fields
  <2> HIDE DEF new
  <2>3. CASE patched = TRUE
    <3>1. status' = MergeFrom(new, status, status)
      BY <2>1, <2>3
    <3>2. MergeBaseline(new.baseline, status.baseline, status.baseline) = status.baseline
      BY <2>2 DEF MergeBaseline
    <3> QED BY <2>1, <2>2, <3>1, <3>2, MergeLatest DEF Schedules
  <2>4. CASE patched = FALSE
    BY <2>1, <2>4
  <2> QED BY <2>3, <2>4
<1>4. ASSUME NEW order \in Orders, NEW delivery, NEW patched \in BOOLEAN,
             Reconcile(order, delivery, patched)
      PROVE  \/ UNCHANGED <<now, status, evaluated>>
             \/ LET appStates  == FetchAppStates(status)
                    validation == evaluateGates(appStates, order, SilentClusters(appStates, now))
                IN  Evaluates(appStates, order, validation,
                              Decide(PreviousPhase(status), validation.passed,
                                     status.stabilizationStartedAt))
  <2> DEFINE appStates  == FetchAppStates(status)
             silent     == SilentClusters(appStates, now)
             validation == evaluateGates(appStates, order, silent)
             d          == Decide(PreviousPhase(status), validation.passed,
                                  status.stabilizationStartedAt)
             due        == ReportDue(PreviousPhase(status), d.phase, status.validation,
                                     validation, status.lastReportedAt)
             new        == NewStatus(status, order, appStates, silent, validation, d,
                                     due /\ delivery = "acked")
             failedAt   == IF validation.passed THEN evaluated.failedAt ELSE now
  <2>1. /\ now >= StartTime /\ now' = now
        /\ status' = IF patched THEN MergeFrom(new, status, status) ELSE status
        /\ evaluated' = IF ~patched THEN evaluated ELSE [at |-> now, failedAt |-> failedAt]
    BY <1>0, <1>4 DEF Reconcile
  <2>2. validation.passed \in BOOLEAN
    BY DEF evaluateGates
  <2>3. /\ new.phase = d.phase /\ new.validation = validation
        /\ new.stabilizationStartedAt = d.startedAt
        /\ new.appStates = appStates
        /\ new.baseline = BaselineOnce(status, appStates, order)
        /\ new.signedReport = IF d.phase \in {"Succeeded", "TimedOut"}
                              THEN GenerateSignedReport(d.phase, validation.gates)
                              ELSE status.signedReport
        /\ new.timeline = IF d.phase # PreviousPhase(status)
                          THEN RecordTransition(status.timeline, d.phase) ELSE status.timeline
    BY DEF NewStatus
  <2> HIDE DEF appStates, silent, validation, d, due, new, failedAt
  <2>4. CASE patched = TRUE
    <3>1. status' = MergeFrom(new, status, status) /\ evaluated'.at = now
      BY <2>1, <2>4
    <3>2. MergeBaseline(new.baseline, status.baseline, status.baseline) = new.baseline
      BY <2>3, BaselineMerged
    <3>3. d.phase \in {"Succeeded", "TimedOut"} =>
             /\ new.signedReport.timestamp = now /\ new.signedReport.overallResult = d.phase
             /\ new.signedReport.checksum = <<now, d.phase, new.signedReport.gates>>
      BY <2>3 DEF GenerateSignedReport
    <3>4. Evaluates(appStates, order, validation, d)
      <4>1. /\ status'.phase = new.phase
            /\ status'.validation.passed = new.validation.passed
            /\ status'.stabilizationStartedAt = new.stabilizationStartedAt
            /\ \A a \in Apps : status'.appStates[a] = new.appStates[a]
            /\ status'.signedReport.timestamp = new.signedReport.timestamp
            /\ status'.signedReport.overallResult = new.signedReport.overallResult
            /\ status'.signedReport.gates = new.signedReport.gates
            /\ status'.signedReport.checksum = new.signedReport.checksum
            /\ status'.timeline = new.timeline
            /\ status'.baseline = new.baseline
        BY <3>1, <3>2, MergeLatest
      <4>2. /\ validation = evaluateGates(appStates, order, SilentClusters(appStates, now))
            /\ d = Decide(PreviousPhase(status), validation.passed, status.stabilizationStartedAt)
        BY DEF validation, silent, d
      <4> QED BY <2>1, <2>2, <2>3, <3>1, <3>3, <4>1, <4>2 DEF Evaluates
    <3> QED BY <3>4 DEF appStates, silent, validation, d
  <2>5. CASE patched = FALSE
    BY <2>1, <2>5
  <2> QED BY <2>4, <2>5
<1> QED BY <1>1, <1>2, <1>3, <1>4 DEF Next, ReconcileAny

-----------------------------------------------------------------------------
(* The lifecycle.                                                          *)

\* What the status says about its past: before the first stored evaluation there
\* is no baseline and no clock, and the timeline is empty; after it there is a
\* baseline, time is past the start, the phase is one that a decision gives, and
\* the stabilization clock runs exactly while the verdict is good and a period
\* is asked for.
DecidedPhases == {"PlatformRecovering", "Succeeded", "TimedOut", "WaitingForChange", "Executing"}
PastInv ==
    /\ evaluated.at = NoTime =>
          /\ status.baseline = NoBaseline
          /\ status.phase \in {"", "Scheduled"}
          /\ status.stabilizationStartedAt = NoTime
          /\ status.timeline = <<>>
    /\ evaluated.at # NoTime =>
          /\ status.baseline # NoBaseline
          /\ status.phase \in DecidedPhases
          /\ evaluated.at >= StartTime
          /\ status.stabilizationStartedAt # NoTime <=>
                (StabilizationPeriod > 0 /\ status.validation.passed = TRUE)

LifeInv == TypeInv /\ StabInv /\ PastInv

LEMMA LifeInit == MaxBehind = 0 /\ Init => LifeInv
<1> SUFFICES ASSUME MaxBehind = 0, Init PROVE LifeInv
  OBVIOUS
<1>1. TypeInv /\ StabInv
  BY TypeInit, StabInit
<1>2. status = InitialStatus /\ evaluated.at = NoTime
  BY DEF Init
<1> QED BY <1>1, <1>2 DEF LifeInv, PastInv, InitialStatus

\* The decision of a stored evaluation: a good verdict starts the clock, if a
\* period is asked for and it is not running; a bad one stops it.
LEMMA EvaluatesDecision ==
    ASSUME NEW appStates, NEW order, NEW validation, NEW d,
           Evaluates(appStates, order, validation, d)
    PROVE  \/ /\ status'.validation.passed = TRUE
              /\ d.startedAt = IF StabilizationPeriod > 0 /\ status.stabilizationStartedAt = NoTime
                               THEN now ELSE status.stabilizationStartedAt
              /\ d.phase = IF StabilizationPeriod > 0 /\ now < d.startedAt + StabilizationPeriod
                           THEN "PlatformRecovering" ELSE "Succeeded"
           \/ /\ status'.validation.passed = FALSE
              /\ d.startedAt = NoTime
              /\ d.phase = IF now > EndTime THEN "TimedOut"
                           ELSE IF PreviousPhase(status) \in {"", "Scheduled", "BaselineCaptured"}
                           THEN "WaitingForChange" ELSE "Executing"
<1>1. /\ validation.passed = TRUE \/ validation.passed = FALSE
      /\ status'.validation.passed = validation.passed
      /\ d = Decide(PreviousPhase(status), validation.passed, status.stabilizationStartedAt)
  BY DEF Evaluates
<1>2. CASE validation.passed = TRUE
  <2>1. d = Decide(PreviousPhase(status), TRUE, status.stabilizationStartedAt)
    BY <1>1, <1>2
  <2>2. /\ d.startedAt = IF StabilizationPeriod > 0 /\ status.stabilizationStartedAt = NoTime
                         THEN now ELSE status.stabilizationStartedAt
        /\ d.phase = IF StabilizationPeriod > 0 /\ now < d.startedAt + StabilizationPeriod
                     THEN "PlatformRecovering" ELSE "Succeeded"
    BY <2>1, SMT DEF Decide
  <2> QED BY <1>1, <1>2, <2>2, Zenon
<1>3. CASE validation.passed = FALSE
  <2>1. d = Decide(PreviousPhase(status), FALSE, status.stabilizationStartedAt)
    BY <1>1, <1>3
  <2>2. d = IF now > EndTime
            THEN [phase |-> "TimedOut", overall |-> "Degraded", startedAt |-> NoTime]
            ELSE [ phase |-> IF PreviousPhase(status) \in {"", "Scheduled", "BaselineCaptured"}
                             THEN "WaitingForChange" ELSE "Executing",
                   overall |-> "InProgress", startedAt |-> NoTime ]
    BY <2>1, Zenon DEF Decide
  <2>3. /\ d.startedAt = NoTime
        /\ d.phase = IF now > EndTime THEN "TimedOut"
                     ELSE IF PreviousPhase(status) \in {"", "Scheduled", "BaselineCaptured"}
                     THEN "WaitingForChange" ELSE "Executing"
    BY <2>2, Zenon
  <2> QED BY <1>1, <1>3, <2>3, Zenon
<1> QED BY <1>1, <1>2, <1>3

\* Without a stabilization period there is no clock.
LEMMA NoClock ==
    ASSUME PastInv, StabilizationPeriod = 0
    PROVE  status.stabilizationStartedAt = NoTime
<1>1. ~(StabilizationPeriod > 0)
  OBVIOUS
<1> QED BY <1>1, Zenon DEF PastInv

LEMMA PastEvaluates ==
    ASSUME LifeInv, NEW appStates, NEW order, NEW validation, NEW d,
           Evaluates(appStates, order, validation, d)
    PROVE  PastInv'
<1>1. /\ now \in Nat /\ status.stabilizationStartedAt \in Times /\ evaluated.at \in Times
      /\ StartTime \in Nat /\ StabilizationPeriod \in Nat
  BY WindowAssumption, GatesAssumption DEF LifeInv, TypeInv, PacedInv, Typed
<1>2. evaluated'.at = now /\ now >= StartTime /\ now # NoTime
  BY <1>1 DEF Evaluates, NoTime
<1>3. status'.phase = d.phase /\ status'.phase \in DecidedPhases
  <2>1. status'.phase = d.phase
    BY DEF Evaluates
  <2> QED BY <2>1, EvaluatesDecision, Zenon DEF DecidedPhases
<1>4. status'.baseline # NoBaseline
  <2>1. status'.baseline = BaselineOnce(status, appStates, order)
    BY DEF Evaluates
  <2>2. captureBaseline(appStates, order).capturedAt = now
    BY DEF captureBaseline
  <2>3. NoBaseline.capturedAt = NoTime
    BY DEF NoBaseline
  <2> QED BY <1>2, <2>1, <2>2, <2>3 DEF BaselineOnce
<1>5. status'.stabilizationStartedAt # NoTime <=>
         (StabilizationPeriod > 0 /\ status'.validation.passed = TRUE)
  <2>1. status'.stabilizationStartedAt = d.startedAt
    BY DEF Evaluates
  <2>2. StabilizationPeriod = 0 => status.stabilizationStartedAt = NoTime
    BY NoClock DEF LifeInv
  <2>3. CASE status'.validation.passed = TRUE
    <3>1. d.startedAt = IF StabilizationPeriod > 0 /\ status.stabilizationStartedAt = NoTime
                        THEN now ELSE status.stabilizationStartedAt
      BY <2>3, EvaluatesDecision, Zenon
    <3> QED BY <1>1, <1>2, <2>1, <2>2, <2>3, <3>1
  <2>4. CASE status'.validation.passed = FALSE
    BY <2>1, <2>4, EvaluatesDecision
  <2> QED BY <2>3, <2>4, EvaluatesDecision
<1> QED BY <1>2, <1>3, <1>4, <1>5 DEF PastInv

LEMMA LifeStep == LifeInv /\ [Next]_vars => LifeInv'
<1> SUFFICES ASSUME LifeInv, [Next]_vars PROVE LifeInv'
  OBVIOUS
<1>1. TypeInv' /\ StabInv'
  BY TypeStep, StabStep DEF LifeInv
<1>2. PastInv'
  <2>1. CASE UNCHANGED <<status, evaluated>>
    BY <2>1 DEF LifeInv, PastInv
  <2>2. CASE Schedules
    <3>1. evaluated' = evaluated /\ evaluated.at = NoTime
      <4>1. /\ now < StartTime /\ evaluated.at <= now /\ now \in Nat /\ StartTime \in Nat
            /\ evaluated.at \in Times /\ evaluated' = evaluated
        BY <2>2, GatesAssumption DEF Schedules, LifeInv, StabInv, TypeInv, PacedInv
      <4>2. ~(evaluated.at >= StartTime)
        BY <4>1 DEF Times, NoTime
      <4> QED BY <4>1, <4>2 DEF LifeInv, PastInv
    <3> QED BY <2>2, <3>1 DEF Schedules, LifeInv, PastInv
  <2>3. ASSUME NEW appStates, NEW order, NEW validation, NEW d,
               Evaluates(appStates, order, validation, d)
        PROVE  PastInv'
    BY <2>3, PastEvaluates
  <2> QED BY <2>1, <2>2, <2>3, StoredSteps DEF LifeInv
<1> QED BY <1>1, <1>2 DEF LifeInv

\* A stored evaluation is a good or a bad outcome of the lifecycle.
LEMMA EvaluatesIsOutcome ==
    ASSUME LifeInv, NEW appStates, NEW order, NEW validation, NEW d,
           Evaluates(appStates, order, validation, d)
    PROVE  Lifecycle!Good \/ Lifecycle!Bad
<1>1. /\ now \in Nat /\ status.stabilizationStartedAt \in Times /\ evaluated.at \in Times
      /\ StartTime \in Nat /\ StabilizationPeriod \in Nat /\ EndTime \in Nat
  BY WindowAssumption, GatesAssumption DEF LifeInv, TypeInv, PacedInv, Typed
<1>2. /\ evaluated'.at = now /\ now >= StartTime /\ now' = now /\ now # NoTime
      /\ status'.phase = d.phase /\ status'.stabilizationStartedAt = d.startedAt
  BY <1>1 DEF Evaluates, NoTime
<1>3. /\ d.phase \in {"Succeeded", "TimedOut"} =>
            /\ status'.signedReport.timestamp = now
            /\ status'.signedReport.overallResult = d.phase
      /\ d.phase \notin {"Succeeded", "TimedOut"} =>
            /\ status'.signedReport.timestamp = status.signedReport.timestamp
            /\ status'.signedReport.overallResult = status.signedReport.overallResult
  BY DEF Evaluates
<1>4. CASE status'.validation.passed = TRUE
  <2>1. StoredOutcome' = "good"
    BY <1>2, <1>4 DEF StoredOutcome
  <2>2. /\ d.startedAt = IF StabilizationPeriod > 0 /\ status.stabilizationStartedAt = NoTime
                         THEN now ELSE status.stabilizationStartedAt
        /\ d.phase = IF StabilizationPeriod > 0 /\ now < d.startedAt + StabilizationPeriod
                     THEN "PlatformRecovering" ELSE "Succeeded"
    BY <1>4, EvaluatesDecision
  <2>3. StabilizationPeriod = 0 => status.stabilizationStartedAt = NoTime
    BY NoClock DEF LifeInv
  <2>4. StabilizationPeriod > 0 =>
           (status.stabilizationStartedAt # NoTime <=> StoredOutcome = "good")
    BY DEF LifeInv, PastInv, StoredOutcome
  <2>5. d.startedAt = IF StabilizationPeriod = 0 THEN NoTime
                      ELSE IF StoredOutcome = "good" THEN status.stabilizationStartedAt ELSE now
    BY <1>1, <2>2, <2>3, <2>4
  <2>6. d.startedAt \in Int
    BY <1>1, <2>5 DEF Times, NoTime
  <2>7. Lifecycle!Good
    <3>1. CASE d.phase = "Succeeded"
      <4>1. StabilizationPeriod = 0 \/ (StabilizationPeriod > 0 /\ now - d.startedAt >= StabilizationPeriod)
        BY <1>1, <2>2, <2>6, <3>1
      <4> QED BY <1>2, <1>3, <2>1, <2>5, <3>1, <4>1
              DEF Lifecycle!Good, Lifecycle!Decision, Lifecycle!NoTime, NoTime
    <3>2. CASE d.phase # "Succeeded"
      <4>1. /\ StabilizationPeriod > 0 /\ now - d.startedAt < StabilizationPeriod
            /\ d.phase = "PlatformRecovering"
        BY <1>1, <2>2, <2>6, <3>2
      <4> QED BY <1>2, <1>3, <2>1, <2>5, <4>1
              DEF Lifecycle!Good, Lifecycle!NoTime, NoTime
    <3> QED BY <3>1, <3>2
  <2> QED BY <2>7
<1>5. CASE status'.validation.passed = FALSE
  <2>1. StoredOutcome' = "bad"
    BY <1>2, <1>5 DEF StoredOutcome
  <2>2. /\ d.startedAt = NoTime
        /\ d.phase = IF now > EndTime THEN "TimedOut"
                     ELSE IF PreviousPhase(status) \in {"", "Scheduled", "BaselineCaptured"}
                     THEN "WaitingForChange" ELSE "Executing"
    BY <1>5, EvaluatesDecision
  <2>3. PreviousPhase(status) \in {"", "Scheduled", "BaselineCaptured"} <=> StoredOutcome = "none"
    BY DEF LifeInv, PastInv, PreviousPhase, StoredOutcome, DecidedPhases
  <2>4. now > EndTime \/ (now <= EndTime /\ ~(now > EndTime))
    BY <1>1
  <2>5. Lifecycle!Bad
    BY <1>2, <1>3, <2>1, <2>2, <2>3, <2>4
       DEF Lifecycle!Bad, Lifecycle!Decision, Lifecycle!NoTime, NoTime
  <2> QED BY <2>5
<1> QED BY <1>4, <1>5, EvaluatesDecision

\* Reconcile with its lost reports, failed patches and vanishing applications
\* implements the lifecycle that readers of the status rely on, for every window,
\* stabilization period and set of applications.
THEOREM LifecycleImplemented == MaxBehind = 0 /\ Spec => ImplementsLifecycle
<1>1. Init => Lifecycle!Init
  <2> SUFFICES ASSUME Init PROVE Lifecycle!Init
    OBVIOUS
  <2>1. now = 0 /\ status = InitialStatus /\ evaluated.at = NoTime
    BY DEF Init
  <2>2. StoredOutcome = "none"
    BY <2>1 DEF StoredOutcome
  <2>3. /\ status.phase = "" /\ status.stabilizationStartedAt = NoTime
        /\ status.signedReport.overallResult = "" /\ status.signedReport.timestamp = NoTime
    BY <2>1 DEF InitialStatus, NoSignedReport
  <2> QED BY <2>1, <2>2, <2>3 DEF Lifecycle!Init, Lifecycle!NoTime, NoTime
<1>2. LifeInv /\ [Next]_vars => [Lifecycle!Next]_(Lifecycle!vars)
  <2> SUFFICES ASSUME LifeInv, [Next]_vars
               PROVE  Lifecycle!Next \/ UNCHANGED Lifecycle!vars
    OBVIOUS
  <2>1. CASE UNCHANGED <<now, status, evaluated>>
    BY <2>1 DEF Lifecycle!vars, StoredOutcome
  <2>2. CASE now' = now + 1 /\ UNCHANGED <<status, evaluated>>
    BY <2>2 DEF Lifecycle!Next, Lifecycle!PassTime, StoredOutcome
  <2>3. CASE Schedules
    BY <2>3 DEF Schedules, Lifecycle!Next, Lifecycle!Schedule, StoredOutcome
  <2>4. ASSUME NEW appStates, NEW order, NEW validation, NEW d,
               Evaluates(appStates, order, validation, d)
        PROVE  Lifecycle!Next
    BY <2>4, EvaluatesIsOutcome DEF Lifecycle!Next
  <2> QED BY <2>1, <2>2, <2>3, <2>4, StoredSteps DEF LifeInv
<1> QED BY <1>1, <1>2, LifeInit, LifeStep, PTL DEF Spec, ImplementsLifecycle, Lifecycle!Spec

-----------------------------------------------------------------------------
(* The audit trail.                                                        *)

\* A timeline without repetitions within its cap, and the phase it ends with.
CleanTimeline(t) ==
    /\ t \in Seq(Phases) /\ Len(t) <= TimelineCap
    /\ \A i \in 1 .. Len(t) - 1 : t[i] # t[i + 1]
EndsWith(t, p) == Len(t) > 0 /\ t[Len(t)] = p

\* A transition to a phase the timeline does not end with leaves it clean, with
\* the new phase at its end, whether or not the cap drops the oldest entry.
LEMMA RecordClean ==
    ASSUME NEW t, CleanTimeline(t), NEW p \in Phases,
           Len(t) > 0 => t[Len(t)] # p
    PROVE  CleanTimeline(RecordTransition(t, p)) /\ EndsWith(RecordTransition(t, p), p)
<1> DEFINE l == Append(t, p)
           r == RecordTransition(t, p)
<1>1. /\ t \in Seq(Phases) /\ Len(t) \in Nat /\ TimelineCap \in Nat /\ TimelineCap > 0
      /\ Len(t) <= TimelineCap
  BY WindowAssumption DEF CleanTimeline
<1>2. /\ l \in Seq(Phases) /\ Len(l) = Len(t) + 1 /\ l[Len(t) + 1] = p
      /\ \A i \in 1 .. Len(t) : l[i] = t[i]
  BY <1>1
<1>3. r \in Seq(Phases)
  BY <1>1, RecordTyped
<1>4. ASSUME NEW i \in 1 .. Len(l) - 1 PROVE l[i] # l[i + 1]
  <2>1. CASE i = Len(t)
    BY <1>1, <1>2, <2>1
  <2>2. CASE i # Len(t)
    <3>1. i \in 1 .. Len(t) - 1 /\ i \in 1 .. Len(t) /\ i + 1 \in 1 .. Len(t)
      BY <1>1, <1>2, <2>2
    <3> QED BY <1>2, <3>1 DEF CleanTimeline
  <2> QED BY <2>1, <2>2
<1> HIDE DEF l
<1>5. CASE Len(l) > TimelineCap
  <2>1. Len(t) = TimelineCap /\ Len(l) - TimelineCap + 1 = 2
    BY <1>1, <1>2, <1>5
  <2>2. r = SubSeq(l, Len(l) - TimelineCap + 1, Len(l))
    BY <1>5, Zenon DEF RecordTransition, l
  <2>3. r = SubSeq(l, 2, Len(l))
    BY <2>1, <2>2
  <2>4. Len(r) = TimelineCap /\ \A i \in 1 .. TimelineCap : r[i] = l[i + 1]
    BY <1>1, <1>2, <2>1, <2>3
  <2> HIDE DEF r
  <2>5. ASSUME NEW i \in 1 .. Len(r) - 1 PROVE r[i] # r[i + 1]
    <3>1. i \in 1 .. TimelineCap /\ i + 1 \in 1 .. TimelineCap /\ i + 1 \in 1 .. Len(l) - 1
      BY <1>1, <1>2, <2>1, <2>4
    <3> QED BY <1>4, <2>4, <3>1
  <2>6. r[Len(r)] = p
    BY <1>1, <1>2, <2>1, <2>4
  <2> QED BY <1>1, <1>3, <2>4, <2>5, <2>6 DEF CleanTimeline, EndsWith, r
<1>6. CASE ~(Len(l) > TimelineCap)
  <2>1. r = l
    BY <1>6, Zenon DEF RecordTransition, l
  <2> HIDE DEF r
  <2> QED BY <1>1, <1>2, <1>4, <1>6, <2>1 DEF CleanTimeline, EndsWith, r
<1> QED BY <1>5, <1>6

\* The inductive invariant: AuditTrailAgrees is inductive beside LifeInv, which
\* ties an empty timeline to a window that was not evaluated yet.
AuditInv ==
    /\ LifeInv
    /\ status.phase \in {"Succeeded", "TimedOut"} =>
          /\ status.signedReport.overallResult = status.phase
          /\ status.signedReport.timestamp = evaluated.at
    /\ status.signedReport.timestamp # NoTime =>
          status.signedReport.checksum =
              <<status.signedReport.timestamp, status.signedReport.overallResult,
                status.signedReport.gates>>
    /\ CleanTimeline(status.timeline)
    /\ evaluated.at # NoTime => EndsWith(status.timeline, status.phase)

LEMMA AuditInit == MaxBehind = 0 /\ Init => AuditInv
<1> SUFFICES ASSUME MaxBehind = 0, Init PROVE AuditInv
  OBVIOUS
<1>1. LifeInv
  BY LifeInit
<1>2. status = InitialStatus /\ evaluated.at = NoTime
  BY DEF Init
<1>3. status.phase = "" /\ status.timeline = <<>> /\ status.signedReport.timestamp = NoTime
  BY <1>2 DEF InitialStatus, NoSignedReport
<1>4. CleanTimeline(<<>>)
  BY WindowAssumption DEF CleanTimeline
<1> QED BY <1>1, <1>2, <1>3, <1>4 DEF AuditInv

LEMMA AuditEvaluates ==
    ASSUME AuditInv, NEW appStates, NEW order, NEW validation, NEW d,
           Evaluates(appStates, order, validation, d), LifeInv'
    PROVE  AuditInv'
<1>1. now \in Nat /\ now # NoTime /\ evaluated'.at = now /\ status'.phase = d.phase
  BY DEF AuditInv, LifeInv, TypeInv, PacedInv, Evaluates, NoTime
<1>2. d.phase \in DecidedPhases /\ d.phase \in Phases /\ d.phase # "BaselineCaptured"
  <2>1. d.phase \in DecidedPhases
    BY <1>1 DEF LifeInv, PastInv
  <2> QED BY <2>1 DEF DecidedPhases, Phases
<1>3. /\ status'.phase \in {"Succeeded", "TimedOut"} =>
            /\ status'.signedReport.overallResult = status'.phase
            /\ status'.signedReport.timestamp = evaluated'.at
      /\ status'.signedReport.timestamp # NoTime =>
            status'.signedReport.checksum =
                <<status'.signedReport.timestamp, status'.signedReport.overallResult,
                  status'.signedReport.gates>>
  <2>1. CASE d.phase \in {"Succeeded", "TimedOut"}
    BY <1>1, <2>1 DEF Evaluates
  <2>2. CASE d.phase \notin {"Succeeded", "TimedOut"}
    BY <1>1, <2>2 DEF Evaluates, AuditInv
  <2> QED BY <2>1, <2>2
<1>4. CleanTimeline(status'.timeline) /\ EndsWith(status'.timeline, d.phase)
  <2>1. status'.timeline = IF d.phase # PreviousPhase(status)
                           THEN RecordTransition(status.timeline, d.phase) ELSE status.timeline
    BY DEF Evaluates
  <2>2. CASE evaluated.at = NoTime
    <3>1. PreviousPhase(status) = "BaselineCaptured" /\ status.timeline = <<>>
      BY <2>2 DEF AuditInv, LifeInv, PastInv, PreviousPhase
    <3>2. CleanTimeline(status.timeline) /\ ~(Len(status.timeline) > 0)
      BY <3>1 DEF AuditInv
    <3> QED BY <1>2, <2>1, <3>1, <3>2, RecordClean
  <2>3. CASE evaluated.at # NoTime
    <3>1. PreviousPhase(status) = status.phase
      BY <2>3 DEF AuditInv, LifeInv, PastInv, PreviousPhase
    <3>2. CleanTimeline(status.timeline) /\ EndsWith(status.timeline, status.phase)
      BY <2>3 DEF AuditInv
    <3>3. CASE d.phase = status.phase
      BY <2>1, <3>1, <3>2, <3>3
    <3>4. CASE d.phase # status.phase
      BY <1>2, <2>1, <3>1, <3>2, <3>4, RecordClean DEF EndsWith
    <3> QED BY <3>3, <3>4
  <2> QED BY <2>2, <2>3
<1> QED BY <1>1, <1>3, <1>4 DEF AuditInv

LEMMA AuditStep == AuditInv /\ [Next]_vars => AuditInv'
<1> SUFFICES ASSUME AuditInv, [Next]_vars PROVE AuditInv'
  OBVIOUS
<1>1. LifeInv /\ LifeInv'
  BY LifeStep DEF AuditInv
<1>2. CASE UNCHANGED <<status, evaluated>>
  BY <1>1, <1>2 DEF AuditInv
<1>3. CASE Schedules
  BY <1>1, <1>3 DEF Schedules, AuditInv, LifeInv, PastInv, DecidedPhases
<1>4. ASSUME NEW appStates, NEW order, NEW validation, NEW d,
             Evaluates(appStates, order, validation, d)
      PROVE  AuditInv'
  BY <1>1, <1>4, AuditEvaluates
<1> QED BY <1>1, <1>2, <1>3, <1>4, StoredSteps DEF LifeInv

\* GenerateSignedReport and RecordTransition: for every cap and every history of
\* lost patches, the stored report, timeline and phase tell one story.
THEOREM AuditTrailAlwaysAgrees == MaxBehind = 0 /\ Spec => []AuditTrailAgrees
<1>1. AuditInv => AuditTrailAgrees
  <2> SUFFICES ASSUME AuditInv PROVE AuditTrailAgrees
    OBVIOUS
  <2>1. evaluated.at # NoTime =>
           status.timeline # <<>> /\ status.timeline[Len(status.timeline)] = status.phase
    BY DEF AuditInv, EndsWith
  <2> QED BY <2>1 DEF AuditInv, AuditTrailAgrees, CleanTimeline
<1> QED BY <1>1, AuditInit, AuditStep, PTL DEF Spec

-----------------------------------------------------------------------------
(* Evidence.                                                               *)

\* Every row an application shows has one of the three healths.
Healths == {"Healthy", "Unknown", "Degraded"}
HealthKnown(s) == \A j \in DOMAIN s.rows : s.rows[j].obs.health \in Healths

\* The verdict: when all gates are True and no cluster is silent, there are rows,
\* and every one of them is InSync, Healthy and fresh.
LEMMA PassedOnEvidence ==
    ASSUME NEW appStates, \A a \in Apps : HealthKnown(appStates[a]),
           NEW order \in Orders,
           evaluateGates(appStates, order, SilentClusters(appStates, now)).passed = TRUE
    PROVE  /\ RowsOf(appStates) # {}
           /\ \A r \in RowsOf(appStates) :
                 /\ r.state = "InSync" /\ r.obs.health = "Healthy"
                 /\ Age(now, r.observedAt) <= StaleThreshold
<1> DEFINE gates  == GateResults(appStates, order)
           R      == RowsOf(appStates)
           silent == SilentClusters(appStates, now)
<1>1. AllTrue(gates) /\ silent = {}
  BY DEF evaluateGates
<1>2. HealthCheckPassed(R) = "True" /\ AllChangesApplied(appStates, order) = "True"
  <2>1. /\ {"HealthCheckPassed", "AllChangesApplied"} \subseteq DOMAIN gates
        /\ gates["HealthCheckPassed"] = HealthCheckPassed(R)
        /\ gates["AllChangesApplied"] = AllChangesApplied(appStates, order)
    BY DEF GateResults
  <2> HIDE DEF gates, R
  <2> QED BY <1>1, <2>1 DEF AllTrue
<1>3. R # {} /\ \A r \in R : r.obs.health \notin {"Degraded", "Unknown"}
  <2> HIDE DEF R
  <2> QED BY <1>2 DEF HealthCheckPassed, GateOf
<1>4. ASSUME NEW a \in Apps, NEW j \in DOMAIN appStates[a].rows
      PROVE  /\ appStates[a].rows[j].state = "InSync"
             /\ appStates[a].rows[j].obs.health = "Healthy"
             /\ Age(now, appStates[a].rows[j].observedAt) <= StaleThreshold
  <2> DEFINE row == appStates[a].rows[j]
  <2>1. row \in R
    BY DEF RowsOf
  <2>2. row.obs.health = "Healthy"
    <3>1. row.obs.health \in Healths /\ row.obs.health \notin {"Degraded", "Unknown"}
      BY <1>3, <2>1 DEF HealthKnown
    <3> QED BY <3>1 DEF Healths
  <2>3. row.state = "InSync"
    <3>1. PICK i \in DOMAIN order : order[i] = a
      BY DEF Orders
    <3>2. ~NotInSync(appStates[order[i]])
      BY <1>2, Zenon DEF AllChangesApplied
    <3> QED BY <3>1, <3>2 DEF NotInSync
  <2>4. Age(now, row.observedAt) <= StaleThreshold
    <3>1. classifySilence(row, now) = "Reporting"
      <4> DEFINE late == {k \in DOMAIN appStates[a].rows :
                            classifySilence(appStates[a].rows[k], now) # "Reporting"}
                 entry(k) == [ app |-> a, cluster |-> k,
                               state |-> classifySilence(appStates[a].rows[k], now),
                               lastSeenAt |-> appStates[a].rows[k].observedAt,
                               silentFor |-> Age(now, appStates[a].rows[k].observedAt) ]
      <4>1. {entry(k) : k \in late} \subseteq silent
        BY Zenon DEF SilentClusters
      <4>2. late = {}
        <5> HIDE DEF late, silent, entry
        <5> QED BY <1>1, <4>1
      <4> QED BY <4>2
    <3> QED BY <3>1 DEF classifySilence
  <2> QED BY <2>2, <2>3, <2>4
<1>5. \A r \in RowsOf(appStates) :
         \E a \in Apps : \E j \in DOMAIN appStates[a].rows : r = appStates[a].rows[j]
  BY DEF RowsOf
<1> QED BY <1>3, <1>4, <1>5

\* The inductive invariant: health is known in the rows of the applications and
\* in those of the stored snapshot, which may be older than any of them.
EvidenceInv ==
    /\ LifeInv
    /\ \A a \in Apps : HealthKnown(ps[a]) /\ HealthKnown(status.appStates[a])
    /\ SucceededOnFreshEvidence

LEMMA EvidenceInit == MaxBehind = 0 /\ Init => EvidenceInv
<1> SUFFICES ASSUME MaxBehind = 0, Init PROVE EvidenceInv
  OBVIOUS
<1>1. LifeInv
  BY LifeInit
<1>2. HealthKnown(NotFound) /\ HealthKnown(NoRows) /\ HealthKnown(Unreported)
  BY DEF HealthKnown, NotFound, NoRows, Unreported, MissingRow, EmptyObservation, Healths
<1>3. \A a \in Apps : HealthKnown(ps[a])
  <2>1. \A a \in Apps : ps[a] \in {NotFound, NoRows, Unreported}
    BY DEF Init
  <2> QED BY <1>2, <2>1
<1>4. status.phase = "" /\ \A a \in Apps : status.appStates[a] = NotFound
  BY DEF Init, InitialStatus
<1> QED BY <1>1, <1>2, <1>3, <1>4 DEF EvidenceInv, SucceededOnFreshEvidence

\* Whatever rows appear, change and vanish, their health is known.
LEMMA HealthStays ==
    ASSUME \A a \in Apps : HealthKnown(ps[a]), [Next]_vars, NEW a \in Apps
    PROVE  HealthKnown(ps'[a])
<1>1. HealthKnown(NotFound) /\ HealthKnown(NoRows)
  BY DEF HealthKnown, NotFound, NoRows
<1>2. ASSUME NEW b \in Apps, UpdatePS(b) PROVE HealthKnown(ps'[a])
  <2>1. PICK rows \in [Clusters -> UNION {PossibleRows(b, j) : j \in Clusters}] :
           /\ \A j \in Clusters : rows[j] \in PossibleRows(b, j)
           /\ ps' = [ps EXCEPT ![b].rows = rows]
    BY <1>2 DEF UpdatePS
  <2>2. ASSUME NEW j \in Clusters PROVE rows[j].obs.health \in Healths
    <3>1. CASE rows[j] = MissingRow
      BY <3>1 DEF MissingRow, EmptyObservation, Healths
    <3>2. CASE \E c \in Contents : \E t : rows[j] = [state |-> c.state, observedAt |-> t, obs |-> c.obs]
      <4>1. PICK c \in Contents : rows[j].obs = c.obs
        BY <3>2
      <4>2. c.obs.health \in Healths
        BY WindowAssumption DEF Observation, Healths
      <4> QED BY <4>1, <4>2
    <3> QED BY <2>1, <3>1, <3>2 DEF PossibleRows
  <2>3. a = b => ps'[a].rows = rows \/ ps'[a] = ps[a]
    BY <2>1
  <2>4. a # b => ps'[a] = ps[a]
    BY <2>1
  <2> QED BY <2>2, <2>3, <2>4 DEF HealthKnown
<1>3. ps'[a] = ps[a] \/ ps'[a] = NotFound \/ ps'[a] = NoRows \/ \E b \in Apps : UpdatePS(b)
  <2>1. ASSUME NEW b \in Apps, CreatePS(b) PROVE ps'[a] = ps[a] \/ ps'[a] = NoRows
    BY <2>1 DEF CreatePS
  <2>2. ASSUME NEW b \in Apps, DeletePS(b) PROVE ps'[a] = ps[a] \/ ps'[a] = NotFound
    BY <2>2 DEF DeletePS
  <2>3. CASE Tick \/ ReconcileAny \/ InformerSync \/ UNCHANGED vars
    BY <2>3 DEF Tick, ReconcileAny, ReconcileScheduled, Reconcile, InformerSync, vars
  <2> QED BY <2>1, <2>2, <2>3 DEF Next, Environment
<1> QED BY <1>1, <1>2, <1>3

LEMMA EvidenceStep == EvidenceInv /\ [Next]_vars => EvidenceInv'
<1> SUFFICES ASSUME EvidenceInv, [Next]_vars PROVE EvidenceInv'
  OBVIOUS
<1>1. LifeInv /\ LifeInv'
  BY LifeStep DEF EvidenceInv
<1>2. \A a \in Apps : HealthKnown(ps'[a])
  BY HealthStays DEF EvidenceInv
<1>3. CASE UNCHANGED <<status, evaluated>>
  BY <1>1, <1>2, <1>3 DEF EvidenceInv, SucceededOnFreshEvidence, HealthKnown
<1>4. CASE Schedules
  BY <1>1, <1>2, <1>4 DEF Schedules, EvidenceInv, SucceededOnFreshEvidence, HealthKnown
<1>5. ASSUME NEW order \in Orders, NEW appStates, appStates = FetchAppStates(status),
             NEW validation, NEW d, Evaluates(appStates, order, validation, d)
      PROVE  EvidenceInv'
  <2>1. \A a \in Apps : HealthKnown(appStates[a]) /\ status'.appStates[a] = appStates[a]
    BY <1>5 DEF EvidenceInv, FetchAppStates, Evaluates
  <2>2. RowsOf(status'.appStates) = RowsOf(appStates)
    BY <2>1 DEF RowsOf
  <2>3. status'.phase = "Succeeded" => status'.validation.passed = TRUE
    <3>1. status'.phase = d.phase
      BY <1>5 DEF Evaluates
    <3> QED BY <1>5, <3>1, EvaluatesDecision, Zenon
  <2>4. /\ validation = evaluateGates(appStates, order, SilentClusters(appStates, now))
        /\ status'.validation.passed = validation.passed /\ evaluated'.at = now
    BY <1>5 DEF Evaluates
  <2>5. SucceededOnFreshEvidence'
    <3> SUFFICES ASSUME status'.phase = "Succeeded"
                 PROVE  /\ RowsOf(status'.appStates) # {}
                        /\ \A r \in RowsOf(status'.appStates) :
                              /\ r.state = "InSync" /\ r.obs.health = "Healthy"
                              /\ Age(evaluated'.at, r.observedAt) <= StaleThreshold
      BY DEF SucceededOnFreshEvidence, RowsOf, Age
    <3>1. evaluateGates(appStates, order, SilentClusters(appStates, now)).passed = TRUE
      BY <2>3, <2>4
    <3> QED BY <2>1, <2>2, <2>4, <3>1, PassedOnEvidence
  <2> QED BY <1>1, <1>2, <2>1, <2>5 DEF EvidenceInv, HealthKnown
<1> QED BY <1>1, <1>3, <1>4, <1>5, StoredSteps DEF LifeInv

\* evaluateGates, classifySilence and Decide: for every set of applications, number
\* of clusters, order of the visit and threshold, a window is Succeeded only when
\* every row of its snapshot was InSync, Healthy and fresh at the evaluation.
THEOREM SucceededAlwaysOnFreshEvidence == MaxBehind = 0 /\ Spec => []SucceededOnFreshEvidence
<1>1. EvidenceInv => SucceededOnFreshEvidence
  BY DEF EvidenceInv
<1> QED BY <1>1, EvidenceInit, EvidenceStep, PTL DEF Spec
=============================================================================
