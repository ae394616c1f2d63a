-------------------------- MODULE ChangeWindowProofs --------------------------
(***************************************************************************)
(* Proofs about the ChangeWindow controller, for every set of              *)
(* applications, number of clusters, threshold, retry budget and horizon,  *)
(* with lost patches and a lagging cache.                                  *)
(***************************************************************************)
EXTENDS ChangeWindow, TLAPS

\* A version of the status: a record with these fields, whose hard-refresh
\* records are all paced.
Fields == {"phase", "overall", "silent", "actions", "validation", "stabilizationStartedAt",
           "lastReportedAt", "appStates", "baseline", "signedReport", "timeline"}
PacedVersion(s) ==
    /\ DOMAIN s = Fields
    /\ s.actions \in [Apps \X Clusters -> Refreshes]
    /\ \A k \in Apps \X Clusters : Paced(s.actions[k])

\* The watch: the latest version is the last one to come.
WatchInv ==
    /\ \E S : coming \in Seq(S)
    /\ Len(coming) <= MaxBehind
    /\ status = IF coming = <<>> THEN cache ELSE coming[Len(coming)]

\* The versions that a reconcile may start from, now or later.
ToRead == {cache} \cup {coming[i] : i \in 1 .. Len(coming)}

\* The inductive invariant: the versions a reconcile may start from are paced too,
\* because an attempt is counted from there.
PacedInv ==
    /\ now \in Nat
    /\ WatchInv
    /\ PacedVersion(status)
    /\ \A v \in ToRead : PacedVersion(v)

-----------------------------------------------------------------------------
\* What can happen to the cache and to the versions on their way: a write adds the
\* version written, a delivery only takes one away.
LEMMA WatchWrite ==
    ASSUME WatchInv, CacheAfterWrite
    PROVE  WatchInv' /\ \A v \in ToRead' : v \in ToRead \/ v = status'
<1>0. PICK S : coming \in Seq(S)
  BY DEF WatchInv
<1>1. CASE coming = <<>> /\ cache' = status' /\ coming' = <<>>
  <2>1. coming' \in Seq(S) /\ Len(coming') = 0 /\ MaxBehind \in Nat
    BY <1>1, WindowAssumption
  <2> QED BY <1>1, <2>1 DEF WatchInv, ToRead
<1>2. CASE status' = status /\ UNCHANGED <<cache, coming>>
  BY <1>2 DEF WatchInv, ToRead
<1>3. CASE /\ status' # status /\ Len(coming) < MaxBehind
           /\ coming' = Append(coming, status')
           /\ cache' = cache
  <2>1. coming \in Seq(S \cup {status'})
    BY <1>0
  <2>2. /\ coming' \in Seq(S \cup {status'}) /\ Len(coming') = Len(coming) + 1
        /\ coming'[Len(coming')] = status' /\ Len(coming) \in Nat
        /\ \A i \in 1 .. Len(coming) : coming'[i] = coming[i]
    BY <1>3, <2>1
  <2>3. WatchInv'
    <3>1. coming' # <<>> /\ Len(coming') <= MaxBehind
      BY <1>3, <2>2, WindowAssumption
    <3> QED BY <2>2, <3>1 DEF WatchInv
  <2>4. ASSUME NEW i \in 1 .. Len(coming') PROVE coming'[i] \in ToRead \/ coming'[i] = status'
    <3>1. i \in 1 .. Len(coming) \/ i = Len(coming')
      BY <2>2, <2>4
    <3> QED BY <2>2, <3>1 DEF ToRead
  <2> QED BY <1>3, <2>3, <2>4 DEF ToRead
<1> QED BY <1>1, <1>2, <1>3 DEF CacheAfterWrite

LEMMA WatchDelivery ==
    ASSUME WatchInv, InformerSync
    PROVE  WatchInv' /\ ToRead' \subseteq ToRead
<1>0. PICK S : coming \in Seq(S)
  BY DEF WatchInv
<1>1. /\ coming # <<>> /\ cache' = Head(coming) /\ coming' = Tail(coming)
      /\ status' = status
  BY DEF InformerSync
<1>2. /\ Len(coming) \in Nat \ {0} /\ cache' = coming[1]
      /\ coming' \in Seq(S) /\ Len(coming') = Len(coming) - 1
      /\ \A i \in 1 .. Len(coming') : coming'[i] = coming[i + 1]
  BY <1>0, <1>1
<1>3. WatchInv'
  <2>1. Len(coming') <= MaxBehind
    BY <1>2, WindowAssumption DEF WatchInv
  <2>2. CASE coming' = <<>>
    <3>1. Len(coming) = 1
      BY <1>2, <2>2
    <3> QED BY <1>0, <1>1, <1>2, <2>1, <2>2, <3>1 DEF WatchInv
  <2>3. CASE coming' # <<>>
    <3>1. Len(coming') \in 1 .. Len(coming')
      BY <1>2, <2>3
    <3>2. coming'[Len(coming')] = coming[Len(coming)]
      BY <1>2, <3>1
    <3> QED BY <1>1, <1>2, <2>1, <2>3, <3>2 DEF WatchInv
  <2> QED BY <2>2, <2>3
<1>4. ToRead' \subseteq ToRead
  <2>1. \A i \in 1 .. Len(coming') : i + 1 \in 1 .. Len(coming)
    BY <1>2
  <2>2. 1 \in 1 .. Len(coming)
    BY <1>2
  <2> QED BY <1>2, <2>1, <2>2 DEF ToRead
<1> QED BY <1>3, <1>4

\* Without lag a write is read by the next reconcile.
LEMMA WatchKeepsUp ==
    ASSUME WatchInv, MaxBehind = 0
    PROVE  coming = <<>> /\ cache = status /\ (CacheAfterWrite => cache' = status')
<1>1. PICK S : coming \in Seq(S)
  BY DEF WatchInv
<1>2. coming = <<>> /\ Len(coming) = 0
  BY <1>1 DEF WatchInv
<1> QED BY <1>2 DEF WatchInv, CacheAfterWrite

-----------------------------------------------------------------------------
\* runParkedHardRefreshAction keeps a record paced, and either leaves attempts,
\* time and history alone or changes all three.
LEMMA RefreshStep ==
    ASSUME now \in Nat, NEW x \in Refreshes, Paced(x)
    PROVE  LET y == runParkedHardRefreshAction(x)
           IN  /\ y \in Refreshes /\ Paced(y)
               /\ \/ /\ y.attempts = x.attempts /\ y.lastAttemptAt = x.lastAttemptAt
                     /\ y.history = x.history
                  \/ /\ y.attempts # x.attempts /\ y.lastAttemptAt # x.lastAttemptAt
                     /\ y.history # x.history
<1> DEFINE y == runParkedHardRefreshAction(x)
<1> USE WindowAssumption
<1>a. x.attempts \in Nat /\ x.history \in Seq(Nat) /\ MaxAttempts \in Nat
  BY DEF Refreshes
<1>b. x.attempts < MaxAttempts => ~(x.attempts >= MaxAttempts)
  BY <1>a
<1>1. CASE x.attempts >= MaxAttempts
  <2>1. y = [x EXCEPT !.result = "ExhaustedRetries"]
    BY <1>1 DEF runParkedHardRefreshAction
  <2>2. y \in Refreshes
    BY <2>1 DEF Refreshes
  <2>3. /\ y.attempts = x.attempts /\ y.lastAttemptAt = x.lastAttemptAt
        /\ y.history = x.history
    BY <2>1 DEF Refreshes
  <2> QED BY <2>2, <2>3 DEF Paced
<1>2. CASE x.attempts < MaxAttempts /\ x.lastAttemptAt # NoTime /\ now - x.lastAttemptAt < WaitBetween
  <2>1. y = x
    BY <1>2, <1>b, Zenon DEF runParkedHardRefreshAction
  <2> QED BY <2>1
<1>3. CASE x.attempts < MaxAttempts /\ ~(x.lastAttemptAt # NoTime /\ now - x.lastAttemptAt < WaitBetween)
  <2> DEFINE h == Append(x.history, now)
  <2>1. y = [ attempts |-> x.attempts + 1, lastAttemptAt |-> now, history |-> h, result |-> "Parked" ]
    BY <1>3, <1>b, Zenon DEF runParkedHardRefreshAction
  <2>2. /\ h \in Seq(Nat) /\ Len(h) = Len(x.history) + 1
        /\ h[Len(h)] = now
        /\ \A i \in 1 .. Len(x.history) : h[i] = x.history[i]
    BY <1>a
  <2>3. y \in Refreshes
    <3> HIDE DEF h, y
    <3>1. x.attempts + 1 \in Nat /\ now \in Times
      BY <1>a DEF Times
    <3> QED BY <2>1, <2>2, <3>1 DEF Refreshes
  <2>4. x.attempts \in Nat /\ x.attempts = Len(x.history) /\ Len(x.history) \in Nat
    BY <1>a DEF Paced
  <2>5. ASSUME NEW i \in 1 .. Len(h) - 1
        PROVE  h[i + 1] - h[i] >= WaitBetween
    <3>1. CASE i < Len(x.history)
      BY <3>1, <2>2, <2>4 DEF Paced
    <3>2. CASE i = Len(x.history)
      <4>1. x.lastAttemptAt = x.history[i] /\ x.history[i] \in Nat
        BY <3>2, <2>4, <2>5, <1>a DEF Paced
      <4>2. now - x.history[i] >= WaitBetween
        BY <4>1, <1>3 DEF NoTime
      <4> QED BY <4>2, <3>2, <2>2, <2>4
    <3> QED BY <3>1, <3>2, <2>2, <2>4
  <2>6. Paced(y)
    BY <2>1, <2>2, <2>4, <2>5, <1>3 DEF Paced
  <2>7. y.attempts # x.attempts
    BY <2>1, <2>4
  <2>8. y.history # x.history
    BY <2>1, <2>2, <2>4
  <2>9. y.lastAttemptAt # x.lastAttemptAt
    BY <2>1, <1>3 DEF NoTime
  <2> QED BY <2>3, <2>6, <2>7, <2>8, <2>9
<1>4. x.attempts >= MaxAttempts \/ x.attempts < MaxAttempts
  BY <1>a
<1> QED BY <1>1, <1>2, <1>3, <1>4

\* A patch computed from an old paced record, applied to the current one, leaves
\* a paced record.
LEMMA MergeStep ==
    ASSUME NEW old \in Refreshes, NEW new \in Refreshes, NEW current \in Refreshes,
           Paced(new), Paced(current),
           \/ /\ new.attempts = old.attempts /\ new.lastAttemptAt = old.lastAttemptAt
              /\ new.history = old.history
           \/ /\ new.attempts # old.attempts /\ new.lastAttemptAt # old.lastAttemptAt
              /\ new.history # old.history
    PROVE  MergeAction(new, old, current) \in Refreshes /\ Paced(MergeAction(new, old, current))
<1> DEFINE m == MergeAction(new, old, current)
<1>1. m.result \in {"", "Parked", "ExhaustedRetries"}
  BY DEF MergeAction, Pick, Refreshes
<1>2. CASE /\ new.attempts = old.attempts /\ new.lastAttemptAt = old.lastAttemptAt
           /\ new.history = old.history
  <2>1. /\ m.attempts = current.attempts /\ m.lastAttemptAt = current.lastAttemptAt
        /\ m.history = current.history
    BY <1>2 DEF MergeAction, Pick
  <2>2. Paced(m)
    BY <2>1 DEF Paced
  <2>3. m \in Refreshes
    BY <2>1, <1>1 DEF Refreshes, MergeAction
  <2> QED BY <2>2, <2>3
<1>3. CASE /\ new.attempts # old.attempts /\ new.lastAttemptAt # old.lastAttemptAt
           /\ new.history # old.history
  <2>1. /\ m.attempts = new.attempts /\ m.lastAttemptAt = new.lastAttemptAt
        /\ m.history = new.history
    BY <1>3 DEF MergeAction, Pick
  <2>2. Paced(m)
    BY <2>1 DEF Paced
  <2>3. m \in Refreshes
    BY <2>1, <1>1 DEF Refreshes, MergeAction
  <2> QED BY <2>2, <2>3
<1> QED BY <1>2, <1>3

\* The same for the whole status.
LEMMA MergeVersion ==
    ASSUME NEW new, PacedInv,
           \A k \in Apps \X Clusters :
              \/ new.actions[k] = cache.actions[k]
              \/ new.actions[k] = runParkedHardRefreshAction(cache.actions[k])
    PROVE  PacedVersion(MergeFrom(new, cache, status))
<1> DEFINE m == MergeFrom(new, cache, status)
<1>1. DOMAIN m = Fields
  BY DEF MergeFrom, Fields
<1>2. m.actions = [k \in Apps \X Clusters |->
                     MergeAction(new.actions[k], cache.actions[k], status.actions[k])]
  BY DEF MergeFrom
<1>0. PacedVersion(cache) /\ PacedVersion(status)
  BY DEF PacedInv, ToRead
<1>3. ASSUME NEW k \in Apps \X Clusters
      PROVE  /\ MergeAction(new.actions[k], cache.actions[k], status.actions[k]) \in Refreshes
             /\ Paced(MergeAction(new.actions[k], cache.actions[k], status.actions[k]))
  <2>1. /\ cache.actions[k] \in Refreshes /\ Paced(cache.actions[k])
        /\ status.actions[k] \in Refreshes /\ Paced(status.actions[k])
    BY <1>0 DEF PacedVersion
  <2>2. CASE new.actions[k] = cache.actions[k]
    BY <2>1, <2>2, MergeStep
  <2>3. CASE new.actions[k] = runParkedHardRefreshAction(cache.actions[k])
    <3>1. now \in Nat
      BY DEF PacedInv
    <3> HIDE DEF m
    <3> QED BY <2>1, <2>3, <3>1, RefreshStep, MergeStep
  <2> QED BY <2>2, <2>3
<1> QED BY <1>1, <1>2, <1>3 DEF PacedVersion

-----------------------------------------------------------------------------
LEMMA PacedInit == Init => PacedInv
<1> SUFFICES ASSUME Init PROVE PacedInv
  OBVIOUS
<1> USE WindowAssumption
<1>1. now \in Nat /\ status = InitialStatus /\ cache = InitialStatus /\ coming = <<>>
  BY DEF Init
<1>2. NoAction \in Refreshes /\ Paced(NoAction)
  BY DEF NoAction, Refreshes, Times, NoTime, Paced
<1>3. PacedVersion(InitialStatus)
  BY <1>2 DEF PacedVersion, InitialStatus, Fields
<1>4. WatchInv /\ ToRead = {cache}
  BY <1>1 DEF WatchInv, ToRead
<1> QED BY <1>1, <1>3, <1>4 DEF PacedInv

LEMMA PacedCache ==
    ASSUME PacedInv, PacedVersion(status'), now' = now, CacheAfterWrite
    PROVE  PacedInv'
<1>1. WatchInv' /\ \A v \in ToRead' : v \in ToRead \/ v = status'
  BY WatchWrite DEF PacedInv
<1>2. \A v \in ToRead' : PacedVersion(v)
  BY <1>1 DEF PacedInv
<1> QED BY <1>1, <1>2 DEF PacedInv, PacedVersion

LEMMA PacedScheduled ==
    ASSUME PacedInv, NEW patched \in BOOLEAN, ReconcileScheduled(patched)
    PROVE  PacedInv'
<1> DEFINE new == [cache EXCEPT !.phase = "Scheduled", !.overall = "Pending"]
<1>1. /\ status' = IF patched THEN MergeFrom(new, cache, status) ELSE status
      /\ CacheAfterWrite /\ now' = now
  BY DEF ReconcileScheduled
<1>2. new.actions = cache.actions
  BY DEF PacedInv, PacedVersion, Fields, ToRead
<1>3. PacedVersion(MergeFrom(new, cache, status))
  <2> HIDE DEF new
  <2> QED BY <1>2, MergeVersion
<1>4. PacedVersion(status')
  <2> HIDE DEF new
  <2> QED BY <1>1, <1>3 DEF PacedInv
<1> QED BY <1>1, <1>4, PacedCache

LEMMA PacedReconcile ==
    ASSUME PacedInv, NEW order, NEW delivery, NEW patched \in BOOLEAN,
           Reconcile(order, delivery, patched)
    PROVE  PacedInv'
<1>1. CacheAfterWrite /\ now' = now
  BY DEF Reconcile
<1>2. PICK appStates, silent, validation, decision, reported :
        status' = IF patched
                  THEN MergeFrom(NewStatus(cache, order, appStates, silent, validation,
                                           decision, reported), cache, status)
                  ELSE status
  BY DEF Reconcile
<1> DEFINE new == NewStatus(cache, order, appStates, silent, validation, decision, reported)
<1>3. ASSUME NEW k \in Apps \X Clusters
      PROVE  \/ new.actions[k] = cache.actions[k]
             \/ new.actions[k] = runParkedHardRefreshAction(cache.actions[k])
  BY DEF NewStatus, RunActions
<1>4. PacedVersion(MergeFrom(new, cache, status))
  <2> HIDE DEF new
  <2> QED BY <1>3, MergeVersion
<1>5. PacedVersion(status')
  BY <1>2, <1>4 DEF PacedInv
<1> QED BY <1>1, <1>5, PacedCache

LEMMA PacedStep == PacedInv /\ [Next]_vars => PacedInv'
<1> SUFFICES ASSUME PacedInv, [Next]_vars PROVE PacedInv'
  OBVIOUS
<1>1. CASE Tick \/ Environment \/ UNCHANGED vars
  <2>1. now' \in Nat /\ UNCHANGED <<status, cache, coming>>
    BY <1>1 DEF Tick, Environment, CreatePS, DeletePS, UpdatePS, vars, PacedInv
  <2>2. WatchInv' /\ ToRead' = ToRead
    BY <2>1, Zenon DEF PacedInv, WatchInv, ToRead
  <2> QED BY <2>1, <2>2 DEF PacedInv, PacedVersion
<1>2. CASE ReconcileAny
  BY <1>2, PacedScheduled, PacedReconcile DEF ReconcileAny
<1>3. CASE InformerSync
  <2>1. now' = now /\ status' = status
    BY <1>3 DEF InformerSync
  <2>2. WatchInv' /\ ToRead' \subseteq ToRead
    BY <1>3, WatchDelivery DEF PacedInv
  <2> QED BY <2>1, <2>2 DEF PacedInv, PacedVersion
<1> QED BY <1>1, <1>2, <1>3 DEF Next

\* runParkedHardRefreshAction: for every retry budget and waiting time, no lost
\* patch, restart or old cached version makes a hard-refresh record exceed its
\* budget or record two attempts too close to each other.
THEOREM HardRefreshAlwaysPaced == Spec => []HardRefreshPaced
<1>1. PacedInv => HardRefreshPaced
  BY DEF PacedInv, PacedVersion, HardRefreshPaced
<1> QED BY <1>1, PacedInit, PacedStep, PTL DEF Spec

-----------------------------------------------------------------------------
(* Types.  The records of the hard refresh are typed by PacedInv; the rest  *)
(* of a version of the status is Typed.                                     *)

Typed(s) ==
    /\ s.phase \in Phases
    /\ s.overall \in {"", "Pending", "InProgress", "Good", "Degraded"}
    /\ s.validation.passed \in BOOLEAN
    /\ s.stabilizationStartedAt \in Times
    /\ s.lastReportedAt \in Times
    /\ s.baseline.capturedAt \in Times
    /\ s.signedReport.timestamp \in Times
    /\ s.signedReport.overallResult \in {"", "Succeeded", "TimedOut"}
    /\ s.timeline \in Seq(Phases)

\* The window's end and the stabilization period give every decision a phase, an
\* overall state and a clock.
LEMMA DecideTyped ==
    ASSUME now \in Nat, NEW previous, NEW passed \in BOOLEAN, NEW startedAt \in Times
    PROVE  LET d == Decide(previous, passed, startedAt)
           IN  /\ d.phase \in Phases
               /\ d.overall \in {"InProgress", "Good", "Degraded"}
               /\ d.startedAt \in Times
BY Zenon DEF Decide, Phases, Times

\* The capped timeline stays a sequence of phases.
LEMMA RecordTyped ==
    ASSUME NEW t \in Seq(Phases), NEW p \in Phases
    PROVE  RecordTransition(t, p) \in Seq(Phases)
<1> DEFINE l == Append(t, p)
<1>1. l \in Seq(Phases) /\ Len(l) \in Nat /\ TimelineCap \in Nat \ {0}
  BY WindowAssumption
<1>2. CASE Len(l) > TimelineCap
  <2>1. Len(l) - TimelineCap + 1 \in 1 .. Len(l) + 1
    BY <1>1, <1>2
  <2> HIDE DEF l
  <2>2. SubSeq(l, Len(l) - TimelineCap + 1, Len(l)) \in Seq(Phases)
    BY <1>1, <2>1
  <2> QED BY <1>2, <2>2, Zenon DEF RecordTransition, l
<1>3. CASE ~(Len(l) > TimelineCap)
  BY <1>1, <1>3, Zenon DEF RecordTransition
<1> QED BY <1>2, <1>3

\* A patch made of typed fields leaves typed fields.
LEMMA MergeTyped ==
    ASSUME NEW new, NEW old, NEW current, Typed(new), Typed(current)
    PROVE  Typed(MergeFrom(new, old, current))
BY DEF Typed, MergeFrom, MergeBaseline, MergeSigned, Pick

\* What a reconcile computes is typed when what it read is.
LEMMA NewTyped ==
    ASSUME now \in Nat, Typed(cache), NEW order, NEW appStates, NEW silent,
           NEW validation, validation.passed \in BOOLEAN, NEW reported,
           NEW d, d.phase \in Phases, d.overall \in {"InProgress", "Good", "Degraded"},
           d.startedAt \in Times
    PROVE  Typed(NewStatus(cache, order, appStates, silent, validation, d, reported))
<1> DEFINE n == NewStatus(cache, order, appStates, silent, validation, d, reported)
<1>2. n.phase = d.phase /\ n.overall = d.overall /\ n.stabilizationStartedAt = d.startedAt
  BY DEF NewStatus
<1>3. n.validation.passed \in BOOLEAN
  BY DEF NewStatus
<1>4. n.lastReportedAt \in Times
  BY DEF NewStatus, ReportedAt, Typed, Times
<1>5. n.baseline.capturedAt \in Times
  <2>1. n.baseline = IF cache.baseline = NoBaseline THEN captureBaseline(appStates, order)
                                                    ELSE cache.baseline
    BY DEF NewStatus, BaselineOnce
  <2>2. captureBaseline(appStates, order).capturedAt = now
    BY DEF captureBaseline
  <2> QED BY <2>1, <2>2 DEF Typed, Times
<1>6. /\ n.signedReport.timestamp \in Times
      /\ n.signedReport.overallResult \in {"", "Succeeded", "TimedOut"}
  BY DEF NewStatus, GenerateSignedReport, Typed, Times
<1>7. n.timeline \in Seq(Phases)
  BY RecordTyped DEF NewStatus, Typed
<1> QED BY <1>2, <1>3, <1>4, <1>5, <1>6, <1>7 DEF Typed

\* The inductive invariant behind TypeOK.
TypeInv ==
    /\ PacedInv
    /\ Typed(status) /\ \A v \in ToRead : Typed(v)
    /\ published.phase \in Phases /\ published.passed \in BOOLEAN
    /\ evaluated.at \in Times /\ evaluated.failedAt \in Times

LEMMA TypeInit == Init => TypeInv
<1> SUFFICES ASSUME Init PROVE TypeInv
  OBVIOUS
<1>1. PacedInv
  BY PacedInit
<1>2. Typed(InitialStatus)
  <2>1. InitialStatus.timeline \in Seq(Phases) /\ InitialStatus.phase \in Phases
    BY DEF InitialStatus, Phases
  <2> QED BY <2>1 DEF Typed, InitialStatus, NoValidation, NoBaseline, NoSignedReport, Times
<1>3. ToRead = {InitialStatus}
  BY DEF Init, ToRead
<1> QED BY <1>1, <1>2, <1>3 DEF TypeInv, Init, NoReport, Phases, Times, NoTime

LEMMA TypeCache ==
    ASSUME TypeInv, Typed(status'), CacheAfterWrite
    PROVE  \A v \in ToRead' : Typed(v)
<1>1. \A v \in ToRead' : v \in ToRead \/ v = status'
  BY WatchWrite DEF TypeInv, PacedInv
<1> QED BY <1>1 DEF TypeInv

LEMMA TypeScheduled ==
    ASSUME TypeInv, NEW patched \in BOOLEAN, ReconcileScheduled(patched)
    PROVE  /\ Typed(status') /\ \A v \in ToRead' : Typed(v)
           /\ UNCHANGED <<published, evaluated>>
<1> DEFINE new == [cache EXCEPT !.phase = "Scheduled", !.overall = "Pending"]
<1>1. /\ status' = IF patched THEN MergeFrom(new, cache, status) ELSE status
      /\ CacheAfterWrite /\ UNCHANGED <<published, evaluated>>
  BY DEF ReconcileScheduled
<1>2. Typed(new)
  <2>1. Typed(cache) /\ DOMAIN cache = Fields
    BY DEF TypeInv, PacedInv, PacedVersion, ToRead
  <2> QED BY <2>1 DEF Fields, Typed, Phases
<1> HIDE DEF new
<1>3. Typed(status')
  BY <1>1, <1>2, MergeTyped DEF TypeInv
<1> QED BY <1>1, <1>3, TypeCache

LEMMA TypeReconcile ==
    ASSUME TypeInv, NEW order, NEW delivery, NEW patched \in BOOLEAN,
           Reconcile(order, delivery, patched)
    PROVE  /\ Typed(status') /\ \A v \in ToRead' : Typed(v)
           /\ published'.phase \in Phases /\ published'.passed \in BOOLEAN
           /\ evaluated'.at \in Times /\ evaluated'.failedAt \in Times
<1>1. now \in Nat /\ Typed(cache) /\ Typed(status)
  BY DEF TypeInv, PacedInv, ToRead
<1> DEFINE appStates == FetchAppStates(cache)
           silent     == SilentClusters(appStates, now)
           validation == evaluateGates(appStates, order, silent)
           decision   == Decide(PreviousPhase(cache), validation.passed, cache.stabilizationStartedAt)
           due        == ReportDue(PreviousPhase(cache), decision.phase, cache.validation,
                                   validation, cache.lastReportedAt)
           new        == NewStatus(cache, order, appStates, silent, validation, decision,
                                   due /\ delivery = "acked")
<1>2. /\ published' = IF due /\ delivery # "failed"
                      THEN [phase |-> new.phase, passed |-> validation.passed] ELSE published
      /\ status' = IF patched THEN MergeFrom(new, cache, status) ELSE status
      /\ evaluated' = IF ~patched THEN evaluated
                      ELSE [ at |-> now,
                             failedAt |-> IF validation.passed THEN evaluated.failedAt ELSE now ]
  BY DEF Reconcile
<1>3. validation.passed \in BOOLEAN
  BY DEF evaluateGates
<1>4. Typed(new)
  <2>1. /\ decision.phase \in Phases /\ decision.overall \in {"InProgress", "Good", "Degraded"}
        /\ decision.startedAt \in Times
    <3> HIDE DEF validation
    <3> QED BY <1>1, <1>3, DecideTyped DEF Typed
  <2> HIDE DEF appStates, silent, validation, decision, due
  <2> QED BY <1>1, <1>3, <2>1, NewTyped
<1> HIDE DEF appStates, silent, validation, decision, due, new
<1>5. Typed(status')
  BY <1>1, <1>2, <1>4, MergeTyped
<1>6. \A v \in ToRead' : Typed(v)
  BY <1>5, TypeCache DEF Reconcile
<1>7. published'.phase \in Phases /\ published'.passed \in BOOLEAN
  BY <1>2, <1>3, <1>4 DEF Typed, TypeInv
<1>8. evaluated'.at \in Times /\ evaluated'.failedAt \in Times
  BY <1>1, <1>2 DEF TypeInv, Times
<1> QED BY <1>5, <1>6, <1>7, <1>8

LEMMA TypeStep == TypeInv /\ [Next]_vars => TypeInv'
<1> SUFFICES ASSUME TypeInv, [Next]_vars PROVE TypeInv'
  OBVIOUS
<1>0. PacedInv'
  BY PacedStep DEF TypeInv
<1>1. CASE Tick \/ Environment \/ UNCHANGED vars
  <2>1. UNCHANGED <<status, cache, coming, published, evaluated>>
    BY <1>1 DEF Tick, Environment, CreatePS, DeletePS, UpdatePS, vars
  <2>2. ToRead' = ToRead
    BY <2>1 DEF ToRead
  <2> QED BY <1>0, <2>1, <2>2, Zenon DEF TypeInv
<1>2. CASE ReconcileAny
  <2>1. CASE \E patched \in BOOLEAN : ReconcileScheduled(patched)
    <3>1. /\ Typed(status') /\ \A v \in ToRead' : Typed(v)
          /\ UNCHANGED <<published, evaluated>>
      BY <2>1, TypeScheduled
    <3> QED BY <1>0, <3>1 DEF TypeInv, Typed
  <2>2. CASE \E order \in Orders, delivery \in Deliveries, patched \in BOOLEAN :
                Reconcile(order, delivery, patched)
    <3>1. /\ Typed(status') /\ \A v \in ToRead' : Typed(v)
          /\ published'.phase \in Phases /\ published'.passed \in BOOLEAN
          /\ evaluated'.at \in Times /\ evaluated'.failedAt \in Times
      BY <2>2, TypeReconcile
    <3> QED BY <1>0, <3>1 DEF TypeInv, Typed
  <2> QED BY <1>2, <2>1, <2>2 DEF ReconcileAny
<1>3. CASE InformerSync
  <2>1. UNCHANGED <<status, published, evaluated>>
    BY <1>3 DEF InformerSync
  <2>2. ToRead' \subseteq ToRead
    BY <1>3, WatchDelivery DEF TypeInv, PacedInv
  <2> QED BY <1>0, <2>1, <2>2 DEF TypeInv, Typed
<1> QED BY <1>1, <1>2, <1>3 DEF Next

\* Every version of the status that reconciles, patches against old versions and
\* the watch can produce has its types.
THEOREM WindowTyped == Spec => []TypeOK
<1>1. ASSUME NEW v, PacedVersion(v), Typed(v) PROVE StatusOK(v)
  BY <1>1 DEF PacedVersion, Typed, StatusOK
<1>2. TypeInv => TypeOK
  BY <1>1 DEF TypeInv, PacedInv, WatchInv, ToRead, TypeOK
<1> QED BY <1>2, TypeInit, TypeStep, PTL DEF Spec

-----------------------------------------------------------------------------
(* The stabilization period, with a cache that does not lag.               *)

\* The inductive invariant: what a reconcile reads is what is stored, the history
\* is not in the future, and a running clock started after the last failure in
\* every phase, not only in the ones StabilizationClean is about.
StabInv ==
    /\ MaxBehind = 0
    /\ cache = status
    /\ evaluated.at <= now /\ evaluated.failedAt <= now
    /\ status.stabilizationStartedAt # NoTime => evaluated.failedAt <= status.stabilizationStartedAt
    /\ StabilizationClean

\* The phase decision: a clock it leaves running started no sooner than the last
\* failure f, and success comes one whole period after the start.
LEMMA DecideClean ==
    ASSUME now \in Nat, NEW previous, NEW passed \in BOOLEAN, NEW startedAt \in Times,
           NEW failedAt \in Times, failedAt <= now,
           startedAt # NoTime => failedAt <= startedAt,
           NEW d, d = Decide(previous, passed, startedAt),
           NEW f, f = IF passed THEN failedAt ELSE now
    PROVE  /\ d.startedAt # NoTime => f <= d.startedAt
           /\ StabilizationPeriod > 0 =>
                 /\ d.phase \in {"PlatformRecovering", "Succeeded"} => d.startedAt # NoTime
                 /\ d.phase = "Succeeded" => now >= d.startedAt + StabilizationPeriod
<1> DEFINE clock == IF StabilizationPeriod > 0 /\ startedAt = NoTime THEN now ELSE startedAt
<1>1. StabilizationPeriod \in Nat /\ now # NoTime
  BY WindowAssumption DEF NoTime
<1>2. CASE passed = TRUE
  <2>1. /\ d.startedAt = clock
        /\ d.phase = IF StabilizationPeriod > 0 /\ now < clock + StabilizationPeriod
                     THEN "PlatformRecovering" ELSE "Succeeded"
    BY <1>2 DEF Decide
  <2>2. clock \in Int /\ (clock # NoTime => failedAt <= clock)
    BY <1>1 DEF Times, NoTime
  <2>3. StabilizationPeriod > 0 => clock # NoTime
    BY <1>1
  <2>4. f = failedAt
    BY <1>2
  <2> HIDE DEF clock
  <2> QED BY <1>1, <2>1, <2>2, <2>3, <2>4
<1>3. CASE passed = FALSE
  <2>1. d.startedAt = NoTime /\ d.phase \in {"TimedOut", "WaitingForChange", "Executing"}
    BY <1>3 DEF Decide
  <2> QED BY <2>1
<1> QED BY <1>2, <1>3

LEMMA StabInit == MaxBehind = 0 /\ Init => StabInv
<1> SUFFICES ASSUME MaxBehind = 0, Init PROVE StabInv
  OBVIOUS
<1>1. /\ status = InitialStatus /\ cache = InitialStatus /\ now = 0
      /\ evaluated = [at |-> NoTime, failedAt |-> NoTime]
  BY DEF Init
<1>2. InitialStatus.phase = "" /\ InitialStatus.stabilizationStartedAt = NoTime
  BY DEF InitialStatus
<1>3. evaluated.at = NoTime /\ evaluated.failedAt = NoTime /\ NoTime <= now
  BY <1>1 DEF NoTime
<1> QED BY <1>1, <1>2, <1>3 DEF StabInv, StabilizationClean

LEMMA StabScheduled ==
    ASSUME TypeInv, StabInv, NEW patched \in BOOLEAN, ReconcileScheduled(patched)
    PROVE  StabInv'
<1> DEFINE new == [cache EXCEPT !.phase = "Scheduled", !.overall = "Pending"]
<1>1. /\ status' = IF patched THEN MergeFrom(new, cache, status) ELSE status
      /\ CacheAfterWrite /\ UNCHANGED <<now, evaluated>>
  BY DEF ReconcileScheduled
<1>2. cache' = status'
  BY <1>1, WatchKeepsUp DEF TypeInv, PacedInv, StabInv
<1>3. new.phase = "Scheduled" /\ new.stabilizationStartedAt = cache.stabilizationStartedAt
  BY DEF TypeInv, PacedInv, PacedVersion, Fields, ToRead
<1> HIDE DEF new
<1>4. CASE patched = TRUE
  <2>1. /\ status'.phase = "Scheduled"
        /\ status'.stabilizationStartedAt = status.stabilizationStartedAt
    BY <1>1, <1>3, <1>4 DEF MergeFrom, Pick, StabInv
  <2> QED BY <1>1, <1>2, <2>1 DEF StabInv, StabilizationClean
<1>5. CASE patched = FALSE
  <2>1. status' = status
    BY <1>1, <1>5
  <2> QED BY <1>1, <1>2, <2>1 DEF StabInv, StabilizationClean
<1> QED BY <1>4, <1>5

LEMMA StabReconcile ==
    ASSUME TypeInv, StabInv, NEW order, NEW delivery, NEW patched \in BOOLEAN,
           Reconcile(order, delivery, patched)
    PROVE  StabInv'
<1>1. /\ now \in Nat /\ now' = now /\ status.stabilizationStartedAt \in Times
      /\ evaluated.failedAt \in Times
  BY DEF TypeInv, PacedInv, Typed, Reconcile
<1>2. cache' = status' /\ cache = status
  BY WatchKeepsUp DEF Reconcile, TypeInv, PacedInv, StabInv
<1> DEFINE appStates == FetchAppStates(cache)
           silent     == SilentClusters(appStates, now)
           validation == evaluateGates(appStates, order, silent)
           decision   == Decide(PreviousPhase(cache), validation.passed, cache.stabilizationStartedAt)
           due        == ReportDue(PreviousPhase(cache), decision.phase, cache.validation,
                                   validation, cache.lastReportedAt)
           new        == NewStatus(cache, order, appStates, silent, validation, decision,
                                   due /\ delivery = "acked")
           failedAt   == IF validation.passed THEN evaluated.failedAt ELSE now
<1>3. /\ status' = IF patched THEN MergeFrom(new, cache, status) ELSE status
      /\ evaluated' = IF ~patched THEN evaluated ELSE [at |-> now, failedAt |-> failedAt]
  BY DEF Reconcile
<1>4. validation.passed \in BOOLEAN
  BY DEF evaluateGates
<1>5. new.phase = decision.phase /\ new.stabilizationStartedAt = decision.startedAt
  BY DEF NewStatus
<1>6. /\ decision.startedAt # NoTime => failedAt <= decision.startedAt
      /\ StabilizationPeriod > 0 =>
            /\ decision.phase \in {"PlatformRecovering", "Succeeded"} => decision.startedAt # NoTime
            /\ decision.phase = "Succeeded" => now >= decision.startedAt + StabilizationPeriod
  <2> HIDE DEF validation
  <2> QED BY <1>1, <1>2, <1>4, DecideClean DEF StabInv
<1> HIDE DEF validation, decision, new
<1>7. failedAt <= now
  BY <1>1 DEF StabInv
<1> HIDE DEF failedAt
<1>8. CASE patched = TRUE
  <2>1. /\ status'.phase = decision.phase
        /\ status'.stabilizationStartedAt = decision.startedAt
    BY <1>2, <1>3, <1>5, <1>8 DEF MergeFrom, Pick
  <2>2. evaluated'.at = now /\ evaluated'.failedAt = failedAt
    BY <1>3, <1>8
  <2> QED BY <1>1, <1>2, <1>6, <1>7, <2>1, <2>2 DEF StabInv, StabilizationClean
<1>9. CASE patched = FALSE
  <2>1. status' = status /\ evaluated' = evaluated
    BY <1>3, <1>9
  <2> QED BY <1>1, <1>2, <2>1 DEF StabInv, StabilizationClean
<1> QED BY <1>8, <1>9

LEMMA StabStep == TypeInv /\ StabInv /\ [Next]_vars => StabInv'
<1> SUFFICES ASSUME TypeInv, StabInv, [Next]_vars PROVE StabInv'
  OBVIOUS
<1>1. CASE Tick
  <2>1. now' = now + 1 /\ UNCHANGED <<status, cache, evaluated>>
    BY <1>1 DEF Tick
  <2>2. now \in Nat /\ evaluated.at \in Times /\ evaluated.failedAt \in Times
    BY DEF TypeInv, PacedInv
  <2>3. evaluated.at <= now + 1 /\ evaluated.failedAt <= now + 1
    BY <2>2 DEF StabInv, Times, NoTime
  <2> QED BY <2>1, <2>3 DEF StabInv, StabilizationClean
<1>2. CASE Environment \/ UNCHANGED vars
  <2>1. UNCHANGED <<now, status, cache, evaluated>>
    BY <1>2 DEF Environment, CreatePS, DeletePS, UpdatePS, vars
  <2> QED BY <2>1 DEF StabInv, StabilizationClean
<1>3. CASE ReconcileAny
  BY <1>3, StabScheduled, StabReconcile DEF ReconcileAny
<1>4. CASE InformerSync
  BY <1>4, WatchKeepsUp DEF InformerSync, TypeInv, PacedInv, StabInv
<1> QED BY <1>1, <1>2, <1>3, <1>4 DEF Next

\* The stabilization window: whatever the period, the end of the window and the
\* reports, a window is Succeeded only a whole period after its clock started,
\* and no evaluation stored since then had failed, as long as every reconcile
\* reads the latest version.
THEOREM StabilizationAlwaysClean == MaxBehind = 0 /\ Spec => []StabilizationClean
<1>1. StabInv => StabilizationClean
  BY DEF StabInv
<1> QED BY <1>1, TypeInit, TypeStep, StabInit, StabStep, PTL DEF Spec

-----------------------------------------------------------------------------
(* The report clock, with a cache that may lag.                            *)

\* The inductive invariant: the versions that are read may be old, but no report
\* clock of theirs is ahead of the stored one, and that one is not in the future.
ReportInv ==
    /\ TypeInv
    /\ \A v \in ToRead : v.lastReportedAt <= status.lastReportedAt
    /\ status.lastReportedAt <= now

\* What a step may do to the stored report clock.
ClockStep ==
    /\ status'.lastReportedAt \in {status.lastReportedAt, now}
    /\ status'.lastReportedAt >= status.lastReportedAt

LEMMA ClockTyped ==
    ASSUME NEW s, Typed(s)
    PROVE  s.lastReportedAt \in Int
<1>1. s.lastReportedAt \in Times
  BY Zenon DEF Typed
<1> QED BY <1>1 DEF Times, NoTime

LEMMA ReportInit == Init => ReportInv
<1> SUFFICES ASSUME Init PROVE ReportInv
  OBVIOUS
<1>1. now = 0 /\ status = InitialStatus /\ cache = status /\ coming = <<>>
  BY DEF Init
<1>2. ToRead = {status}
  BY <1>1 DEF ToRead
<1>3. status.lastReportedAt = NoTime
  BY <1>1 DEF InitialStatus
<1> QED BY <1>1, <1>2, <1>3, TypeInit DEF ReportInv, NoTime

\* A patch that moves the clock moves it to the present, one that does not move
\* it leaves the stored clock alone, however old the version it was made from.
LEMMA ReportMerge ==
    ASSUME ReportInv, NEW new, new.lastReportedAt \in {cache.lastReportedAt, now},
           \/ status' = MergeFrom(new, cache, status)
           \/ status' = status
    PROVE  ClockStep
<1>1. /\ now \in Int /\ status.lastReportedAt \in Int /\ cache.lastReportedAt \in Int
      /\ cache.lastReportedAt <= status.lastReportedAt
  BY ClockTyped DEF ReportInv, TypeInv, PacedInv, ToRead
<1>2. status' = MergeFrom(new, cache, status) =>
         status'.lastReportedAt = IF new.lastReportedAt # cache.lastReportedAt
                                  THEN new.lastReportedAt ELSE status.lastReportedAt
  BY DEF MergeFrom, Pick
<1> QED BY <1>1, <1>2 DEF ReportInv, ClockStep

LEMMA ReportSteps == ReportInv /\ [Next]_vars => ClockStep
<1> SUFFICES ASSUME ReportInv, [Next]_vars PROVE ClockStep
  OBVIOUS
<1>0. status.lastReportedAt \in Int
  BY ClockTyped DEF ReportInv, TypeInv
<1>1. CASE status' = status
  BY <1>0, <1>1 DEF ClockStep
<1>2. ASSUME NEW patched \in BOOLEAN, ReconcileScheduled(patched) PROVE ClockStep
  <2> DEFINE new == [cache EXCEPT !.phase = "Scheduled", !.overall = "Pending"]
  <2>1. status' = IF patched THEN MergeFrom(new, cache, status) ELSE status
    BY <1>2 DEF ReconcileScheduled
  <2>2. new.lastReportedAt = cache.lastReportedAt
    BY DEF ReportInv, TypeInv, PacedInv, PacedVersion, Fields, ToRead
  <2> HIDE DEF new
  <2> QED BY <2>1, <2>2, ReportMerge
<1>3. ASSUME NEW order, NEW delivery, NEW patched \in BOOLEAN, Reconcile(order, delivery, patched)
      PROVE  ClockStep
  <2>1. PICK appStates, silent, validation, decision, reported :
          status' = IF patched
                    THEN MergeFrom(NewStatus(cache, order, appStates, silent, validation,
                                             decision, reported), cache, status)
                    ELSE status
    BY <1>3 DEF Reconcile
  <2> DEFINE new == NewStatus(cache, order, appStates, silent, validation, decision, reported)
  <2>2. new.lastReportedAt \in {cache.lastReportedAt, now}
    BY DEF NewStatus, ReportedAt
  <2> HIDE DEF new
  <2>3. status' = MergeFrom(new, cache, status) \/ status' = status
    BY <2>1 DEF new
  <2> QED BY <2>2, <2>3, ReportMerge
<1> QED BY <1>1, <1>2, <1>3
        DEF Next, ReconcileAny, Tick, Environment, CreatePS, UpdatePS, DeletePS, InformerSync, vars

LEMMA ReportStep == ReportInv /\ [Next]_vars => ReportInv'
<1> SUFFICES ASSUME ReportInv, [Next]_vars PROVE ReportInv'
  OBVIOUS
<1>1. TypeInv' /\ ClockStep
  BY TypeStep, ReportSteps DEF ReportInv
<1>2. /\ now \in Int /\ status.lastReportedAt \in Int /\ status'.lastReportedAt \in Int
      /\ \A v \in ToRead : v.lastReportedAt \in Int
  BY <1>1, ClockTyped DEF ReportInv, TypeInv, PacedInv
<1>3. \A v \in ToRead' : v \in ToRead \/ v = status'
  <2>1. CASE CacheAfterWrite
    BY <2>1, WatchWrite DEF ReportInv, TypeInv, PacedInv
  <2>2. CASE InformerSync
    BY <2>2, WatchDelivery DEF ReportInv, TypeInv, PacedInv
  <2>3. CASE UNCHANGED <<cache, coming>>
    BY <2>3 DEF ToRead
  <2> QED BY <2>1, <2>2, <2>3
          DEF Next, ReconcileAny, ReconcileScheduled, Reconcile, Tick, Environment,
              CreatePS, UpdatePS, DeletePS, vars
<1>4. now' = now \/ (now' = now + 1 /\ UNCHANGED status)
  BY DEF Next, ReconcileAny, ReconcileScheduled, Reconcile, Tick, Environment,
         CreatePS, UpdatePS, DeletePS, InformerSync, vars
<1>5. status'.lastReportedAt <= now'
  BY <1>1, <1>2, <1>4 DEF ReportInv, ClockStep
<1>6. \A v \in ToRead' : v.lastReportedAt <= status'.lastReportedAt
  BY <1>1, <1>2, <1>3 DEF ReportInv, ClockStep
<1> QED BY <1>1, <1>5, <1>6 DEF ReportInv

\* LastReportedAt: whatever old version a reconcile starts from and whatever patch
\* is lost, the stored report clock never goes back and moves only to the present.
THEOREM ReportClockAlwaysForward == Spec => ReportClockMonotone
<1> DEFINE Forward == /\ status'.lastReportedAt >= status.lastReportedAt
                      /\ status'.lastReportedAt # status.lastReportedAt => status'.lastReportedAt = now
<1>1. ReportInv /\ [Next]_vars => [Forward]_vars
  BY ReportSteps DEF ClockStep
<1> HIDE DEF Forward
<1>2. Spec => [][Forward]_vars
  BY <1>1, ReportInit, ReportStep, PTL DEF Spec
<1> QED BY <1>2 DEF ReportClockMonotone, Forward
=============================================================================
