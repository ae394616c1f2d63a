# A TLA+ model of the drift operator

The operator watches how a Git revision propagates to a fleet of clusters and judges
maintenance windows (CHGs) on what the clusters report. This directory holds TLA+ modules that
model its controllers, TLC configurations that check them on small instances, and proofs that
TLAPS checks for every value of the constants. `PROJECT.json` maps each definition to the
source lines it stands for.

## The system

| Component | State | Operations | Module |
|---|---|---|---|
| LocalAppWatch agent (`localwatch_controller.go`) | one `ClusterAppReport` per cluster and application | collect, read the platform, upsert the report | `LocalAppWatch` |
| Platform readers and analyses (`platform_validator.go`) | none | pure, over what is read | `PlatformAnalysis` |
| Typed dependency graph (`validator/graph.go`) | none | `EvaluateCausalChain` | `MaintenanceGraph` |
| PropagationStatus controller (`propagationstatus_controller.go`, `metrics.go`) | rows, four cluster lists, phase, condition, lag clock; gauges in memory | `Reconcile` | `PropagationStatus` |
| ChangeWindow controller (`changewindow_controller.go`) | phase, snapshot of rows, baseline, hard-refresh records, verdict, stabilization and report clocks, signed report, timeline | `Reconcile` | `ChangeWindow`, abstractly `WindowLifecycle` |
| Validation gates and silence (`evaluateGates`, `classifySilence`) | none | pure | `ValidationGates` |
| Signed report (`validator/evidence.go`) | none | `GenerateSignedReport` | in `ChangeWindow` |
| Kafka bridge, ingest (`kafka_bridge.go`) | offsets of the consumer group, the message in hand | fetch, create, commit | `KafkaBridge` |
| Kafka bridge, reports | none | `ProduceReport` | `Deliveries` in `ChangeWindow` |
| Cluster role detection | none | probes | outcome: constant `IsHub` |
| Process set-up (`controllers.go`) | mode (agent or aggregator) | registration | `SetupAllControllers` in `KafkaBridge`; the aggregator as a whole is `DriftSystem` |

How they interact: agents upsert reports; the PropagationStatus controller folds the reports of
one application into one object; the ChangeWindow controller copies the rows of the impacted
applications into its own status, evaluates the gates on the copy, decides the phase, sends a
report to Kafka and patches its status. The Kafka bridge reads CHG events and creates
ChangeWindows. All of it goes through the API server, so a controller never calls another; it
reads objects from an informer cache and writes with a merge patch.

What is hard about it:

* **Merge patches without a lock.** Both controllers patch `status` with `client.MergeFrom` of
  the version in the cache. A patch carries only what differs from that version, so a reconcile
  that starts from an old version may leave a mix of several evaluations.
* **Side effects before the patch.** The Kafka report, the Kubernetes event and the gauges go out
  first; the patch may fail, and then the reconcile is repeated.
* **Clocks in the status.** Lag, stabilization, report and retry clocks live in a status that a
  lost patch takes back.
* **Go maps.** The gates range over a map; gates that a later row overwrites, and the order of
  the issues, depend on the order of the visit.
* **At-least-once delivery.** Crash, rebalance or a failed commit delivers a CHG event again,
  perhaps to another operator.
* **Torn reads.** A report is dated first and read afterwards, in a dozen and more calls, while the platform
  changes. Each may fail alone, and what cannot be read looks like what is not there. Typed objects (events,
  pods, secrets...) come from informers that lag each by itself.
* **Pages.** Every List asks for 100 objects and no List for the next page.
* **Silence.** Nothing arrives from a cluster that is down; only periodic reconciles notice.

## Modules

| Module | Contents |
|---|---|
| `ValidationGates` | the eleven gates, the issues, the verdict and the silence classes, as functions of the rows and of the order of the visit |
| `ChangeWindow` | one window: state machine, properties |
| `WindowLifecycle` | what a window promises its reader; `ChangeWindow` implements it |
| `ChangeWindowProofs`, `WindowLifecycleProofs` | theorems on a window: with any cache; with a cache that keeps up |
| `PropagationStatus`, `PropagationStatusProofs` | one application over its target clusters |
| `DriftSystem`, `DriftSystemProofs` | the two controllers of the aggregator together |
| `PlatformAnalysis`, `PlatformAnalysisProofs` | readers, dependency graph, DAG, prediction, operator order, and what the gates see of a report; lemmas on them |
| `MaintenanceGraph`, `MaintenanceGraphProofs` | a platform that changes, and the typed graph evaluated against it |
| `LocalAppWatch`, `LocalAppWatchProofs` | the agent for one application |
| `KafkaBridge`, `KafkaBridgeProofs` | the operators as consumer-group members |
| `MC...` | instances |

A definition marked *mutant* stands for a plausible bug at the definition after it. No specification
uses it: it is what the property must catch when it takes the place of the original.

### ValidationGates

A row keeps its state, the time its cluster was observed and an `Observation`, each field of
which is the outcome of the tests that the gates make on a part of the report (`ops = "bad"`: a
cluster operator is unavailable or degraded). Sticky gates are functions of the set of rows.
`ClusterVersionStable`, `PlatformOperatorsDeployed` and the `Unknown`/`False` choice of
`AllChangesApplied` depend on the last row of the visit that writes them and take the order as a
parameter. `SawReportSinceChgStart` is read by the code and set by none, so it has no field here.

### ChangeWindow

| Action | Code |
|---|---|
| `ReconcileScheduled` | the return before `spec.startTime`, whose patch error is ignored |
| `Reconcile(order, delivery, patched)` | the rest of `Reconcile`, in one step; parameters: order of the map visit, fate of the Kafka report, fate of the patch |
| `CreatePS`, `UpdatePS`, `DeletePS` | what the PropagationStatus controller and its users do to the rows: a new object has none, an update rewrites them all |
| `InformerSync` | the watch delivers the next of the versions that the cache is behind (`coming`) |
| `Tick` | time |

One reconcile is one step: controller-runtime runs one reconcile of an object at a time, the
controller keeps nothing in memory, and the order of the two outside effects (report, patch) is
kept by giving each its own outcome. A crash between them is `patched = FALSE`. `ackLost` is a
report that arrives although the writer got an error; without a bridge `ProduceReport` returns nil,
which is `acked` here. `MergeFrom` follows the JSON shape of the status: nested objects are merged
field by field, lists are replaced; the hard-refresh records are a map keyed by application and
cluster, so they are merged record by record and field by field.

The cache may be up to `MaxBehind` versions behind, and it passes through each of them. A reconcile that would write one
more waits: the bound is not the code's.

`evaluated` is a history variable: the time of the last stored evaluation and of the last one that
failed.

Abstracted: versions and digests (a baseline records the rows it was put together from), message
texts, the order of the list of silent clusters. The branch of `runParkedHardRefreshAction` for rows in
sync is never reached, because its only caller checks for `Diverged`. No code sets the phases
`Failed` and `ValidationRunning`.

### WindowLifecycle

The promise of a window without rows, gates, patches or caches: an evaluation comes out good or bad,
and the lifecycle says which phase follows. Success needs a stretch of good outcomes as long as
the stabilization period, a bad outcome takes success back, a bad outcome after the end times the window out,
and each decision is signed at its time. `ChangeWindow!ImplementsLifecycle` maps the stored verdict to the
outcome, the stabilization clock to the start of the stretch, and result and time of the signed report to
the decision. It holds when every reconcile reads the latest version; a lost patch is a stutter.

### KafkaBridge

`Fetch`, `Create` and `Commit` are the three calls of the loop in `Start` on which another actor's
step may intervene. An error of `Create` other than AlreadyExists is retried: a step that changes
nothing, so it is not written. `Rebalance` and `Crash` return the partition to the committed
offset. An old leader may still be in its loop, so one cluster has several members. All members
share one group, because its name is a constant of the code. `ClusterName` is the environment variable
`CLUSTER_NAME`: it selects the targets of an event, and also the controllers that run beside the bridge
(`SetupAllControllers`). `Handled` asks for the window in the cluster of *some* member of a group that wants the event, which is
all that a shared group gives; of a group that serves one cluster it is this cluster. `kafka` has both: members with other brokers are in
another group, though of the same name. `Validate` stands for the ChangeWindow controller, where that one runs.

### PropagationStatus

`Reconcile` computes rows, lists, phase, condition and lag clock from the cached object and from the
listed reports, writes gauges, emits the event and patches. The List is bounded by `Limit` and the cache
returns any that many reports. `ReconcileDeleting` is the early return for an object with a deletion
timestamp, which exists only while someone else's finalizer holds it. Gauge values are left out;
`metrics` is the set of clusters that have series. `history` is a history variable. The runs stay
below `Limit`. The cache brings the latest version at once when it catches up, where a watch would also
deliver those in between (`ChangeWindow` has them). A reconcile is possible at any time while the object exists: a report, an edit or the periodic
requeue may trigger it.

### DriftSystem

Both controllers of an aggregator, as instances of their modules, joined by the `PropagationStatus` object of one
application: the rows that `ChangeWindow` reads (`FoundPS`) are those the other controller stored, copied as
`Reconcile` copies them. `ImplementsWindow` says that the composition implements `ChangeWindow!Spec`, so that
what is checked and proved of a window with an arbitrary environment holds for a window with this one.
A window takes the rows as it finds them, whatever generation they are for; `NoFalseSuccess` and
`FalseSuccessEnds` say what a reader may expect all the same. `NoFalseSuccess` leaves out rows that are known to be of an old
generation, and a second evaluation at one instant; a success on these is what `FalseSuccessEnds` is about.
Neither controller's cache lags in this composition (`P` has no lag and `W` is never behind), so it says nothing of two
caches that are behind at a time.

### PlatformAnalysis and MaintenanceGraph

A cluster is a record with a field for each kind of object. All readers treat an error like an absence, so a
kind that cannot be read is a kind without objects (`Readable`). A List returns one page of at most `PageLimit` objects,
any of them (`Pages`); `Listed` has what an agent may get of a cluster. The analyses are functions of the observation.
`PlatformSeen` has the tests the gates make and yields the `Observation` of `ValidationGates`, so readers,
classification and gates are checked as a whole against `PlatformConverged`, which speaks of the objects only.

`MaintenanceGraph` lets the platform change in at most `MaxFaults` kinds and evaluates the typed graph node by node,
in any order, with failing reads, each node on a page of nodes and of migrations. Nodes whose parents' evaluators always pass are
not visited. `lasting` (the faults that every page shows, all along) and `failed` are history variables. `EvaluateCausalChain`,
`PredictMCPConvergence` and `EvaluateClusterOperatorOrdering` are called by tests only.

The pages are a limit of what the code promises, and the properties say so: a fault of a node that some page does not show
may be missed (`LastingFaultFound`); with more migrations, VMIs or maintenances than a page the gates may pass
although the platform is not as they want it (`GatesMatchPlatform` is an equivalence up to one page only).

### LocalAppWatch

A reconcile is the steps `Begin` (read the ConfigMap from the cache, date the report), `Diagnose` (only for an application that is
OutOfSync or Degraded), `Observe` and `Write`. The first, the second and the third read; the last is the one write. Each read of a step is on its own:
`timeline` keeps all that ever was around the agent, and a read of the API server finds any entry between the start of
its step and now, the calls of `Observe` in their order (`cut`), those of `Diagnose` in any. A read through an informer finds an
entry between the one its informer (`informed`, one for each typed kind) had got to when the reconcile began and the one it has
got to now. A read may fail alone (`Unreliable`, `MayFail`) and then shows nothing. Lists return a page. So two dependencies may be
seen at two moments at which never both were there, and the pods of an old list may have the logs of the present.

Reconciles of one ConfigMap follow each other; two ConfigMaps of one application (it moves to another namespace)
have workers that overlap on one report. `Write` creates when the cache had no report, which fails if there is one, and
patches otherwise. The parts of a report that nothing reads are left out: texts, the workload summary, migration
policies, the second time stamp. A dependency is in `resources` when it is there and, for a DataVolume, ready.
`raced` is a history variable.

Restrictions: an application has one target namespace, which holds its VMIs and migrations, and virt-handler and HyperConverged
are found in the first namespace the code looks in; the pods are found by the first of the two labels it tries; a log stream is read whole or not at
all; the cache of the report brings the latest version at once; a restart comes before or after a write and never leaves one on its way.

## Runs

Deadlock is checked everywhere but in `KafkaBridge`, where a bridge that has read the whole topic
waits in `FetchMessage`, and in `LocalAppWatch`, where an agent without a ConfigMap has nothing to do. In the
other modules a reconcile, an evaluation or a change is always possible.

Times are small integers; what matters is their order and which threshold they pass.

| Run | Question | Bounds, and why they are enough |
|---|---|---|
| `window` | Does a window keep its retry budget, stabilization, evidence and audit trail through churn, lost reports and lost patches? Does the window implement its lifecycle? | one application on one cluster, a good and a diverged row; clock to 5 with the window from 1 to 3: Scheduled, both sides of the end, a stale row (2), a whole stabilization period (2), two attempts and an exhausted third, a timeline longer than its cap (3) |
| `window_live` | Is every window decided? Does a window leave Succeeded when its evidence gets old? Does the topic catch up with the status? | end 1, outage before 2, heartbeat 2, clock to 3: reports and patches are lost on both sides of the end, a row gets stale, the heartbeat comes after the outage; rows fail by being missing, empty or stale |
| `window_lag` | Does the report clock survive a lagging cache, and does a mixed status become coherent again? | a cache up to two versions behind, so that a version in between is read and patched against; two attempts that must be 1 apart, end 0, a stabilization period and a heartbeat of 1, clock to 1, lost patches and reports before 1 |
| `window_fleet` | Does success need both applications, in any order of the visit? | two applications, both orders |
| `kafka` | Is a committed event ever lost? Where do windows come from? Is a window that of the first event that announces it? Is every event handled? | two operators of `east`, with brokers and so a group to themselves; one of a hub and one of `west` that share a group; one partition (an operator handles one message at a time, and offsets are kept by partition) with a targeted event, an unnumbered one, a wildcard one that differs in case and a re-sent one; two disruptions in any mix, so that a redelivery comes behind a rebalance |
| `propagation` | Is the stored status of one piece? Is a cluster ever called Lagging too soon, a phase change not announced, a series forgotten? | two clusters, one edit of revision or targets, restarts, deletion, outage before 1, clock to 2 with both thresholds at 1: every row state occurs |
| `propagation_live` | With a lagging cache: is silence noticed, is convergence seen, does a mixed status become of one piece again? | one cluster, one edit, clock to 2 |
| `platform` | Is a lasting fault found, a past one never blamed? Do gates, analyses and objects agree? | every object kind with its normal and its faulty states (`MCMaintenanceGraph`), two kinds faulty at a time: each rule alone and each pair of rules; pages of one object where a kind may have two; reads of no kind or of the pools fail |
| `agent` | Is any part of a report that comes from the API server older than its time? Does a failed read pass for a ready dependency? Does report time go forward, does the report settle? | two namespaces with their workers, so the ConfigMap may move; a good and a drifted description, a calm and a draining platform, warnings of two keys with room for one, a pod with a log, a dependency behind an informer and one that is read live; one change, outage before 1, clock to 1; reads of secrets fail. Pages are longer than any list here: `platform` has short ones, the theorems have any |
| `system` | Do the two controllers together implement the window's specification? Is a success on overtaken rows taken back? | one agent and target, two revisions, one edit or deletion, no stabilization, clock to 1; budget, heartbeat and stabilization are out of play, as `window` has them. Every patch goes through: lost ones are in the component runs |

`Delays` bounds how old a report may be when it shows up in a row: 0 where the properties compare ages with
thresholds the clock passes anyway, anything in `system`, where the delay comes from the other controller.

When the clock reaches `MaxTime` the rest of a behaviour takes place at that instant; each
horizon lies beyond the last threshold that the run's properties depend on.

### Fairness

`FairSpec` of the two controllers asks for weak fairness of `Tick`, of `InformerSync` and of a
reconcile without failures (`ReconcileOK`). While the object exists, every return of
`Reconcile` has a requeue or an error, which controller-runtime retries, so reconciles go on for ever; the outage ends
(`OutageEnd`), so they succeed at last. Nothing is asked of agents or users. `KafkaBridge` asks for weak
fairness of each operator's step: the loop retries for ever, and disruptions are finitely many; and of `Validate`
where the controller runs. `LocalAppWatch` asks for it of each ConfigMap's reconcile, which is requeued after 30 s or retried,
of the watches and of time. `DriftSystem` asks for what its parts ask.

### Disagreements with documents, comments and tests

Each of these runs ends in a counterexample; the quotations are under `findings`.

| Run | What the code does |
|---|---|
| `claim_cluster_version` | a stable row visited later takes back the failure of an upgrading one; the run has two clusters of one application, in the order of its list (the order of the visit of a map adds two applications to it) |
| `claim_targeted_clusters` | operators of all clusters share a consumer group, so one of them gets an event; and the cluster that creates the window, being named, does not run the controller that evaluates it |

Further places where the code and its documents part, met while modelling and without a run of
their own (paths under `src/`):

* `internal/controller/failure_injection_test.go:139` says duplicate reconciles have no side effects; a second reconcile
  moves WaitingForChange to Executing (`changewindow_controller.go:178`).
* `docs/KAFKA_INTEGRATION.md:168` has a window time out at its end unless stabilized; a passed verdict
  is looked at first, so it may be PlatformRecovering after its end (`changewindow_controller.go:145`).
* `README.md:95` names ValidationRunning and Failed in the pipeline; no code sets them.
* The order of a map visit changes the order of `IssuesFound`, which counts as a changed verdict and
  triggers a report in steady state (`changewindow_controller.go:204`).
* The guard of the baseline reads the cached version, so with a lagging cache a second capture is dated anew
  and merged into the first (`changewindow_controller.go:111`).
* With a lagging cache a status that mixes versions may stay mixed for ever, if the rows never rest and the watch never
  catches up; `Heals` therefore asks for one of the two.
* A patch against an old version may store a signed report whose result is not that of its checksum
  (`changewindow_controller.go:240`).
* An event that the API server refuses for good is retried for ever and blocks its partition
  (`kafka_bridge.go:261`); `AllHandled` therefore assumes that there is none.
* `docs/KAFKA_INTEGRATION.md:157` promises a heartbeat; it needs a first acknowledged report, so a window whose
  reports all fail, and that changes no more, is never reported (`changewindow_controller.go:219`).
  `ReportsConverge` therefore speaks of windows that were reported once.
* `api/v1alpha1/propagationstatus_types.go:497` has every target in sync; an impacted application
  whose PropagationStatus was never found is skipped (`changewindow_controller.go:99`).
* `docs/KAFKA_INTEGRATION.md:166` says stabilization completed cleanly; with a lagging cache a patch may leave the clock
  of an earlier stretch running and a success may count a failure (`changewindow_controller.go:170`).
  `StabilizationClean` and `ImplementsLifecycle` are therefore checked and proved without lag.
* `propagationstatus_types.go:503` promises no warning events since the window opened; events are collected only while
  the application is OutOfSync or Degraded (`localwatch_controller.go:108`).
* `propagationstatus_types.go:501` speaks of no pool; the gate looks at the application's pool only, and a pool that
  cannot be read passes. `PlatformConverged` says exactly what the gates test.
* `propagationstatus_types.go:19` has the time an event was last seen; of the events of one reason and object the one with
  the highest count gives the time, also when another is later (`localwatch_controller.go:196`).
* `README.md:93` has a gate Unknown without telemetry; readers that fail report no maintenance, no stalled
  migration and a ready virt-handler, which pass.
* `platform_validator.go:326` has downstream nodes document the root cause; `RootCauseOf` is set on the impacted
  nodes, with a constant text (`platform_validator.go:490`).
* `validator/graph.go:331` and `README.md:86` speak of topological order and the root cause; nodes are visited in the
  random order of a map, the parent that is blamed may itself be a symptom, and the last node (migrations) is
  nobody's parent, so it is never evaluated. `LastingFaultFound` therefore leaves it out.
* `README.md:103` speaks of pagination; every List stops at 100 objects and asks for no further page: reports
  (`propagationstatus_controller.go:84`), PropagationStatus objects (`changewindow_controller.go:85`), objects to be requeued
  (`changewindow_controller.go:763`, `propagationstatus_controller.go:281`), events and pods (`localwatch_controller.go:176`, `:235`),
  migrations and VMIs (`:625`, `:663`), maintenances and pools (`platform_validator.go:210`, `:268`), nodes and migrations of the
  typed graph (`validator/graph.go:138`, `:274`).
* A revision that moves away and back between two reconciles keeps its lag clock
  (`propagationstatus_controller.go:74`); `NeverLaggingEarly` therefore speaks of stored evaluations.
* A lost patch leaves the series of a target that was added and removed, and without a finalizer the
  series of a deleted object stay (`propagationstatus_controller.go:56`, `:169`); `SeriesRemembered`
  says what does hold.

## Proofs

Every safety property that a passing run checks, invariant, action property or refinement, is also a theorem, for every value of
the constants that the named assumptions of the modules allow: any set of applications, clusters, members, namespaces,
objects and messages, any period, threshold, budget, cap and horizon. A run shows on a small
instance that the interesting cases happen and that a plausible bug breaks the property; the theorem shows that the
bounds of the run hide nothing. Clocks and failures keep their named bounds (`MaxTime`, `OutageEnd`, `MaxEdits`...), which may be any
number.

**ChangeWindow with any cache** (`ChangeWindowProofs`; `GatesAssumption`, `WindowAssumption`)

* `HardRefreshAlwaysPaced`: `Spec => []HardRefreshPaced`, also with a lagging cache. The property
  is about the stored status, and is not inductive: an attempt is counted from the cached version, so
  `PacedInv` says the same of every version a reconcile may start from (`ToRead`). A merge could still take the number of attempts from one version and
  the history from another; `RefreshStep` shows that the three fields change together or not at
  all (the history grows by exactly one entry), and `MergeStep` that a merged record is therefore, up to
  its result, one of the two.
* `WindowTyped`: `Spec => []TypeOK`. `TypeInv` adds that stored and cached versions have the same
  fields and are typed field by field, which every merge keeps. `WatchInv` says that the last version to come is the stored one.
* `StabilizationAlwaysClean`: `MaxBehind = 0 /\ Spec => []StabilizationClean`. `StabInv` adds that
  the cache is the stored version, that the history is not in the future, and that a running clock is not older than the
  last failure *in every phase*, not only in those the property is about.
* `ReportClockAlwaysForward`: `Spec => ReportClockMonotone`. `ReportInv` says that no version that may be read has a clock
  ahead of the stored one, and that one is not in the future.

**ChangeWindow with a cache that keeps up** (`WindowLifecycleProofs`; also `MaxBehind = 0`). `StoredSteps` says once what
a step may do to the stored status: nothing, pass time, store Scheduled, or store an evaluation of a fetched snapshot.

* `LifecycleImplemented`: the refinement `ImplementsLifecycle`. `LifeInv` adds to `StabInv` what the status says of its past
  (`PastInv`): before the first stored evaluation there is no baseline, clock or timeline, afterwards the clock runs
  exactly while the verdict is good and a period is asked for. Every stored evaluation is then a good or a bad outcome of the lifecycle.
* `AuditTrailAlwaysAgrees`: from `LifeInv`; `RecordClean` is about the capped timeline.
* `SucceededAlwaysOnFreshEvidence`: `PassedOnEvidence` derives from a passed verdict, gate by gate, that there are rows and all are InSync,
  Healthy and fresh. `EvidenceInv` adds that every row has one of the three healths, without which "not
  Degraded, not Unknown" would not be Healthy, also in a snapshot older than every PropagationStatus.

**KafkaBridge** (`KafkaBridgeProofs`; `BridgeAssumption`)

* `BridgeTyped`, `WindowsAlwaysFromEvents` (`WindowInv`: what a member is about to create is for its cluster).
* `CommittedAlwaysHandled`: `DeliveryInv` says that everything before the committed offset and before the message in hand of any
  member is handled, a message to be committed is done, and what is before the position is handled or is in hand at the
  reader. The part about *any* member is what carries the proof over a rebalance: a member that lost its
  partition may still commit.
* `FirstEventAlwaysWins`: from `DeliveryInv`. What comes before a message in hand was handled, so if an earlier event announces the same
  window, the window is there, and `Create` does not write another.

**PropagationStatus** (`PropagationStatusProofs`; `PropagationAssumption`)

* `StatusTyped` and `PhaseChangeAlwaysAnnounced`, with any cache lag: the latter needs types only, because a patch changes
  the phase only if the reconcile computed another one than it read, and this is when it announces it.
* With `CacheLag = FALSE`: `NeverLaggingTooEarly` (`LagInv`: the lag clock is not older than the last evaluation for another revision),
  `StatusAlwaysAgrees` (`AgreesInv`: no status is of a generation to come, so an edit always leaves it behind) and
  `SeriesAlwaysRemembered` (`SeriesInv`). `FreshReconcile` shows that a patch against the latest version stores what was computed.

**PlatformAnalysis and MaintenanceGraph** (`PlatformAnalysisProofs`, lemmas; `MaintenanceGraphProofs`; `GraphAssumption`, `ObjectsAssumption`)

* `LastingFaultAlwaysFound`, `BlameAlwaysReal`: `EvalInv` says that a node which failed and was readable all along has
  its children still to be visited, and that whatever fails now is remembered; for every `PageLimit`.
* `GatesAlwaysMatchPlatform`, `AnalysesAlwaysAgree`: for every platform whose objects are well formed (`ObjectsAssumption`: counts are not negative, a
  ClusterVersion names the version it wants, finitely many objects of a kind), and with an impacted application (`Apps # {}`; without one
  the verdict of a window never passes), whatever pages are read (`ListedParts`). `ClusterInv` says that the platform consists of such objects; the lemmas `Gate...` take each
  gate through reader and classification, `StageParts`, `DagHasRoot`, `OrderingFails` and `RolloutFails` the analyses.

**LocalAppWatch** (`LocalAppWatchProofs`; `AgentAssumption`)

`AgentInv` has three parts: the timeline goes forward and the informers are within it (`TimeInv`); every reconcile, at each step it is at, has gathered
parts that its separate reads can find, live ones in entries of its time or later, cached ones in any entry (`BusyInv`); the report and its cached copy
are whole (`ReportInv`). `WorkStays` and `MadeMore` show that what was gathered stays explained while the timeline grows.

* `AgentTyped`: a write at the end of any interleaving leaves a whole report, within its limits.
* `ReportTimeAlwaysForward`: `ForwardInv`, in an application that kept its namespace no reconcile in hand is older than the report.
* `EvidenceAlwaysCurrent`: `EvidenceInv` is the property itself, with the timeline as a parameter; `ReadObserved` and `CallFinds` take
  the calls of `Observe` one by one, and a write whose copy of the report is the latest stores the whole look (`SpecWhole`).
* `DependenciesAlwaysFailClosed`: from `EvidenceInv`; a dependency that could not be read, or is of a kind nobody checks, is unready.

**DriftSystem** (`DriftSystemProofs`; `SystemAssumption`, `GatesAssumption`)

* `WindowImplemented`: the refinement `ImplementsWindow`, for any targets, thresholds, edits and lost patches, without cache lag. `SysInv` says that both caches
  keep up, that a row is missing or made from a report its cluster sent, not later than its last (`RowOK`), and that a
  status of the current generation is of the current spec (`GenerationOK`). `RowPossible` is the core: a row made
  from the reports as they are is one that the environment of `ChangeWindow` may write next, because it is never older than the one before.
* `SuccessNeverFalse`: `NoFalseSuccess`, from `SysInv` and what a passed verdict says of the rows.

Only model-checked: liveness (`WindowDecided`, `SilenceReopens`, `ReportsConverge`, `Heals`, `AllHandled`, `SilenceNoticed`,
`ConvergenceSeen`, `AgreesAgain`, `ReportSettles`, `FalseSuccessEnds`, `SuccessReached`), which is beyond the
prover. With a lagging cache, nothing is claimed of the properties named above with `MaxBehind = 0` or `CacheLag = FALSE`, nor of the second capture of a baseline; `Heals` and `AgreesAgain` say
what a mixed status comes to.

## Not modelled

* TLS and SASL set-up, flags, manager options, logging, message texts, gauge values, generated code, manifests.
* `readMigrationPolicies`, whose result nothing reads, and the texts of the analyses (`RootCauseOf`, summaries).
* The probes of `DetectClusterRole`: their outcome is `IsHub`.
* `CorrelateVMIM` and `VerifyReportSignature` (`validator/evidence.go`), which only tests call.
* Deletion of a ChangeWindow, on which the controller does nothing.
* A composition with the agent or the bridge: the agent meets the aggregator only through the report, which
  `PropagationStatus!Report` lets be anything in `Findings` at any time, and the bridge only creates windows.

Limits of single properties, beside those named at their place: `SucceededOnFreshEvidence` is about the rows that were found; an application whose
PropagationStatus never was is not among them. `AllHandled` assumes that no event is refused for good. In `ReportSettles` patches
that a restart leaves on their way are left out.

## Plan

Done: all components above, their runs, the refinements, and a theorem for each safety property.

Left: carrying the theorems of `WindowLifecycleProofs` over to `DriftSystem` as theorems of its own (today they follow
from `WindowImplemented` by an argument outside the prover, for targets that are not empty), and safety facts of which the liveness properties are
made, such as which phases a status with a lagging cache may mix.
