--------------------------- MODULE ValidationGates ---------------------------
(***************************************************************************)
(* The eleven post-change validation gates of a ChangeWindow, as           *)
(* changewindow_controller.go evaluates them in one reconcile.             *)
(*                                                                         *)
(* The input is the AppStates map of the window's status: for every        *)
(* impacted application that has been observed, the list of its cluster    *)
(* rows, copied from a PropagationStatus.  Go visits a map in a random     *)
(* order, so the operators that depend on it take the order of the visit   *)
(* as a parameter.  Rows of one application are visited in list order.     *)
(*                                                                         *)
(* A row keeps of the code's ClusterRevisionState what the gates tell      *)
(* apart: its propagation state, when the cluster was last observed, and   *)
(* an observation, each of whose fields is the outcome of the tests the    *)
(* gates make on a part of the report.                                     *)
(***************************************************************************)
EXTENDS Integers, Sequences, FiniteSets

CONSTANTS
    Apps,           \* spec.impactedApps
    IsHub,          \* DetectClusterRole: this cluster is a hub
    StartTime,      \* spec.startTime
    StaleThreshold  \* spec.staleReportThresholdSeconds, defaulted

NoTime == -1          \* the zero metav1.Time, long before any other
MaxAge == 1000000     \* the age of the zero time saturates, above every threshold

ASSUME GatesAssumption ==
    /\ IsFiniteSet(Apps)
    /\ IsHub \in BOOLEAN
    /\ StartTime \in Nat
    /\ StaleThreshold \in 1 .. (MaxAge - 1)

Age(now, t) == IF t = NoTime THEN MaxAge ELSE now - t

\* Outcomes of the tests made on each part of a report.
Observation ==
    [ health      : {"Healthy", "Unknown", "Degraded"},
      ops         : {"none", "ok", "bad"},
      mcp         : {"none", "ok", "degraded", "updating", "notReady", "mismatch"},
      events      : SUBSET Nat,
      objectsFail : BOOLEAN,
      depsUnready : BOOLEAN,
      hco         : {"Unknown", "Healthy", "Degraded"},
      virtHandler : BOOLEAN,
      stalled     : BOOLEAN,
      unmigratable: BOOLEAN,
      cv          : {"none", "progressing", "available", "unavailable"},
      platformOps : {"none", "deployed", "partial"},
      versioned   : BOOLEAN,   \* names its cluster version or its KubeVirt version
      maintenance : BOOLEAN ]

\* What a row holds when no report was found: only the name and the state.
EmptyObservation ==
    [ health |-> "Unknown", ops |-> "none", mcp |-> "none", events |-> {},
      objectsFail |-> FALSE, depsUnready |-> FALSE, hco |-> "Unknown",
      virtHandler |-> FALSE, stalled |-> FALSE, unmigratable |-> FALSE,
      cv |-> "none", platformOps |-> "none", versioned |-> FALSE, maintenance |-> FALSE ]

RowStates == {"InSync", "Propagating", "Lagging", "Stale", "Diverged", "Missing"}

-----------------------------------------------------------------------------
\* The orders in which Go may visit the AppStates map.
Orders == {o \in [1..Cardinality(Apps) -> Apps] : \A a \in Apps : \E i \in DOMAIN o : o[i] = a}

\* appStates[a] is [known |-> ..., rows |-> ...]; an app that is not known is
\* not a key of the map and its rows are empty.
RowsOf(appStates) ==
    UNION {{appStates[a].rows[j] : j \in DOMAIN appStates[a].rows} : a \in Apps}

\* Places <<i, j>> of the visit: row j of the i-th application.
Places(appStates, order) ==
    UNION {{<<i, j>> : j \in DOMAIN appStates[order[i]].rows} : i \in DOMAIN order}

RowAt(appStates, order, p) == appStates[order[p[1]]].rows[p[2]]

LaterOrSame(p, q) == q[1] < p[1] \/ (q[1] = p[1] /\ q[2] <= p[2])

GateOf(observed, violated) ==
    IF ~observed THEN "Unknown" ELSE IF violated THEN "False" ELSE "True"

-----------------------------------------------------------------------------
(* Gates whose failure, once set by a row, no later row takes back.        *)

ClusterOperatorsHealthy(R) ==
    GateOf(\E r \in R : r.obs.ops # "none", \E r \in R : r.obs.ops = "bad")

MCPUpdatedOnTime(R) ==
    GateOf(\E r \in R : r.obs.mcp # "none", \E r \in R : r.obs.mcp \notin {"none", "ok"})

VirtUnhealthy(o) == o.hco = "Degraded" \/ ~o.virtHandler \/ o.stalled \/ o.unmigratable

VirtImpactPassed(R) ==
    GateOf(\E r \in R : r.obs.hco # "Unknown", \E r \in R : VirtUnhealthy(r.obs))

HealthCheckPassed(R) ==
    IF \E r \in R : r.obs.health = "Degraded" THEN "False"
    ELSE GateOf(R # {} /\ \A r \in R : r.obs.health # "Unknown", FALSE)

WarnedInWindow(o) == \E t \in o.events : t >= StartTime

EventsClean(R)       == GateOf(R # {}, \E r \in R : WarnedInWindow(r.obs))
ObjectsConverged(R)  == GateOf(R # {}, \E r \in R : r.obs.objectsFail)
DependenciesReady(R) == GateOf(R # {}, \E r \in R : r.obs.depsUnready)

NoActiveNodeMaintenance(R) == GateOf(TRUE, \E r \in R : r.obs.maintenance)

-----------------------------------------------------------------------------
(* Gates decided by the last place of the visit that writes them.          *)

\* Outcome of the last of the places W of the visit that report on the gate; it
\* is good at the places G.
LastWriter(W, G) ==
    GateOf(W # {}, \A p \in W : (\A q \in W : LaterOrSame(p, q)) => p \notin G)

ClusterVersionStable(appStates, order) ==
    LET Saying(S) == {p \in Places(appStates, order) : RowAt(appStates, order, p).obs.cv \in S}
    IN  LastWriter(Saying({"progressing", "available", "unavailable"}), Saying({"available"}))

PlatformOperatorsDeployed(appStates, order) ==
    LET Saying(S) == {p \in Places(appStates, order) : RowAt(appStates, order, p).obs.platformOps \in S}
    IN  LastWriter(Saying({"deployed", "partial"}), Saying({"deployed"}))

\* An observed application without rows writes Unknown (unless on a hub), a row
\* that is not InSync writes False; nothing writes True again.
WithoutRows(s)  == s.known /\ s.rows = <<>> /\ ~IsHub
NotInSync(s) == \E j \in DOMAIN s.rows : s.rows[j].state # "InSync"

\* Mutant: the last application decides.
LastAppDecides(appStates, order) ==
    LET last == appStates[order[Len(order)]]
    IN  IF last.rows = <<>> THEN "Unknown" ELSE IF NotInSync(last) THEN "False" ELSE "True"

AllChangesApplied(appStates, order) ==
    LET W == {i \in DOMAIN order :
                WithoutRows(appStates[order[i]]) \/ NotInSync(appStates[order[i]])}
    IN  IF RowsOf(appStates) = {} THEN "Unknown"
        ELSE IF W = {} THEN "True"
        ELSE IF \E i \in W : (\A k \in W : k <= i) /\ NotInSync(appStates[order[i]])
             THEN "False" ELSE "Unknown"

-----------------------------------------------------------------------------
\* The entries a row adds to IssuesFound.
RowIssues(r) ==
    LET o == r.obs
        when(c, e) == IF c THEN {e} ELSE {}
    IN  UNION { when(o.ops = "bad", <<"ops", o.ops>>),
                when(r.state # "InSync", <<"state", r.state>>),
                when(o.health # "Healthy", <<"health", o.health>>),
                when(o.mcp \notin {"none", "ok"}, <<"mcp", o.mcp>>),
                when(WarnedInWindow(o), <<"event", "warning">>),
                when(o.objectsFail, <<"object", "failed">>),
                when(o.depsUnready, <<"dependency", "unready">>),
                when(o.hco = "Degraded", <<"virt", "hco">>),
                when(~o.virtHandler, <<"virt", "handler">>),
                when(o.stalled, <<"virt", "stalled">>),
                when(o.unmigratable, <<"virt", "unmigratable">>),
                when(o.cv \in {"progressing", "unavailable"}, <<"cv", o.cv>>),
                when(o.platformOps = "partial", <<"operators", "partial">>),
                when(o.maintenance, <<"maintenance", "active">>) }

\* IssuesFound: entries come application by application in the order of the
\* visit, then one per silent cluster.
IssuesFound(appStates, order, silent) ==
    LET HasIssue(a) == \/ WithoutRows(appStates[a])
                       \/ \E j \in DOMAIN appStates[a].rows : RowIssues(appStates[a].rows[j]) # {}
    IN  [ order  |-> SelectSeq(order, HasIssue),
          ofRow  |-> [a \in Apps |-> [j \in DOMAIN appStates[a].rows |-> RowIssues(appStates[a].rows[j])]],
          silent |-> {<<s.app, s.cluster, s.state>> : s \in silent} ]

\* evaluateGates: the tri-state gates, the issues and the verdict.
GateResults(appStates, order) ==
    LET R == RowsOf(appStates)
    IN  [ ClusterVersionStable      |-> ClusterVersionStable(appStates, order),
          ClusterOperatorsHealthy   |-> ClusterOperatorsHealthy(R),
          PlatformOperatorsDeployed |-> PlatformOperatorsDeployed(appStates, order),
          MCPUpdatedOnTime          |-> MCPUpdatedOnTime(R),
          NoActiveNodeMaintenance   |-> NoActiveNodeMaintenance(R),
          AllChangesApplied         |-> AllChangesApplied(appStates, order),
          HealthCheckPassed         |-> HealthCheckPassed(R),
          EventsClean               |-> EventsClean(R),
          ObjectsConverged          |-> ObjectsConverged(R),
          DependenciesReady         |-> DependenciesReady(R),
          VirtImpactPassed          |-> VirtImpactPassed(R) ]

AllTrue(gates) == \A g \in DOMAIN gates : gates[g] = "True"

evaluateGates(appStates, order, silent) ==
    LET gates == GateResults(appStates, order)
    IN  [ gates  |-> gates,
          issues |-> IssuesFound(appStates, order, silent),
          passed |-> AllTrue(gates) /\ silent = {} /\ Apps # {} ]

-----------------------------------------------------------------------------
\* Mutant: one report in the window is enough for ever.
ClassifyByStart(r, now) == IF r.observedAt >= StartTime THEN "Reporting" ELSE "SilentBeforeChgStart"

\* classifySilence: "Reporting", or in which way the cluster is silent.
\* SawReportSinceChgStart is a field of the row that no code ever sets.
classifySilence(r, now) ==
    IF Age(now, r.observedAt) <= StaleThreshold THEN "Reporting"
    ELSE IF r.observedAt # NoTime /\ r.observedAt >= StartTime THEN "WentSilentDuringChg"
    ELSE "SilentBeforeChgStart"

SilentClusters(appStates, now) ==
    UNION {{ [ app |-> a, cluster |-> j,
               state |-> classifySilence(appStates[a].rows[j], now),
               lastSeenAt |-> appStates[a].rows[j].observedAt,
               silentFor |-> Age(now, appStates[a].rows[j].observedAt) ] :
             j \in {k \in DOMAIN appStates[a].rows :
                      classifySilence(appStates[a].rows[k], now) # "Reporting"} } : a \in Apps}
=============================================================================
