----------------------------- MODULE DriftSystem -----------------------------
(***************************************************************************)
(* The aggregating operator as a whole: the PropagationStatus controller   *)
(* and the ChangeWindow controller of one manager, joined by the           *)
(* PropagationStatus object of an impacted application.  Reporters report, *)
(* the first controller turns reports into rows, the second copies the     *)
(* rows and evaluates its window.  Neither waits for the other: the second *)
(* takes the rows as it finds them and does not look at the generation     *)
(* they were computed for.  A restart loses only the gauges of the first   *)
(* controller and is left to module PropagationStatus.  The two read their *)
(* objects without lag here; what a lagging cache does to each of them is  *)
(* checked in its own module.                                              *)
(***************************************************************************)
EXTENDS ValidationGates

CONSTANTS
    Reporters,               \* the clusters that report
    Targets,              \* spec.targetClusters of the PropagationStatus
    Revisions,            \* Git revisions
    Release,              \* the one that is expected at first
    Findings,             \* what an agent may find: records [revision, sync]
    Observed,             \* what every report shows to the gates
    PSStaleThreshold,     \* spec.staleReportThresholdSeconds of the PropagationStatus
    LagThreshold,         \* its spec.lagThresholdSeconds
    EndTime, StabilizationPeriod, Heartbeat, MaxAttempts, WaitBetween, TimelineCap,
    OutageEnd,            \* bound: Kafka and API failures happen before this time
    MaxEdits,             \* bound on edits of the PropagationStatus
    MaxTime               \* bound on the clock

ASSUME SystemAssumption ==
    /\ Cardinality(Apps) = 1
    /\ Observed \in Observation
    /\ Targets \in Seq(Reporters)
    /\ MaxTime \in Nat

VARIABLES
    now,
    reports, object, psCache, metrics, announced, history,   \* see PropagationStatus
    status, cwCache, published, evaluated                    \* see ChangeWindow

psVars == <<reports, object, psCache, metrics, announced, history>>
cwVars == <<status, cwCache, published, evaluated>>
vars == <<now, psVars, cwVars>>

P == INSTANCE PropagationStatus WITH
        Clusters <- Reporters, TargetLists <- {Targets}, StaleThreshold <- PSStaleThreshold,
        cache <- psCache, Limit <- 100, CacheLag <- FALSE

\* A row as FetchAppStates copies it.
CopiedRow(r) ==
    [ state |-> r.state, observedAt |-> r.report.observedAt,
      obs |-> IF r.report = P!NoReport THEN EmptyObservation ELSE Observed ]

\* What the ChangeWindow controller finds when it looks for its application in
\* the informer cache that the two controllers share.
FoundPS ==
    [a \in Apps |->
        IF psCache.life = "gone" THEN [known |-> FALSE, rows |-> <<>>]
        ELSE [ known |-> TRUE,
               rows |-> [i \in DOMAIN psCache.status.rows |-> CopiedRow(psCache.status.rows[i])] ]]

W == INSTANCE ChangeWindow WITH
        NumClusters <- Len(Targets),
        Contents <- {[state |-> s, obs |-> Observed] : s \in RowStates \ {"Missing"}},
        Delays <- 0 .. MaxTime, PSChurn <- TRUE, MaxBehind <- 0,
        ps <- FoundPS, cache <- cwCache, coming <- <<>>

Init == P!Init /\ object.expected = Release /\ W!Init

-----------------------------------------------------------------------------
Tick == now < MaxTime /\ now' = now + 1 /\ UNCHANGED <<psVars, cwVars>>

\* Steps of the users, the agents and the PropagationStatus controller.
EditOrDelete == P!Users /\ UNCHANGED cwVars
Report       == P!Agents /\ UNCHANGED cwVars
Propagate(patched) == P!Reconcile(patched) /\ UNCHANGED cwVars
Forget       == P!ReconcileDeleting /\ UNCHANGED cwVars

\* Steps of the ChangeWindow controller.
Evaluate     == UNCHANGED psVars /\ W!ReconcileAny

Next ==
    \/ Tick
    \/ EditOrDelete
    \/ Report
    \/ \E patched \in BOOLEAN : Propagate(patched)
    \/ Forget
    \/ Evaluate

Spec == Init /\ [][Next]_vars

\* Both controllers are requeued for ever; the agents owe nothing.
FairSpec ==
    /\ Spec
    /\ WF_vars(Tick)
    /\ WF_vars(Propagate(TRUE) \/ Forget)
    /\ WF_vars(UNCHANGED psVars /\ W!ReconcileOK)

-----------------------------------------------------------------------------
(***************************************************************************)
(* Properties.                                                             *)
(***************************************************************************)

\* The ChangeWindow controller was specified on its own, with an environment that
\* creates, rewrites and deletes rows.  The PropagationStatus controller is such
\* an environment: the whole implements the specification of the part.
ImplementsWindow == W!Spec

\* Every target's last report is in sync with the revision the object expects.
InSyncNow ==
    \A i \in DOMAIN Targets :
        /\ reports[Targets[i]].revision = object.expected
        /\ reports[Targets[i]].sync # "OutOfSync"

\* The rows are those of the reports and of the spec as they are now.
RowsUpToDate ==
    /\ object.status.observedGeneration = object.generation
    /\ \A i \in DOMAIN object.status.rows :
          object.status.rows[i].report = reports[object.status.rows[i].cluster]

\* A window is not declared Succeeded against the reports: when it is, every
\* target's last report is in sync with the expected revision, unless the
\* PropagationStatus controller still owes a reconcile or the object is gone.
NoFalseSuccess ==
    [][ evaluated' # evaluated /\ status'.phase = "Succeeded" /\ object.life # "gone" /\ RowsUpToDate
            => InSyncNow ]_vars

\* A window declared Succeeded on rows that were overtaken, by a new expected
\* revision or by a report of drift, does not stay so: it leaves Succeeded, or
\* the drift is gone, or the object is.
FalseSuccessEnds ==
    (object.life = "present" /\ ~InSyncNow) ~>
        (status.phase # "Succeeded" \/ InSyncNow \/ object.life # "present")

\* When every target stays in sync and fresh, the window succeeds and stays so,
\* if it needs no stabilization.
Settled ==
    /\ object.life = "present" /\ InSyncNow
    /\ \A i \in DOMAIN Targets : LET age == now - reports[Targets[i]].observedAt
                                 IN  age <= StaleThreshold /\ age <= PSStaleThreshold
SuccessReached == <>[]Settled => <>[](status.phase = "Succeeded")
=============================================================================
