-------------------------- MODULE PropagationStatus --------------------------
(***************************************************************************)
(* The PropagationStatus controller: one application, whose per-cluster    *)
(* reports are folded into one row per target cluster, four cluster lists, *)
(* a phase and a condition.  One Reconcile step is one whole call of       *)
(* PropagationStatusReconciler.Reconcile, with its metrics, its event and  *)
(* its status patch.                                                       *)
(*                                                                         *)
(* Users edit the expected revision and the target list, clusters report   *)
(* when they like, patches fail, the operator restarts (losing only its    *)
(* metrics), and the object is read from an informer cache that may lag.   *)
(***************************************************************************)
EXTENDS Integers, Sequences, FiniteSetsExt

CONSTANTS
    Clusters,        \* the clusters that have an agent
    Revisions,       \* Git revisions
    TargetLists,     \* values of spec.targetClusters
    Findings,        \* what an agent may find: records [revision, sync]
    LagThreshold,    \* spec.lagThresholdSeconds, defaulted
    StaleThreshold,  \* spec.staleReportThresholdSeconds, defaulted
    Limit,           \* 100: reports a List returns at most
    CacheLag,        \* may the informer cache lag behind?
    OutageEnd,       \* bound: patches fail before this time
    MaxEdits,        \* bound on edits of the spec
    MaxTime          \* bound on the clock

ASSUME PropagationAssumption ==
    /\ IsFiniteSet(Clusters)
    /\ TargetLists \subseteq Seq(Clusters)
    /\ \A f \in Findings : f.revision \in Revisions /\ f.sync \in {"Synced", "OutOfSync", "Unknown"}
    /\ LagThreshold \in Nat \ {0}
    /\ StaleThreshold \in Nat \ {0}
    /\ Limit \in Nat \ {0}
    /\ CacheLag \in BOOLEAN
    /\ OutageEnd \in Nat /\ MaxEdits \in Nat /\ MaxTime \in Nat

NoTime == -1
NoReport == [revision |-> "", sync |-> "", observedAt |-> NoTime]

VARIABLES
    now,        \* the clock
    reports,    \* reports[c]: the ClusterAppReport of cluster c
    object,     \* the PropagationStatus at the API server
    cache,      \* the PropagationStatus in the informer cache
    metrics,    \* clusters that have metric series of this application
    announced,  \* the phase the last event told of
    history     \* times of the last stored evaluation and of the last one for another
                \* revision; clusters recorded by reconciles whose patch was lost

vars == <<now, reports, object, cache, metrics, announced, history>>

States == {"InSync", "Propagating", "Lagging", "Diverged", "Stale", "Missing"}

NoLists == [diverged |-> <<>>, lagging |-> <<>>, stale |-> <<>>, missing |-> <<>>]

NoStatus == [ rows |-> <<>>, lists |-> NoLists, phase |-> "", condition |-> "",
              lastExpectedRevision |-> "", since |-> NoTime, observedGeneration |-> 0 ]

Init ==
    /\ now = 0
    /\ reports = [c \in Clusters |-> NoReport]
    /\ \E r \in Revisions, T \in TargetLists :
          object = [ life |-> "present", expected |-> r, targets |-> T,
                     generation |-> 1, status |-> NoStatus ]
    /\ cache = object
    /\ metrics = {}
    /\ announced = ""
    /\ history = [evaluatedAt |-> NoTime, otherAt |-> NoTime, lost |-> {}]

\* The watch brings a new version to the cache, at once unless it may lag.
CacheAfterWrite == cache' \in (IF CacheLag THEN {cache, object'} ELSE {object'})

-----------------------------------------------------------------------------
(* Users, clusters, the clock.                                             *)

Tick == /\ now < MaxTime
        /\ now' = now + 1
        /\ UNCHANGED <<reports, object, cache, metrics, announced, history>>

\* The agent of a cluster upserts its report.
Report(c, f) ==
    /\ reports' = [reports EXCEPT ![c] = [revision |-> f.revision, sync |-> f.sync, observedAt |-> now]]
    /\ UNCHANGED <<now, object, cache, metrics, announced, history>>

EditSpec(r, T) ==
    /\ object.life = "present"
    /\ object.generation <= MaxEdits
    /\ r # object.expected \/ T # object.targets
    /\ object' = [object EXCEPT !.expected = r, !.targets = T, !.generation = @ + 1]
    /\ CacheAfterWrite
    /\ UNCHANGED <<now, reports, metrics, announced, history>>

\* The object is deleted: marked first if a finalizer holds it, else at once.
Delete ==
    /\ \/ object.life = "present" /\ \E l \in {"deleting", "gone"} : object' = [object EXCEPT !.life = l]
       \/ object.life = "deleting" /\ object' = [object EXCEPT !.life = "gone"]
    /\ CacheAfterWrite
    /\ UNCHANGED <<now, reports, metrics, announced, history>>

\* The operator restarts; its gauges start empty and its cache is listed anew.
Restart ==
    /\ metrics' = {}
    /\ cache' = object
    /\ UNCHANGED <<now, reports, object, announced, history>>

InformerSync ==
    /\ cache # object
    /\ cache' = object
    /\ UNCHANGED <<now, reports, object, metrics, announced, history>>

-----------------------------------------------------------------------------
(* One reconcile.                                                          *)

Reported == {c \in Clusters : reports[c] # NoReport}

\* The sets of reports List may return: all, or any Limit of them, because the
\* cache keeps an index in no order.
Listings == IF Cardinality(Reported) <= Limit THEN {Reported} ELSE kSubset(Limit, Reported)

\* Mutant: the lag clock is started once.
LagClockOnce(view) == IF view.status.since = NoTime THEN now ELSE view.status.since

\* The lag clock is started again when the expected revision moved.
LagClock(view) ==
    IF view.status.lastExpectedRevision # view.expected THEN now ELSE view.status.since

\* Mutants: staleness looked at last; a report is stale one tick too soon; the
\* revision not compared.
RowStateStaleLast(rep, expected, since) ==
    IF rep.sync = "OutOfSync" THEN "Diverged"
    ELSE IF rep.revision # expected THEN IF now - since > LagThreshold THEN "Lagging" ELSE "Propagating"
    ELSE IF now - rep.observedAt > StaleThreshold THEN "Stale" ELSE "InSync"
RowStateStaleSoon(rep, expected, since) ==
    IF now - rep.observedAt >= StaleThreshold THEN "Stale"
    ELSE IF rep.sync = "OutOfSync" THEN "Diverged"
    ELSE IF rep.revision = expected THEN "InSync" ELSE "Propagating"

RowStateAnyRevision(rep, expected, since) ==
    IF now - rep.observedAt > StaleThreshold THEN "Stale"
    ELSE IF rep.sync = "OutOfSync" THEN "Diverged" ELSE "InSync"

RowState(rep, expected, since) ==
    IF now - rep.observedAt > StaleThreshold THEN "Stale"
    ELSE IF rep.sync = "OutOfSync" THEN "Diverged"
    ELSE IF rep.revision = expected THEN "InSync"
    ELSE IF now - since > LagThreshold THEN "Lagging" ELSE "Propagating"

ClusterRowAssumed(c, listed, expected, since) ==   \* mutant: no report yet is no trouble
    [ cluster |-> c, report |-> reports[c],
      state |-> IF c \in listed THEN RowState(reports[c], expected, since) ELSE "Propagating" ]

ClusterRow(c, listed, expected, since) ==
    IF c \in listed
    THEN [ cluster |-> c, state |-> RowState(reports[c], expected, since), report |-> reports[c] ]
    ELSE [ cluster |-> c, state |-> "Missing", report |-> NoReport ]

\* The clusters of the rows in a state of S, in the order of the rows.
ClustersIn(rows, S) ==
    LET at     == {i \in DOMAIN rows : rows[i].state \in S}
        nth(n) == CHOOSE i \in at : Cardinality({j \in at : j <= i}) = n
    IN  [n \in 1 .. Cardinality(at) |-> rows[nth(n)].cluster]

ListsOf(rows) == [ diverged |-> ClustersIn(rows, {"Diverged"}),
                   lagging  |-> ClustersIn(rows, {"Lagging", "Propagating"}),
                   stale    |-> ClustersIn(rows, {"Stale"}),
                   missing  |-> ClustersIn(rows, {"Missing"}) ]

\* Mutants: missing reports overlooked; a phase that is a row state.
RollUpWithoutMissing(lists) ==
    IF lists.diverged # <<>> THEN "Diverged"
    ELSE IF lists.stale # <<>> THEN "Stale"
    ELSE IF lists.lagging # <<>> THEN "Propagating" ELSE "Synced"
RollUpToRowState(lists) ==
    IF lists.diverged # <<>> THEN "Diverged"
    ELSE IF lists.missing # <<>> THEN "Missing"
    ELSE IF lists.lagging # <<>> THEN "Propagating" ELSE "Synced"

rollUpPhase(lists) ==
    IF lists.diverged # <<>> THEN "Diverged"
    ELSE IF lists.stale # <<>> \/ lists.missing # <<>> THEN "Stale"
    ELSE IF lists.lagging # <<>> THEN "Propagating" ELSE "Synced"

setCondition(phase) == IF phase \in {"Diverged", "Stale"} THEN "False" ELSE "True"

NewStatus(view, listed) ==
    LET rows  == [i \in DOMAIN view.targets |->
                    ClusterRow(view.targets[i], listed, view.expected, LagClock(view))]
        phase == rollUpPhase(ListsOf(rows))
    IN  [ rows |-> rows, lists |-> ListsOf(rows), phase |-> phase,
          condition |-> setCondition(phase), lastExpectedRevision |-> view.expected,
          since |-> LagClock(view), observedGeneration |-> view.generation ]

\* client.MergeFrom: what differs from the version read replaces what the API
\* server has; lists are replaced whole.
Pick(new, old, current) == IF new # old THEN new ELSE current
MergeFields(new, old, current) == [f \in DOMAIN new |-> Pick(new[f], old[f], current[f])]
MergeNonEmpty(new, old, current) ==   \* mutant: an emptied list is left out of the patch
    [MergeFields(new, old, current) EXCEPT !.lists =
        [f \in DOMAIN new.lists |-> IF new.lists[f] = <<>> THEN current.lists[f] ELSE new.lists[f]]]

MergeFrom(new, old, current) ==
    [MergeFields(new, old, current) EXCEPT !.lists = MergeFields(new.lists, old.lists, current.lists)]

ClustersOf(seq) == {seq[i] : i \in DOMAIN seq}
RowClusters(s) == {s.rows[i].cluster : i \in DOMAIN s.rows}

\* Mutant: series are never dropped.
MetricsKept(view) == metrics \cup ClustersOf(view.targets)

\* Series are written for the targets and dropped for the old rows' others.
MetricsAfter(view) ==
    (metrics \ (RowClusters(view.status) \ ClustersOf(view.targets))) \cup ClustersOf(view.targets)

\* An event tells of a phase other than the one read; the phase it tells of.
EmitUnlessSynced(view, phase) ==   \* mutant: no event for Synced
    IF phase # view.status.phase /\ phase # "Synced" THEN phase ELSE announced

emitTransitionEvent(view, phase) == IF phase # view.status.phase THEN phase ELSE announced

Reconcile(patched) ==
    /\ cache.life = "present"
    /\ patched \/ now < OutageEnd
    /\ \E listed \in Listings : \E new \in {NewStatus(cache, listed)} :
          /\ metrics' = MetricsAfter(cache)
          /\ announced' = emitTransitionEvent(cache, new.phase)
          /\ object' = IF patched /\ object.life # "gone"
                       THEN [object EXCEPT !.status = MergeFrom(new, cache.status, @)] ELSE object
          /\ history' = IF ~patched THEN [history EXCEPT !.lost = @ \cup ClustersOf(cache.targets)]
                        ELSE [ history EXCEPT !.evaluatedAt = now,
                                              !.otherAt = IF cache.expected = object.status.lastExpectedRevision
                                                          THEN @ ELSE history.evaluatedAt ]
    /\ CacheAfterWrite
    /\ UNCHANGED <<now, reports>>

\* An object that is being deleted only loses the series of its rows.
ReconcileDeleting ==
    /\ cache.life = "deleting"
    /\ metrics' = metrics \ RowClusters(cache.status)
    /\ UNCHANGED <<now, reports, object, cache, announced, history>>

-----------------------------------------------------------------------------
Users ==
    \/ \E r \in Revisions, T \in TargetLists : EditSpec(r, T)
    \/ Delete

Agents == \E c \in Clusters, f \in Findings : Report(c, f)

ReconcileOK == Reconcile(TRUE) \/ ReconcileDeleting

Next == Tick \/ Users \/ Agents \/ Restart \/ InformerSync \/ Reconcile(FALSE) \/ ReconcileOK

Spec == Init /\ [][Next]_vars

\* A reconcile asks to be run again after 30 s, or returns an error and is
\* retried; the watch keeps delivering; time passes.
FairSpec == Spec /\ WF_vars(Tick) /\ WF_vars(InformerSync) /\ WF_vars(ReconcileOK)

-----------------------------------------------------------------------------
(***************************************************************************)
(* Properties.                                                             *)
(***************************************************************************)

\* Rows, lists, phase and clocks have their types.
TypeOK ==
    /\ now \in Nat
    /\ \A v \in {object, cache} :
          /\ v.life \in {"present", "deleting", "gone"}
          /\ v.targets \in TargetLists /\ v.generation \in Nat
          /\ \A i \in DOMAIN v.status.rows : v.status.rows[i].state \in States
          /\ v.status.phase \in {"", "Diverged", "Stale", "Propagating", "Synced"}
          /\ v.status.since \in Nat \cup {NoTime}
    /\ metrics \subseteq Clusters

\* No cluster is called Lagging before it had its time: a row is Lagging only
\* when no evaluation stored within the lag threshold was for another expected
\* revision, whatever edits, lost patches and restarts came in between.
NeverLaggingEarly ==
    (\E i \in DOMAIN object.status.rows : object.status.rows[i].state = "Lagging") =>
        history.evaluatedAt - history.otherAt > LagThreshold

\* The stored status is of one piece: lists, phase and condition are those of
\* the rows, and a status that claims to be of the current generation has one
\* row for each target, all of them InSync when it says Synced.
Agrees ==
    LET s == object.status
    IN  s.phase # "" =>
          /\ s.lists = ListsOf(s.rows)
          /\ s.phase = rollUpPhase(s.lists) /\ s.condition = setCondition(s.phase)
          /\ s.observedGeneration = object.generation =>
                /\ Len(s.rows) = Len(object.targets)
                /\ \A i \in DOMAIN s.rows : s.rows[i].cluster = object.targets[i]
                /\ s.lastExpectedRevision = object.expected
          /\ s.phase = "Synced" => \A i \in DOMAIN s.rows :
                s.rows[i].state = "InSync" /\ s.rows[i].report.revision = s.lastExpectedRevision

\* Lagging cache: a status mixed from two versions becomes of one piece again.
AgreesAgain == []<>(object.life # "present" \/ Agrees)

\* Every cluster that has metric series is one the stored rows remember, so that
\* the reconcile after its removal from the targets drops the series, across
\* edits and restarts; only a lost patch makes the operator forget a cluster.
SeriesRemembered ==
    object.life = "present" => metrics \subseteq RowClusters(object.status) \cup history.lost

\* Whenever the stored phase changes, an event has told of the new phase, even
\* if the patch that stores it succeeds only after failures.
PhaseChangeAnnounced ==
    [][object'.status.phase # object.status.phase => announced' = object'.status.phase]_vars

\* A target whose agent falls silent does not stay unnoticed: its row becomes
\* Stale, or the agent reports again, or the cluster is no target any more.
SilentAgent(c) ==
    /\ object.life = "present" /\ c \in ClustersOf(object.targets)
    /\ reports[c] # NoReport /\ now - reports[c].observedAt > StaleThreshold
SilenceNoticed ==
    \A c \in Clusters : SilentAgent(c) ~>
        \/ ~SilentAgent(c)
        \/ \E i \in DOMAIN object.status.rows :
              object.status.rows[i].cluster = c /\ object.status.rows[i].state = "Stale"

\* When every target's report stays fresh, in sync and on the expected revision,
\* the phase becomes Synced and stays so.
Converged ==
    \A c \in ClustersOf(object.targets) :
        /\ reports[c].revision = object.expected /\ reports[c].sync = "Synced"
        /\ now - reports[c].observedAt <= StaleThreshold
ConvergenceSeen ==
    <>[](object.life = "present" /\ Converged) => <>[](object.status.phase = "Synced")

=============================================================================
