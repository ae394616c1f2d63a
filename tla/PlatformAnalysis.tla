--------------------------- MODULE PlatformAnalysis ---------------------------
(***************************************************************************)
(* What an agent reads of its cluster's platform, how the readers classify *)
(* it, the two analyses the agent attaches to its report (the six-stage    *)
(* dependency graph and the four-node DAG), the roll-out prediction, the   *)
(* operator ordering, and what the gates of a ChangeWindow see of it.      *)
(*                                                                         *)
(* A cluster is a record with one field for each kind of object that is    *)
(* read.  Every reader treats an error like an absence of objects, so a    *)
(* kind that cannot be read is a kind without objects (Readable).          *)
(***************************************************************************)
EXTENDS ValidationGates, FiniteSetsExt, Functions

CONSTANTS
    PoolNames,      \* names of the MachineConfigPools, in alphabetical order
    PreferredPools, \* names tried for an application's pool, in order
    PageLimit       \* 100: the objects a List returns at most

ASSUME PoolAssumption ==
    /\ PoolNames \in Seq(STRING)
    /\ PreferredPools \in Seq(STRING)
    /\ PageLimit \in Nat \ {0}

None == [k \in {} |-> k]

IsRecord(r) == r = [f \in DOMAIN r |-> r[f]]

\* The operators whose order matters; any other ClusterOperator is not looked at
\* by the ordering check.
OperatorOrder == <<"network", "kube-apiserver", "openshift-apiserver", "storage", "kubevirt">>

\* A cluster without any of the objects.  pools, operators, maintenance, handlers,
\* migrations, vmis, daemons (the machine-config daemons) and nodes are functions
\* from names; cv, kubevirt, cdi and ssp are None or a record; hco is "absent",
\* "ok" or "degraded".
NoCluster ==
    [ pools |-> None, operators |-> None, cv |-> None, kubevirt |-> None, cdi |-> None,
      ssp |-> None, maintenance |-> None, hco |-> "absent", handlers |-> None,
      migrations |-> None, vmis |-> None, daemons |-> None, nodes |-> None ]

Kinds == DOMAIN NoCluster

\* What the readers get when the kinds in failing cannot be read.
Readable(cluster, failing) ==
    [k \in Kinds |-> IF k \in failing THEN NoCluster[k] ELSE cluster[k]]

\* A List with a limit returns one page, and nobody asks for the next: of more than
\* PageLimit objects it shows PageLimit.  Which ones is left open: a cache has its
\* objects in no order, the API server in that of their names.
Pages(S) == IF Cardinality(S) <= PageLimit THEN {S} ELSE kSubset(PageLimit, S)
PagesOf(objects) == {Restrict(objects, S) : S \in Pages(DOMAIN objects)}

\* The kinds the agent lists with a limit, and what it may get of a cluster.
Limited == {"pools", "maintenance", "migrations", "vmis"}
Listed(cluster) ==
    {[cluster EXCEPT !.pools = p[1], !.maintenance = p[2], !.migrations = p[3], !.vmis = p[4]] :
        p \in PagesOf(cluster.pools) \X PagesOf(cluster.maintenance)
                \X PagesOf(cluster.migrations) \X PagesOf(cluster.vmis)}

Count(f, S) == Cardinality({n \in DOMAIN f : f[n] \in S})

-----------------------------------------------------------------------------
(* The readers.                                                            *)

\* The phase of a pool; a degraded machine outweighs an update.
PoolPhase(p) ==
    IF p.degraded > 0 THEN "Degraded"
    ELSE IF p.machines > p.updated \/ p.ready < p.machines \/ p.unavailable > 0 THEN "Updating"
    ELSE "Updated"

PoolStatus(name, p) ==
    [ name |-> name, machines |-> p.machines, ready |-> p.ready, updated |-> p.updated,
      updating |-> IF p.machines > p.updated THEN p.machines - p.updated ELSE 0,
      unavailable |-> p.unavailable, degraded |-> p.degraded, aligned |-> p.aligned,
      phase |-> PoolPhase(p) ]

UnknownPool(name) ==
    [ name |-> name, machines |-> 0, ready |-> 0, updated |-> 0, updating |-> 0,
      unavailable |-> 0, degraded |-> 0, aligned |-> TRUE, phase |-> "Unknown" ]

\* The application's pool: the one its label names, else the first of the preferred
\* ones that is found.
PoolName(found, label) ==
    LET Found(n) == n \in found
        tried == SelectSeq(PreferredPools, Found)
    IN  IF label # "" THEN label ELSE IF tried = <<>> THEN "" ELSE Head(tried)
PoolNamed(name, pools) ==
    IF name \in DOMAIN pools THEN PoolStatus(name, pools[name]) ELSE UnknownPool(name)

\* Read in one moment.
readMachineConfigPool(cluster, label) ==
    PoolNamed(PoolName(DOMAIN cluster.pools, label), cluster.pools)

\* All pools in the order of their names: each at the place of its name.
readAllMachineConfigPools(cluster) ==
    [ i \in {k \in DOMAIN PoolNames : PoolNames[k] \in DOMAIN cluster.pools} |->
        PoolStatus(PoolNames[i], cluster.pools[PoolNames[i]]) ]

readClusterVersion(cluster) ==
    IF cluster.cv = None
    THEN [version |-> "", desired |-> "", progressing |-> FALSE, available |-> FALSE]
    ELSE cluster.cv

\* KubeVirt, CDI and SSP are read alike.
readOperatorStatus(operator) ==
    IF operator = None THEN [phase |-> "Unknown", observed |-> "", ready |-> FALSE]
    ELSE [ phase |-> operator.phase, observed |-> operator.observed,
           ready |-> operator.phase = "Deployed" ]

\* Mutant: a NodeMaintenance without a phase is overlooked.
countRunningMaintenance(cluster) == Count(cluster.maintenance, {"Running"})

\* A NodeMaintenance counts while it runs, and before it has a phase.
readNodeMaintenanceStatus(cluster) == Count(cluster.maintenance, {"Running", ""})

ActivePhases == {"Scheduling", "Scheduled", "PreparingTarget", "TargetReady", "Running"}

readVirtualizationStatus(cluster) ==
    LET unready   == {n \in DOMAIN cluster.handlers :
                        cluster.handlers[n].desired > 0
                            /\ cluster.handlers[n].ready < cluster.handlers[n].desired}
        migrating == {n \in DOMAIN cluster.migrations : cluster.migrations[n].phase \in ActivePhases}
        stalled   == {n \in DOMAIN cluster.migrations : cluster.migrations[n].stalled}
        pinned    == {n \in DOMAIN cluster.vmis :
                        ~cluster.vmis[n].migratable \/ cluster.vmis[n].passthrough}
    IN  [ hco |-> CASE cluster.hco = "absent" -> "Unknown" [] cluster.hco = "degraded" -> "Degraded"
                    [] OTHER -> "Healthy",
          handlerReady |-> unready = {}, active |-> Cardinality(migrating),
          stalled |-> Cardinality(stalled), unmigratable |-> Cardinality(pinned) ]

\* The platform observation of a report, without the two analyses.
ObservePlatform(cluster, pool) ==
    [ operators |-> cluster.operators,
      pools |-> LET all == readAllMachineConfigPools(cluster) IN IF all = <<>> THEN <<pool>> ELSE all,
      virt |-> readVirtualizationStatus(cluster),
      cv |-> readClusterVersion(cluster),
      kubevirt |-> readOperatorStatus(cluster.kubevirt),
      cdi |-> readOperatorStatus(cluster.cdi),
      ssp |-> readOperatorStatus(cluster.ssp),
      maintenance |-> readNodeMaintenanceStatus(cluster) ]

-----------------------------------------------------------------------------
(* The dependency graph: six stages, each with a status and, if it is not  *)
(* Healthy, the resource that is to blame.                                 *)

Failed(op) == op.degraded \/ ~op.available

UnsettledPools(obs) == {i \in DOMAIN obs.pools : obs.pools[i].phase \in {"Updating", "Degraded"}}

\* The first pool, in the order of the list, that is not settled.
FirstUnsettled(obs) ==
    obs.pools[CHOOSE i \in UnsettledPools(obs) : \A k \in UnsettledPools(obs) : i <= k]

Unready(op) == op.phase \notin {"", "Deployed"}

Healthy == [status |-> "Healthy", cause |-> <<>>]

\* The ClusterOperator that is blamed is the first of the list, which comes from
\* the API server in no order that is modelled: the cause names the kind only.
Stages(obs) ==
    << IF obs.cv.progressing THEN [status |-> "Updating", cause |-> <<"ClusterVersion", "version">>]
       ELSE IF ~obs.cv.available /\ obs.cv.version # ""
       THEN [status |-> "Degraded", cause |-> <<"ClusterVersion", "version">>]
       ELSE Healthy,
       IF UnsettledPools(obs) = {} THEN Healthy
       ELSE [ status |-> FirstUnsettled(obs).phase,
              cause |-> <<"MachineConfigPool", FirstUnsettled(obs).name>> ],
       IF \A n \in DOMAIN obs.operators : ~Failed(obs.operators[n]) THEN Healthy
       ELSE [status |-> "Degraded", cause |-> <<"ClusterOperator", "">>],
       IF Unready(obs.kubevirt) THEN [status |-> "Updating", cause |-> <<"KubeVirt", "kubevirt">>]
       ELSE IF Unready(obs.cdi) THEN [status |-> "Updating", cause |-> <<"CDI", "cdi">>]
       ELSE IF Unready(obs.ssp) THEN [status |-> "Updating", cause |-> <<"SSP", "ssp">>]
       ELSE Healthy,
       IF obs.maintenance > 0
       THEN [status |-> "Maintenance", cause |-> <<"NodeMaintenance", "active">>]
       ELSE IF ~obs.virt.handlerReady
       THEN [status |-> "Degraded", cause |-> <<"DaemonSet", "virt-handler">>] ELSE Healthy,
       IF obs.virt.stalled > 0
       THEN [status |-> "Stalled", cause |-> <<"VirtualMachineInstanceMigration", "stalled">>]
       ELSE Healthy >>

\* The earlier stages each stage looks at for the one that impacts it, in order.
LooksAt == << <<>>, <<1>>, <<2, 1>>, <<3, 2>>, <<4, 2>>, <<5, 2>> >>

FirstUnhealthy(stages, indices) ==
    LET bad == {k \in DOMAIN indices : stages[indices[k]].status # "Healthy"}
    IN  IF bad = {} THEN <<>> ELSE stages[indices[CHOOSE k \in bad : \A j \in bad : k <= j]].cause

RootCause(stages) == FirstUnhealthy(stages, <<1, 2, 3, 4, 5, 6>>)

GraphOf(stages) ==
    [ nodes |-> [i \in DOMAIN stages |->
                   [ status |-> stages[i].status,
                     impactedBy |-> FirstUnhealthy(stages, LooksAt[i]) ]],
      rootCause |-> RootCause(stages),
      healthy |-> RootCause(stages) = <<>> ]

EvaluatePlatformDependencyGraph(obs) == GraphOf(Stages(obs))

\* The DAG: pool, machine-config daemon, virt-handler, migrations; a node whose
\* parent is not Healthy is Blocked and not evaluated.
EvaluateTopologicalDAG(obs) ==
    LET mcp  == IF UnsettledPools(obs) = {} THEN "Healthy" ELSE FirstUnsettled(obs).phase
        mcd  == IF mcp = "Healthy" THEN "Healthy" ELSE "Blocked"
        virt == IF mcd # "Healthy" THEN "Blocked"
                ELSE IF obs.virt.handlerReady THEN "Healthy" ELSE "Degraded"
        vmim == IF virt # "Healthy" THEN "Blocked"
                ELSE IF obs.virt.stalled > 0 THEN "Degraded" ELSE "Healthy"
    IN  [ states |-> <<mcp, mcd, virt, vmim>>,
          blocked |-> \E s \in {mcd, virt, vmim} : s = "Blocked",
          healthy |-> vmim = "Healthy" ]

-----------------------------------------------------------------------------
(* The roll-out prediction and the operator ordering.                      *)

\* Mutant: a pool that cannot be read is not converged.
PredictByPhase(pool, elapsed) ==
    [verdict |-> IF pool.phase = "Updated" THEN "converged" ELSE "progress", eta |-> 0]

\* The ETA is remaining / (updated / elapsed) in floating point, cut to seconds.
PredictMCPConvergence(pool, elapsed) ==
    IF pool.phase = "Updated" \/ pool.updating = 0 THEN [verdict |-> "converged", eta |-> 0]
    ELSE IF pool.degraded > 0 THEN [verdict |-> "stalled", eta |-> 0]
    ELSE IF elapsed > 0 /\ pool.updated > 0
    THEN [verdict |-> "progress", eta |-> (pool.updating * elapsed) \div pool.updated]
    ELSE [verdict |-> IF elapsed > 300 /\ pool.updated = 0 THEN "stalled" ELSE "initiated", eta |-> 0]

\* The first failing operator in the order, and the ones that come after it.
EvaluateClusterOperatorOrdering(operators) ==
    LET There(n) == n \in DOMAIN operators
        failed == {i \in DOMAIN OperatorOrder :
                     There(OperatorOrder[i]) /\ Failed(operators[OperatorOrder[i]])}
        first  == CHOOSE i \in failed : \A k \in failed : i <= k
        after  == SubSeq(OperatorOrder, first + 1, Len(OperatorOrder))
    IN  IF failed = {} THEN [passed |-> TRUE, failed |-> "", impacted |-> <<>>]
        ELSE [ passed |-> FALSE, failed |-> OperatorOrder[first],
               impacted |-> SelectSeq(after, There) ]

-----------------------------------------------------------------------------
(* What the gates see: the tests evaluateGates makes on a row, as the      *)
(* fields of an Observation.                                               *)

PoolTest(pool) ==
    IF pool.phase = "Degraded" \/ pool.degraded > 0 THEN "degraded"
    ELSE IF pool.phase = "Updating" \/ pool.updating > 0 \/ pool.unavailable > 0 THEN "updating"
    ELSE IF pool.machines > 0 /\ pool.ready < pool.machines THEN "notReady"
    ELSE IF ~pool.aligned THEN "mismatch" ELSE "ok"

OperatorsTest(operators) ==
    IF DOMAIN operators = {} THEN "none"
    ELSE IF \E n \in DOMAIN operators : Failed(operators[n]) THEN "bad" ELSE "ok"

VersionTest(cv) ==
    IF cv.version = "" /\ cv.desired = "" THEN "none"
    ELSE IF cv.progressing THEN "progressing"
    ELSE IF cv.available THEN "available" ELSE "unavailable"

DeployedTest(obs) ==
    IF obs.kubevirt.phase \in {"", "Unknown"} THEN "none"
    ELSE IF obs.kubevirt.ready /\ obs.cdi.ready /\ obs.ssp.ready THEN "deployed" ELSE "partial"

\* What the gates see of the platform part of a report; the rest is passed in.
PlatformSeen(rest, pool, obs) ==
    [ rest EXCEPT !.ops = OperatorsTest(obs.operators), !.mcp = PoolTest(pool),
                  !.hco = obs.virt.hco, !.virtHandler = obs.virt.handlerReady,
                  !.stalled = obs.virt.stalled > 0, !.unmigratable = obs.virt.unmigratable > 0,
                  !.cv = VersionTest(obs.cv), !.platformOps = DeployedTest(obs),
                  !.versioned = obs.cv.version # "" \/ obs.kubevirt.observed # "",
                  !.maintenance = obs.maintenance > 0 ]

HealthTest(health) ==
    IF health = "Healthy" THEN "Healthy" ELSE IF health \in {"", "Unknown"} THEN "Unknown" ELSE "Degraded"

=============================================================================
