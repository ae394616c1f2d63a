------------------------ MODULE PlatformAnalysisProofs ------------------------
(***************************************************************************)
(* What the readers, the analyses and the gates of a platform return, for  *)
(* every platform: the lemmas the proofs about the dependency graph and    *)
(* about the agent rest on.                                                *)
(***************************************************************************)
EXTENDS PlatformAnalysis, FiniteSetTheorems, TLAPS

ObsFields == {"operators", "pools", "virt", "cv", "kubevirt", "cdi", "ssp", "maintenance"}

\* The fields of an observation.
LEMMA ObserveParts ==
    ASSUME NEW x, NEW pool
    PROVE  LET o == ObservePlatform(x, pool)
           IN  /\ DOMAIN o = ObsFields /\ IsRecord(o)
               /\ o.virt = readVirtualizationStatus(x) /\ o.operators = x.operators
               /\ o.pools = (LET all == readAllMachineConfigPools(x) IN IF all = <<>> THEN <<pool>> ELSE all)
               /\ o.cv = readClusterVersion(x)
               /\ o.kubevirt = readOperatorStatus(x.kubevirt) /\ o.cdi = readOperatorStatus(x.cdi)
               /\ o.ssp = readOperatorStatus(x.ssp) /\ o.maintenance = readNodeMaintenanceStatus(x)
<1> DEFINE all == readAllMachineConfigPools(x)
           pools == IF all = <<>> THEN <<pool>> ELSE all
           o == ObservePlatform(x, pool)
<1>1. o = [ operators |-> x.operators, pools |-> pools, virt |-> readVirtualizationStatus(x),
            cv |-> readClusterVersion(x), kubevirt |-> readOperatorStatus(x.kubevirt),
            cdi |-> readOperatorStatus(x.cdi), ssp |-> readOperatorStatus(x.ssp),
            maintenance |-> readNodeMaintenanceStatus(x) ]
  BY Zenon DEF ObservePlatform
<1> HIDE DEF pools, o
<1>2. /\ DOMAIN o = ObsFields /\ IsRecord(o)
      /\ o.virt = readVirtualizationStatus(x) /\ o.operators = x.operators /\ o.pools = pools
      /\ o.cv = readClusterVersion(x)
      /\ o.kubevirt = readOperatorStatus(x.kubevirt) /\ o.cdi = readOperatorStatus(x.cdi)
      /\ o.ssp = readOperatorStatus(x.ssp) /\ o.maintenance = readNodeMaintenanceStatus(x)
  BY <1>1 DEF ObsFields, IsRecord
<1> QED BY <1>2, Zenon DEF o, pools

-----------------------------------------------------------------------------
(* The dependency graph.                                                   *)

\* Every set of places has a first one.
LEMMA FirstPlace ==
    ASSUME NEW S, S \subseteq Nat, S # {}
    PROVE  \E i \in S : \A k \in S : i <= k
<1>1. PICK i \in S : \A k \in S : <<k, i>> \notin OpToRel(<, Nat)
  BY NatLessThanWellFounded, WFMin, Zenon
<1>2. \A k \in S : ~(k < i)
  BY <1>1 DEF OpToRel
<1> QED BY <1>2

\* The first stage, in the order of indices, that is not healthy is blamed.
LEMMA FirstIsBlamed ==
    ASSUME NEW stages, NEW indices, DOMAIN indices \subseteq Nat
    PROVE  LET Bad(k) == stages[indices[k]].status # "Healthy"
           IN  \/ /\ \A k \in DOMAIN indices : ~Bad(k)
                  /\ FirstUnhealthy(stages, indices) = <<>>
               \/ \E k \in DOMAIN indices :
                     /\ Bad(k) /\ \A j \in DOMAIN indices : Bad(j) => k <= j
                     /\ FirstUnhealthy(stages, indices) = stages[indices[k]].cause
<1> DEFINE Bad(k) == stages[indices[k]].status # "Healthy"
           bad == {k \in DOMAIN indices : Bad(k)}
           first == CHOOSE k \in bad : \A j \in bad : k <= j
<1>1. FirstUnhealthy(stages, indices) = IF bad = {} THEN <<>> ELSE stages[indices[first]].cause
  BY Zenon DEF FirstUnhealthy
<1>2. CASE bad = {}
  BY <1>1, <1>2, Zenon
<1>3. CASE bad # {}
  <2>1. bad \subseteq Nat
    OBVIOUS
  <2> HIDE DEF bad
  <2>2. first \in bad /\ \A j \in bad : first <= j
    BY <1>3, <2>1, FirstPlace, Zenon
  <2>3. first \in DOMAIN indices /\ Bad(first) /\ \A j \in DOMAIN indices : Bad(j) => first <= j
    BY <2>2, Zenon DEF bad
  <2> HIDE DEF first
  <2> QED BY <1>1, <1>3, <2>3, Zenon
<1> QED BY <1>2, <1>3, Zenon

\* The root cause is the cause of the first stage that is not healthy.
LEMMA RootIsFirst ==
    ASSUME NEW stages, DOMAIN stages = 1 .. 6
    PROVE  LET Bad(i) == stages[i].status # "Healthy"
           IN  \/ (\A i \in 1 .. 6 : ~Bad(i)) /\ RootCause(stages) = <<>>
               \/ \E i \in 1 .. 6 : /\ Bad(i) /\ \A k \in 1 .. 6 : Bad(k) => i <= k
                                    /\ RootCause(stages) = stages[i].cause
<1> DEFINE all == <<1, 2, 3, 4, 5, 6>>
           Bad(i) == stages[i].status # "Healthy"
<1>1. DOMAIN all = 1 .. 6 /\ \A i \in 1 .. 6 : all[i] = i
  OBVIOUS
<1>2. RootCause(stages) = FirstUnhealthy(stages, all)
  BY Zenon DEF RootCause
<1> HIDE DEF all
<1>3. DOMAIN all \subseteq Nat
  BY <1>1
<1>4. \/ /\ \A k \in DOMAIN all : ~Bad(all[k])
         /\ FirstUnhealthy(stages, all) = <<>>
      \/ \E k \in DOMAIN all :
            /\ Bad(all[k]) /\ \A j \in DOMAIN all : Bad(all[j]) => k <= j
            /\ FirstUnhealthy(stages, all) = stages[all[k]].cause
  BY <1>3, FirstIsBlamed, Zenon
<1> QED BY <1>1, <1>2, <1>4, Zenon

\* A page shows some of the objects as they are; all of them when there are few.
LEMMA PageParts ==
    ASSUME NEW f, NEW g \in PagesOf(f)
    PROVE  /\ DOMAIN g \subseteq DOMAIN f /\ \A n \in DOMAIN g : g[n] = f[n]
           /\ Cardinality(DOMAIN f) <= PageLimit => DOMAIN g = DOMAIN f
<1>1. PICK S \in Pages(DOMAIN f) : g = Restrict(f, S)
  BY DEF PagesOf
<1>2. S \subseteq DOMAIN f /\ (Cardinality(DOMAIN f) <= PageLimit => S = DOMAIN f)
  BY DEF Pages, kSubset
<1>3. DOMAIN g = S /\ \A n \in S : g[n] = f[n]
  BY <1>1 DEF Restrict
<1> QED BY <1>2, <1>3

\* What the Lists with a limit return of a cluster.
LEMMA ListedParts ==
    ASSUME NEW c, DOMAIN c = Kinds, NEW l \in Listed(c)
    PROVE  /\ DOMAIN l = Kinds
           /\ \A k \in Kinds \ Limited : l[k] = c[k]
           /\ \A k \in Limited :
                 /\ DOMAIN l[k] \subseteq DOMAIN c[k] /\ \A n \in DOMAIN l[k] : l[k][n] = c[k][n]
                 /\ Cardinality(DOMAIN c[k]) <= PageLimit => DOMAIN l[k] = DOMAIN c[k]
<1>1. PICK p \in PagesOf(c.pools) \X PagesOf(c.maintenance) \X PagesOf(c.migrations) \X PagesOf(c.vmis) :
         l = [c EXCEPT !.pools = p[1], !.maintenance = p[2], !.migrations = p[3], !.vmis = p[4]]
  BY DEF Listed
<1>2. Limited \subseteq Kinds
  BY DEF Limited, Kinds, NoCluster
<1>3. /\ DOMAIN l = Kinds /\ \A k \in Kinds \ Limited : l[k] = c[k]
      /\ l.pools = p[1] /\ l.maintenance = p[2] /\ l.migrations = p[3] /\ l.vmis = p[4]
  BY <1>1, <1>2 DEF Limited
<1>4. \A k \in Limited : l[k] \in PagesOf(c[k])
  BY <1>3 DEF Limited
<1> QED BY <1>3, <1>4, PageParts, Zenon

\* The six stages.
LEMMA StageParts ==
    ASSUME NEW obs
    PROVE  LET s == Stages(obs)
           IN  /\ DOMAIN s = 1 .. 6
               /\ ~obs.cv.progressing /\ obs.cv.available => s[1] = Healthy
               /\ s[1] = Healthy \/ \E x : s[1] = [status |-> x, cause |-> <<"ClusterVersion", "version">>]
                                           /\ x \in {"Updating", "Degraded"}
               /\ s[2] = IF UnsettledPools(obs) = {} THEN Healthy
                         ELSE [ status |-> FirstUnsettled(obs).phase,
                                cause |-> <<"MachineConfigPool", FirstUnsettled(obs).name>> ]
               /\ s[3] = IF \A n \in DOMAIN obs.operators : ~Failed(obs.operators[n]) THEN Healthy
                         ELSE [status |-> "Degraded", cause |-> <<"ClusterOperator", "">>]
               /\ s[4] = IF Unready(obs.kubevirt)
                         THEN [status |-> "Updating", cause |-> <<"KubeVirt", "kubevirt">>]
                         ELSE IF Unready(obs.cdi) THEN [status |-> "Updating", cause |-> <<"CDI", "cdi">>]
                         ELSE IF Unready(obs.ssp) THEN [status |-> "Updating", cause |-> <<"SSP", "ssp">>]
                         ELSE Healthy
               /\ s[5] = IF obs.maintenance > 0
                         THEN [status |-> "Maintenance", cause |-> <<"NodeMaintenance", "active">>]
                         ELSE IF ~obs.virt.handlerReady
                         THEN [status |-> "Degraded", cause |-> <<"DaemonSet", "virt-handler">>]
                         ELSE Healthy
               /\ s[6] = IF obs.virt.stalled > 0
                         THEN [ status |-> "Stalled",
                                cause |-> <<"VirtualMachineInstanceMigration", "stalled">> ]
                         ELSE Healthy
<1> DEFINE s == Stages(obs)
           one == IF obs.cv.progressing
                  THEN [status |-> "Updating", cause |-> <<"ClusterVersion", "version">>]
                  ELSE IF ~obs.cv.available /\ obs.cv.version # ""
                  THEN [status |-> "Degraded", cause |-> <<"ClusterVersion", "version">>]
                  ELSE Healthy
           two == IF UnsettledPools(obs) = {} THEN Healthy
                  ELSE [ status |-> FirstUnsettled(obs).phase,
                         cause |-> <<"MachineConfigPool", FirstUnsettled(obs).name>> ]
           three == IF \A n \in DOMAIN obs.operators : ~Failed(obs.operators[n]) THEN Healthy
                    ELSE [status |-> "Degraded", cause |-> <<"ClusterOperator", "">>]
           four == IF Unready(obs.kubevirt)
                   THEN [status |-> "Updating", cause |-> <<"KubeVirt", "kubevirt">>]
                   ELSE IF Unready(obs.cdi) THEN [status |-> "Updating", cause |-> <<"CDI", "cdi">>]
                   ELSE IF Unready(obs.ssp) THEN [status |-> "Updating", cause |-> <<"SSP", "ssp">>]
                   ELSE Healthy
           five == IF obs.maintenance > 0
                   THEN [status |-> "Maintenance", cause |-> <<"NodeMaintenance", "active">>]
                   ELSE IF ~obs.virt.handlerReady
                   THEN [status |-> "Degraded", cause |-> <<"DaemonSet", "virt-handler">>] ELSE Healthy
           six == IF obs.virt.stalled > 0
                  THEN [ status |-> "Stalled",
                         cause |-> <<"VirtualMachineInstanceMigration", "stalled">> ]
                  ELSE Healthy
<1>1. s = <<one, two, three, four, five, six>>
  BY Zenon DEF Stages
<1>2. ~obs.cv.progressing /\ obs.cv.available => one = Healthy
  BY Zenon
<1>3. one = Healthy \/ \E x : one = [status |-> x, cause |-> <<"ClusterVersion", "version">>]
                              /\ x \in {"Updating", "Degraded"}
  BY Zenon
<1> HIDE DEF s, one, two, three, four, five, six
<1>4. /\ DOMAIN s = 1 .. 6 /\ s[1] = one /\ s[2] = two /\ s[3] = three /\ s[4] = four
      /\ s[5] = five /\ s[6] = six
  BY <1>1
<1> QED BY <1>2, <1>3, <1>4, Zenon DEF s, two, three, four, five, six

\* The pool that is blamed is one that is not settled.
LEMMA UnsettledFound ==
    ASSUME NEW obs, DOMAIN obs.pools \subseteq Nat, UnsettledPools(obs) # {}
    PROVE  \E i \in DOMAIN obs.pools : /\ FirstUnsettled(obs) = obs.pools[i]
                                       /\ obs.pools[i].phase \in {"Updating", "Degraded"}
<1> DEFINE U == UnsettledPools(obs)
           first == CHOOSE i \in U : \A k \in U : i <= k
<1>1. \A i \in U : i \in DOMAIN obs.pools /\ obs.pools[i].phase \in {"Updating", "Degraded"}
  BY Zenon DEF UnsettledPools
<1>2. FirstUnsettled(obs) = obs.pools[first]
  BY Zenon DEF FirstUnsettled
<1> HIDE DEF U
<1>3. U \subseteq Nat /\ U # {}
  BY <1>1, Zenon DEF U
<1>4. first \in U
  BY <1>3, FirstPlace, Zenon
<1> HIDE DEF first
<1> QED BY <1>1, <1>2, <1>4, Zenon

\* A stage is healthy, or it is not and names a resource.
LEMMA StageNamesCause ==
    ASSUME NEW obs, DOMAIN obs.pools \subseteq Nat
    PROVE  \A i \in 1 .. 6 : \/ Stages(obs)[i] = Healthy
                             \/ /\ Stages(obs)[i].status # "Healthy"
                                /\ \E x, y : Stages(obs)[i].cause = <<x, y>>
<1> DEFINE s == Stages(obs)
           Fine(r) == r = Healthy \/ (r.status # "Healthy" /\ \E x, y : r.cause = <<x, y>>)
<1>1. ASSUME NEW x, x # "Healthy", NEW a, NEW b
      PROVE  Fine([status |-> x, cause |-> <<a, b>>])
  BY <1>1
<1>2. /\ "Updating" # "Healthy" /\ "Degraded" # "Healthy" /\ "Maintenance" # "Healthy"
      /\ "Stalled" # "Healthy"
  OBVIOUS
<1>3. UnsettledPools(obs) # {} => FirstUnsettled(obs).phase # "Healthy"
  BY <1>2, UnsettledFound, Zenon
<1>4. Fine(Healthy)
  OBVIOUS
<1> HIDE DEF Fine
<1>5. Fine(s[1])
  BY <1>1, <1>2, <1>4, StageParts, Zenon
<1>6. Fine(s[2])
  BY <1>1, <1>3, <1>4, StageParts, Zenon
<1>7. Fine(s[3])
  BY <1>1, <1>2, <1>4, StageParts, Zenon
<1>8. Fine(s[4])
  BY <1>1, <1>2, <1>4, StageParts, Zenon
<1>9. Fine(s[5])
  BY <1>1, <1>2, <1>4, StageParts, Zenon
<1>10. Fine(s[6])
  BY <1>1, <1>2, <1>4, StageParts, Zenon
<1> HIDE DEF s
<1>11. \A i \in 1 .. 6 : Fine(s[i])
  BY <1>5, <1>6, <1>7, <1>8, <1>9, <1>10
<1> QED BY <1>11, Zenon DEF Fine, s

LEMMA GraphParts ==
    ASSUME NEW obs
    PROVE  LET graph == EvaluatePlatformDependencyGraph(obs)
               root  == RootCause(Stages(obs))
           IN  graph.rootCause = root /\ graph.healthy = (root = <<>>)
<1> DEFINE s == Stages(obs)
           nodes == [j \in DOMAIN s |-> [ status |-> s[j].status,
                                          impactedBy |-> FirstUnhealthy(s, LooksAt[j]) ]]
           healthy == RootCause(s) = <<>>
<1> HIDE DEF s
<1>1. GraphOf(s) = [nodes |-> nodes, rootCause |-> RootCause(s), healthy |-> healthy]
  BY Zenon DEF GraphOf
<1> HIDE DEF nodes, healthy
<1>2. GraphOf(s).rootCause = RootCause(s) /\ GraphOf(s).healthy = healthy
  BY <1>1
<1> QED BY <1>2, Zenon DEF EvaluatePlatformDependencyGraph, s, healthy

\* A DAG that is blocked or degraded has a root cause in the graph.
LEMMA DagHasRoot ==
    ASSUME NEW obs, DOMAIN obs.pools \subseteq Nat, ~EvaluateTopologicalDAG(obs).healthy
    PROVE  ~EvaluatePlatformDependencyGraph(obs).healthy
<1> DEFINE s == Stages(obs)
           mcp == IF UnsettledPools(obs) = {} THEN "Healthy" ELSE FirstUnsettled(obs).phase
           mcd == IF mcp = "Healthy" THEN "Healthy" ELSE "Blocked"
           virt == IF mcd # "Healthy" THEN "Blocked"
                   ELSE IF obs.virt.handlerReady THEN "Healthy" ELSE "Degraded"
           vmim == IF virt # "Healthy" THEN "Blocked"
                   ELSE IF obs.virt.stalled > 0 THEN "Degraded" ELSE "Healthy"
           blocked == \E x \in {mcd, virt, vmim} : x = "Blocked"
           fine == vmim = "Healthy"
<1>1. /\ DOMAIN s = 1 .. 6
      /\ UnsettledPools(obs) # {} => s[2].status = FirstUnsettled(obs).phase
      /\ ~obs.virt.handlerReady => s[5].status \in {"Maintenance", "Degraded"}
      /\ obs.virt.stalled > 0 => s[6].status = "Stalled"
  <2>1. \A x, y : [status |-> x, cause |-> y].status = x
    OBVIOUS
  <2>2. DOMAIN s = 1 .. 6
    BY StageParts, Zenon
  <2>3. UnsettledPools(obs) # {} => s[2].status = FirstUnsettled(obs).phase
    <3>1. UnsettledPools(obs) # {} =>
             s[2] = [ status |-> FirstUnsettled(obs).phase,
                      cause |-> <<"MachineConfigPool", FirstUnsettled(obs).name>> ]
      BY StageParts, Zenon
    <3> QED BY <2>1, <3>1
  <2>4. ~obs.virt.handlerReady => s[5].status \in {"Maintenance", "Degraded"}
    <3>1. ~obs.virt.handlerReady =>
             \/ s[5] = [status |-> "Maintenance", cause |-> <<"NodeMaintenance", "active">>]
             \/ s[5] = [status |-> "Degraded", cause |-> <<"DaemonSet", "virt-handler">>]
      BY StageParts, Zenon
    <3> QED BY <2>1, <3>1
  <2>5. obs.virt.stalled > 0 => s[6].status = "Stalled"
    <3>1. obs.virt.stalled > 0 =>
             s[6] = [ status |-> "Stalled",
                      cause |-> <<"VirtualMachineInstanceMigration", "stalled">> ]
      BY StageParts, Zenon
    <3> QED BY <2>1, <3>1
  <2> QED BY <2>2, <2>3, <2>4, <2>5, Zenon
<1>2. UnsettledPools(obs) # {} => FirstUnsettled(obs).phase \in {"Updating", "Degraded"}
  BY UnsettledFound, Zenon
<1>3. \/ UnsettledPools(obs) # {} \/ ~obs.virt.handlerReady \/ obs.virt.stalled > 0
  <2>1. EvaluateTopologicalDAG(obs) = [states |-> <<mcp, mcd, virt, vmim>>, blocked |-> blocked,
                                       healthy |-> fine]
    BY Zenon DEF EvaluateTopologicalDAG
  <2>2. ~fine
    <3> HIDE DEF fine, blocked, mcp, mcd, virt, vmim
    <3>1. EvaluateTopologicalDAG(obs).healthy = fine
      BY <2>1
    <3> QED BY <3>1, Zenon
  <2> QED BY <2>2, Zenon
<1> HIDE DEF s
<1>4. \E i \in 1 .. 6 : s[i].status # "Healthy"
  <2>1. CASE UnsettledPools(obs) # {}
    <3>1. s[2].status # "Healthy"
      BY <1>1, <1>2, <2>1
    <3> QED BY <3>1
  <2>2. CASE ~obs.virt.handlerReady
    <3>1. s[5].status # "Healthy"
      BY <1>1, <2>2
    <3> QED BY <3>1
  <2>3. CASE obs.virt.stalled > 0
    <3>1. s[6].status # "Healthy"
      BY <1>1, <2>3
    <3> QED BY <3>1
  <2> QED BY <1>3, <2>1, <2>2, <2>3
<1>5. PICK i \in 1 .. 6 : s[i].status # "Healthy" /\ RootCause(s) = s[i].cause
  BY <1>1, <1>4, RootIsFirst, Zenon
<1>6. PICK x, y : s[i].cause = <<x, y>>
  <2>1. Healthy.status = "Healthy"
    BY DEF Healthy
  <2> QED BY <1>5, <2>1, StageNamesCause, Zenon DEF s
<1>7. RootCause(s) # <<>>
  BY <1>5, <1>6
<1>8. EvaluatePlatformDependencyGraph(obs).healthy = (RootCause(s) = <<>>)
  BY GraphParts, Zenon DEF s
<1> QED BY <1>7, <1>8, Zenon

-----------------------------------------------------------------------------
(* The gates of a window all of whose applications have the same one row.  *)

\* The applications can be put in an order.
LEMMA OrdersExist == Orders # {}
<1>1. PICK f \in Bijection(1 .. Cardinality(Apps), Apps) : TRUE
  BY FS_CardinalityType, GatesAssumption DEF ExistsBijection
<1>2. f \in [1 .. Cardinality(Apps) -> Apps] /\ \A a \in Apps : \E i \in 1 .. Cardinality(Apps) : f[i] = a
  BY <1>1 DEF Bijection, Injection, Surjection
<1>3. f \in Orders
  BY <1>2 DEF Orders
<1> QED BY <1>3

OneRow(row) == [a \in Apps |-> [known |-> TRUE, rows |-> <<row>>]]

LEMMA OneRowPlaces ==
    ASSUME Apps # {}, NEW row, NEW order \in Orders
    PROVE  /\ RowsOf(OneRow(row)) = {row}
           /\ \E last \in Places(OneRow(row), order) :
                 \A q \in Places(OneRow(row), order) : LaterOrSame(last, q)
           /\ \A p \in Places(OneRow(row), order) : RowAt(OneRow(row), order, p) = row
<1> DEFINE st == OneRow(row)
           n == Cardinality(Apps)
<1>1. /\ \A a \in Apps : st[a].rows = <<row>>
  BY DEF OneRow
<1>2. DOMAIN <<row>> = {1} /\ <<row>>[1] = row
  OBVIOUS
<1>3. n \in Nat /\ n # 0
  BY FS_CardinalityType, FS_EmptySet, GatesAssumption
<1>4. DOMAIN order = 1 .. n /\ \A i \in 1 .. n : order[i] \in Apps
  BY DEF Orders
<1> HIDE DEF st
<1>5. RowsOf(st) = {row}
  BY <1>1, <1>2 DEF RowsOf
<1>6. Places(st, order) = {<<i, 1>> : i \in 1 .. n}
  BY <1>1, <1>2, <1>4 DEF Places
<1>7. \A p \in Places(st, order) : RowAt(st, order, p) = row
  BY <1>1, <1>2, <1>4, <1>6 DEF RowAt
<1>8. <<n, 1>> \in Places(st, order) /\ \A q \in Places(st, order) : LaterOrSame(<<n, 1>>, q)
  BY <1>3, <1>6 DEF LaterOrSame
<1> QED BY <1>5, <1>7, <1>8 DEF st

\* When every place says the same, the last one says it.
LEMMA LastOfSame ==
    ASSUME NEW P, NEW last \in P, \A q \in P : LaterOrSame(last, q),
           NEW W, NEW G, NEW a \in BOOLEAN, NEW b \in BOOLEAN, b => a,
           W = (IF a THEN P ELSE {}), G = (IF b THEN P ELSE {})
    PROVE  LastWriter(W, G) = GateOf(a, ~b)
<1> DEFINE not == \A p \in W : (\A q \in W : LaterOrSame(p, q)) => p \notin G
<1>1. LastWriter(W, G) = GateOf(W # {}, not)
  BY Zenon DEF LastWriter
<1>2. CASE a /\ b
  <2>1. W # {} /\ ~not
    BY <1>2
  <2> HIDE DEF not
  <2> QED BY <1>1, <1>2, <2>1 DEF GateOf
<1>3. CASE a /\ ~b
  <2>1. W # {} /\ not
    BY <1>3
  <2> HIDE DEF not
  <2> QED BY <1>1, <1>3, <2>1 DEF GateOf
<1>4. CASE ~a
  <2>1. W = {}
    BY <1>4
  <2> HIDE DEF not
  <2> QED BY <1>1, <1>4, <2>1 DEF GateOf
<1> QED BY <1>2, <1>3, <1>4

\* The six gates that look at the platform.
LEMMA OneRowGates ==
    ASSUME Apps # {}, NEW row, NEW order \in Orders
    PROVE  LET g == GateResults(OneRow(row), order)
               o == row.obs
           IN  /\ g["ClusterOperatorsHealthy"] = GateOf(o.ops # "none", o.ops = "bad")
               /\ g["MCPUpdatedOnTime"] = GateOf(o.mcp # "none", o.mcp \notin {"none", "ok"})
               /\ g["VirtImpactPassed"] = GateOf(o.hco # "Unknown", VirtUnhealthy(o))
               /\ g["NoActiveNodeMaintenance"] = GateOf(TRUE, o.maintenance = TRUE)
               /\ g["ClusterVersionStable"] =
                     GateOf(o.cv \in {"progressing", "available", "unavailable"}, o.cv # "available")
               /\ g["PlatformOperatorsDeployed"] =
                     GateOf(o.platformOps \in {"deployed", "partial"}, o.platformOps # "deployed")
<1> DEFINE st == OneRow(row)
           o == row.obs
           R == RowsOf(st)
           P == Places(st, order)
           g == GateResults(st, order)
<1>1. /\ R = {row}
      /\ \E last \in P : \A q \in P : LaterOrSame(last, q)
      /\ \A p \in P : RowAt(st, order, p) = row
  BY OneRowPlaces, Zenon
<1>2. PICK last \in P : \A q \in P : LaterOrSame(last, q)
  BY <1>1
<1>3. /\ g["ClusterOperatorsHealthy"] = ClusterOperatorsHealthy(R)
      /\ g["MCPUpdatedOnTime"] = MCPUpdatedOnTime(R)
      /\ g["VirtImpactPassed"] = VirtImpactPassed(R)
      /\ g["NoActiveNodeMaintenance"] = NoActiveNodeMaintenance(R)
      /\ g["ClusterVersionStable"] = ClusterVersionStable(st, order)
      /\ g["PlatformOperatorsDeployed"] = PlatformOperatorsDeployed(st, order)
  <2> HIDE DEF st
  <2> QED BY DEF GateResults
<1> HIDE DEF st, R, P, g
<1>4. ClusterOperatorsHealthy(R) = GateOf(o.ops # "none", o.ops = "bad")
  <2>1. (\E r \in R : r.obs.ops # "none") = (o.ops # "none")
        /\ (\E r \in R : r.obs.ops = "bad") = (o.ops = "bad")
    BY <1>1
  <2> QED BY <2>1, Zenon DEF ClusterOperatorsHealthy
<1>5. MCPUpdatedOnTime(R) = GateOf(o.mcp # "none", o.mcp \notin {"none", "ok"})
  <2>1. (\E r \in R : r.obs.mcp # "none") = (o.mcp # "none")
        /\ (\E r \in R : r.obs.mcp \notin {"none", "ok"}) = (o.mcp \notin {"none", "ok"})
    BY <1>1
  <2> QED BY <2>1, Zenon DEF MCPUpdatedOnTime
<1>6. VirtImpactPassed(R) = GateOf(o.hco # "Unknown", VirtUnhealthy(o))
  <2>1. (\E r \in R : r.obs.hco # "Unknown") = (o.hco # "Unknown")
    BY <1>1
  <2>2. (\E r \in R : VirtUnhealthy(r.obs)) = VirtUnhealthy(o)
    BY <1>1 DEF VirtUnhealthy
  <2> QED BY <2>1, <2>2, Zenon DEF VirtImpactPassed
<1>7. NoActiveNodeMaintenance(R) = GateOf(TRUE, o.maintenance = TRUE)
  <2>1. (\E r \in R : r.obs.maintenance) = (o.maintenance = TRUE)
    BY <1>1, Zenon
  <2> QED BY <2>1, Zenon DEF NoActiveNodeMaintenance
<1>8. ClusterVersionStable(st, order) =
         GateOf(o.cv \in {"progressing", "available", "unavailable"}, o.cv # "available")
  <2> DEFINE Saying(S) == {p \in P : RowAt(st, order, p).obs.cv \in S}
             all == {"progressing", "available", "unavailable"}
             W == Saying(all)
             G == Saying({"available"})
             a == o.cv \in all
             b == o.cv \in {"available"}
  <2>1. ClusterVersionStable(st, order) = LastWriter(W, G)
    BY Zenon DEF ClusterVersionStable, P
  <2>2. W = (IF a THEN P ELSE {}) /\ G = (IF b THEN P ELSE {})
    BY <1>1
  <2>3. a \in BOOLEAN /\ b \in BOOLEAN /\ (b => a) /\ (~b) = (o.cv # "available")
    OBVIOUS
  <2> HIDE DEF W, G, a, b
  <2>4. LastWriter(W, G) = GateOf(a, ~b)
    BY <1>2, <2>2, <2>3, LastOfSame
  <2> QED BY <2>1, <2>3, <2>4, Zenon DEF a
<1>9. PlatformOperatorsDeployed(st, order) =
         GateOf(o.platformOps \in {"deployed", "partial"}, o.platformOps # "deployed")
  <2> DEFINE Saying(S) == {p \in P : RowAt(st, order, p).obs.platformOps \in S}
             all == {"deployed", "partial"}
             W == Saying(all)
             G == Saying({"deployed"})
             a == o.platformOps \in all
             b == o.platformOps \in {"deployed"}
  <2>1. PlatformOperatorsDeployed(st, order) = LastWriter(W, G)
    BY Zenon DEF PlatformOperatorsDeployed, P
  <2>2. W = (IF a THEN P ELSE {}) /\ G = (IF b THEN P ELSE {})
    BY <1>1
  <2>3. a \in BOOLEAN /\ b \in BOOLEAN /\ (b => a) /\ (~b) = (o.platformOps # "deployed")
    OBVIOUS
  <2> HIDE DEF W, G, a, b
  <2>4. LastWriter(W, G) = GateOf(a, ~b)
    BY <1>2, <2>2, <2>3, LastOfSame
  <2> QED BY <2>1, <2>3, <2>4, Zenon DEF a
<1> QED BY <1>3, <1>4, <1>5, <1>6, <1>7, <1>8, <1>9, Zenon DEF g, st

-----------------------------------------------------------------------------
(* What the gates see of a report.                                         *)

LEMMA SeenParts ==
    ASSUME NEW rest, DOMAIN rest = DOMAIN EmptyObservation, NEW pool, NEW obs
    PROVE  LET seen == PlatformSeen(rest, pool, obs)
           IN  /\ seen.ops = OperatorsTest(obs.operators) /\ seen.mcp = PoolTest(pool)
               /\ seen.hco = obs.virt.hco /\ seen.virtHandler = obs.virt.handlerReady
               /\ seen.stalled = (obs.virt.stalled > 0)
               /\ seen.unmigratable = (obs.virt.unmigratable > 0)
               /\ seen.cv = VersionTest(obs.cv) /\ seen.platformOps = DeployedTest(obs)
               /\ seen.maintenance = (obs.maintenance > 0)
               /\ seen.depsUnready = rest.depsUnready
<1> DEFINE seen == PlatformSeen(rest, pool, obs)
           ops == OperatorsTest(obs.operators)
           mcp == PoolTest(pool)
           stalled == obs.virt.stalled > 0
           pinned == obs.virt.unmigratable > 0
           version == VersionTest(obs.cv)
           deployed == DeployedTest(obs)
           named == obs.cv.version # "" \/ obs.kubevirt.observed # ""
           active == obs.maintenance > 0
<1>1. seen = [ rest EXCEPT !.ops = ops, !.mcp = mcp, !.hco = obs.virt.hco,
                           !.virtHandler = obs.virt.handlerReady, !.stalled = stalled,
                           !.unmigratable = pinned, !.cv = version, !.platformOps = deployed,
                           !.versioned = named, !.maintenance = active ]
  BY Zenon DEF PlatformSeen
<1> HIDE DEF seen, ops, mcp, stalled, pinned, version, deployed, named, active
<1>2. /\ seen.ops = ops /\ seen.mcp = mcp /\ seen.hco = obs.virt.hco
      /\ seen.virtHandler = obs.virt.handlerReady /\ seen.stalled = stalled
      /\ seen.unmigratable = pinned /\ seen.cv = version /\ seen.platformOps = deployed
      /\ seen.maintenance = active /\ seen.depsUnready = rest.depsUnready
  BY <1>1 DEF EmptyObservation
<1> QED BY <1>2, Zenon DEF seen, ops, mcp, stalled, pinned, version, deployed, active

LEMMA GatePasses == ASSUME NEW a, NEW b PROVE GateOf(a, b) = "True" <=> (a /\ ~b)
<1>1. "Unknown" # "True" /\ "False" # "True"
  OBVIOUS
<1> QED BY <1>1, Zenon DEF GateOf

LEMMA GateFails == ASSUME NEW a, NEW b, a, b PROVE GateOf(a, b) = "False"
BY Zenon DEF GateOf

\* A count is positive when something is counted.
LEMMA CountPositive ==
    ASSUME NEW S, NEW T, IsFiniteSet(T), S \subseteq T
    PROVE  Cardinality(S) > 0 <=> S # {}
<1>1. IsFiniteSet(S)
  BY FS_Subset
<1>2. Cardinality(S) \in Nat /\ (Cardinality(S) = 0 <=> S = {})
  BY <1>1, FS_CardinalityType, FS_EmptySet
<1> QED BY <1>2

\* The tests, in terms of the objects.
LEMMA VersionAvailable ==
    ASSUME NEW c, c.cv # None => c.cv.desired # ""
    PROVE  VersionTest(readClusterVersion(c)) = "available"
              <=> c.cv # None /\ c.cv.available /\ ~c.cv.progressing
<1> DEFINE v == readClusterVersion(c)
<1>1. "none" # "available" /\ "progressing" # "available" /\ "unavailable" # "available"
  OBVIOUS
<1>2. CASE c.cv = None
  <2>1. v.version = "" /\ v.desired = ""
    BY <1>2, Zenon DEF readClusterVersion
  <2>2. VersionTest(v) = "none"
    BY <2>1, Zenon DEF VersionTest
  <2> QED BY <1>1, <1>2, <2>2, Zenon
<1>3. CASE c.cv # None
  <2>1. v = c.cv
    BY <1>3, Zenon DEF readClusterVersion
  <2>2. VersionTest(v) = IF v.progressing THEN "progressing"
                         ELSE IF v.available THEN "available" ELSE "unavailable"
    BY <1>3, <2>1, Zenon DEF VersionTest
  <2> QED BY <1>1, <1>3, <2>1, <2>2, Zenon
<1> QED BY <1>2, <1>3

LEMMA AllDeployed ==
    ASSUME NEW c, NEW pool
    PROVE  DeployedTest(ObservePlatform(c, pool)) = "deployed"
              <=> \A op \in {c.kubevirt, c.cdi, c.ssp} : op # None /\ op.phase = "Deployed"
<1> DEFINE o == ObservePlatform(c, pool)
<1>1. /\ o.kubevirt = readOperatorStatus(c.kubevirt) /\ o.cdi = readOperatorStatus(c.cdi)
      /\ o.ssp = readOperatorStatus(c.ssp)
  BY ObserveParts, Zenon
<1>2. \A op : /\ readOperatorStatus(op).ready <=> (op # None /\ op.phase = "Deployed")
              /\ op # None => readOperatorStatus(op).phase = op.phase
  <2> SUFFICES ASSUME NEW op
               PROVE  /\ readOperatorStatus(op).ready <=> (op # None /\ op.phase = "Deployed")
                      /\ op # None => readOperatorStatus(op).phase = op.phase
    OBVIOUS
  <2>1. CASE op = None
    <3>1. readOperatorStatus(op).ready = FALSE
      BY <2>1, Zenon DEF readOperatorStatus
    <3> QED BY <2>1, <3>1, Zenon
  <2>2. CASE op # None
    <3>1. /\ readOperatorStatus(op).ready = (op.phase = "Deployed")
          /\ readOperatorStatus(op).phase = op.phase
      BY <2>2, Zenon DEF readOperatorStatus
    <3> QED BY <2>2, <3>1, Zenon
  <2> QED BY <2>1, <2>2
<1> HIDE DEF o
<1>3. DeployedTest(o) = "deployed" <=> o.kubevirt.phase \notin {"", "Unknown"}
                                       /\ o.kubevirt.ready /\ o.cdi.ready /\ o.ssp.ready
  <2>1. "none" # "deployed" /\ "partial" # "deployed"
    OBVIOUS
  <2> QED BY <2>1, Zenon DEF DeployedTest
<1>4. "Deployed" \notin {"", "Unknown"}
  BY Zenon
<1>5. o.kubevirt.ready => o.kubevirt.phase \notin {"", "Unknown"}
  <2>1. readOperatorStatus(c.kubevirt).ready => readOperatorStatus(c.kubevirt).phase = "Deployed"
    BY <1>2, Zenon
  <2>2. o.kubevirt.ready => o.kubevirt.phase = "Deployed"
    BY <1>1, <2>1, Zenon
  <2> QED BY <1>4, <2>2, Zenon
<1>6. DeployedTest(o) = "deployed" <=> o.kubevirt.ready /\ o.cdi.ready /\ o.ssp.ready
  BY <1>3, <1>5, Zenon
<1>7. DeployedTest(o) = "deployed"
         <=> \A op \in {c.kubevirt, c.cdi, c.ssp} : op # None /\ op.phase = "Deployed"
  <2> DEFINE In(op) == op # None /\ op.phase = "Deployed"
  <2>1. /\ o.kubevirt.ready <=> In(c.kubevirt)
        /\ o.cdi.ready <=> In(c.cdi)
        /\ o.ssp.ready <=> In(c.ssp)
    <3>1. /\ readOperatorStatus(c.kubevirt).ready <=> In(c.kubevirt)
          /\ readOperatorStatus(c.cdi).ready <=> In(c.cdi)
          /\ readOperatorStatus(c.ssp).ready <=> In(c.ssp)
      BY <1>2, Zenon
    <3> HIDE DEF In
    <3> QED BY <1>1, <3>1, Zenon
  <2> HIDE DEF In
  <2>2. DeployedTest(o) = "deployed" <=> \A op \in {c.kubevirt, c.cdi, c.ssp} : In(op)
    BY <1>6, <2>1, Zenon
  <2> QED BY <2>2, Zenon DEF In
<1> QED BY <1>7, Zenon DEF o

CountsTyped(p) == /\ p.machines \in Nat /\ p.ready \in Nat /\ p.updated \in Nat
                  /\ p.unavailable \in Nat /\ p.degraded \in Nat

\* The fields of a pool's status.
LEMMA PoolParts ==
    ASSUME NEW name, NEW p
    PROVE  LET q == PoolStatus(name, p)
           IN  /\ q.name = name /\ q.machines = p.machines /\ q.ready = p.ready
               /\ q.updated = p.updated /\ q.unavailable = p.unavailable
               /\ q.degraded = p.degraded /\ q.aligned = p.aligned /\ q.phase = PoolPhase(p)
               /\ q.updating = IF p.machines > p.updated THEN p.machines - p.updated ELSE 0
<1> DEFINE updating == IF p.machines > p.updated THEN p.machines - p.updated ELSE 0
           q == PoolStatus(name, p)
<1>1. q = [ name |-> name, machines |-> p.machines, ready |-> p.ready, updated |-> p.updated,
            updating |-> updating, unavailable |-> p.unavailable, degraded |-> p.degraded,
            aligned |-> p.aligned, phase |-> PoolPhase(p) ]
  BY Zenon DEF PoolStatus
<1> HIDE DEF q, updating
<1>2. /\ q.name = name /\ q.machines = p.machines /\ q.ready = p.ready
      /\ q.updated = p.updated /\ q.unavailable = p.unavailable
      /\ q.degraded = p.degraded /\ q.aligned = p.aligned /\ q.phase = PoolPhase(p)
      /\ q.updating = updating
  BY <1>1
<1> QED BY <1>2, Zenon DEF q, updating

LEMMA PoolPhases ==
    ASSUME NEW p, CountsTyped(p)
    PROVE  /\ PoolPhase(p) \in {"Degraded", "Updating", "Updated"}
           /\ PoolPhase(p) = "Updated" <=> /\ p.updated >= p.machines /\ p.ready >= p.machines
                                           /\ p.unavailable = 0 /\ p.degraded = 0
BY DEF PoolPhase, CountsTyped

\* A pool passes its test when it has converged.
LEMMA PoolPasses ==
    ASSUME NEW name, NEW p, CountsTyped(p)
    PROVE  PoolTest(PoolStatus(name, p)) = "ok"
              <=> PoolPhase(p) = "Updated" /\ p.aligned
<1> DEFINE q == PoolStatus(name, p)
<1>1. /\ q.machines = p.machines /\ q.ready = p.ready /\ q.unavailable = p.unavailable
      /\ q.degraded = p.degraded /\ q.aligned = p.aligned /\ q.phase = PoolPhase(p)
      /\ q.updating = IF p.machines > p.updated THEN p.machines - p.updated ELSE 0
  BY PoolParts
<1> HIDE DEF q
<1>2. CASE PoolPhase(p) = "Updated"
  <2>1. /\ ~(q.phase = "Degraded" \/ q.degraded > 0)
        /\ ~(q.phase = "Updating" \/ q.updating > 0 \/ q.unavailable > 0)
        /\ ~(q.machines > 0 /\ q.ready < q.machines)
    BY <1>1, <1>2, PoolPhases DEF CountsTyped
  <2>2. PoolTest(q) = IF ~q.aligned THEN "mismatch" ELSE "ok"
    BY <2>1, Zenon DEF PoolTest
  <2>3. "mismatch" # "ok"
    OBVIOUS
  <2> QED BY <1>1, <1>2, <2>2, <2>3, Zenon DEF q
<1>3. CASE PoolPhase(p) # "Updated"
  <2>1. q.phase = "Degraded" \/ q.phase = "Updating"
    BY <1>1, <1>3, PoolPhases
  <2>2. PoolTest(q) \in {"degraded", "updating"}
    BY <2>1, Zenon DEF PoolTest
  <2>3. PoolTest(q) # "ok"
    BY <2>2
  <2> QED BY <1>3, <2>3, Zenon DEF q
<1> QED BY <1>2, <1>3

LEMMA PoolTests == \A q : PoolTest(q) \in {"degraded", "updating", "notReady", "mismatch", "ok"}
BY Zenon DEF PoolTest

\* The application's pool is one of the cluster's, or unknown.
LEMMA AppPoolParts ==
    ASSUME NEW c, NEW label
    PROVE  LET q == readMachineConfigPool(c, label)
           IN  \/ q.name \in DOMAIN c.pools /\ q = PoolStatus(q.name, c.pools[q.name])
               \/ q.name \notin DOMAIN c.pools /\ q = UnknownPool(q.name)
<1> DEFINE name == PoolName(DOMAIN c.pools, label)
           q == readMachineConfigPool(c, label)
<1>1. q = IF name \in DOMAIN c.pools THEN PoolStatus(name, c.pools[name]) ELSE UnknownPool(name)
  BY Zenon DEF readMachineConfigPool, PoolNamed
<1> HIDE DEF name, q
<1>2. q.name = name
  <2>1. PoolStatus(name, c.pools[name]).name = name
    BY PoolParts, Zenon
  <2>2. UnknownPool(name).name = name
    BY DEF UnknownPool
  <2> QED BY <1>1, <2>1, <2>2, Zenon
<1>3. \/ q.name \in DOMAIN c.pools /\ q = PoolStatus(q.name, c.pools[q.name])
      \/ q.name \notin DOMAIN c.pools /\ q = UnknownPool(q.name)
  BY <1>1, <1>2, Zenon
<1> QED BY <1>3, Zenon DEF q

LEMMA UnknownPasses == ASSUME NEW name PROVE PoolTest(UnknownPool(name)) = "ok"
<1> DEFINE q == UnknownPool(name)
<1>1. /\ q.phase = "Unknown" /\ q.degraded = 0 /\ q.updating = 0 /\ q.unavailable = 0
      /\ q.machines = 0 /\ q.aligned = TRUE
  BY DEF UnknownPool
<1> HIDE DEF q
<1>2. PoolTest(q) = "ok"
  BY <1>1 DEF PoolTest
<1> QED BY <1>2, Zenon DEF q

\* What is read of the virtualization.
LEMMA VirtParts ==
    ASSUME NEW c, c.hco \in {"absent", "ok", "degraded"},
           \A n \in DOMAIN c.handlers : c.handlers[n].desired \in Nat /\ c.handlers[n].ready \in Nat,
           IsFiniteSet(DOMAIN c.migrations), IsFiniteSet(DOMAIN c.vmis)
    PROVE  LET v == readVirtualizationStatus(c)
           IN  /\ v.hco = "Healthy" <=> c.hco = "ok"
               /\ v.hco \in {"Healthy", "Unknown", "Degraded"}
               /\ v.handlerReady <=> \A n \in DOMAIN c.handlers : c.handlers[n].ready >= c.handlers[n].desired
               /\ v.stalled > 0 <=> \E n \in DOMAIN c.migrations : c.migrations[n].stalled
               /\ v.unmigratable > 0 <=> \E n \in DOMAIN c.vmis : ~(c.vmis[n].migratable /\ ~c.vmis[n].passthrough)
<1> DEFINE v == readVirtualizationStatus(c)
           unready == {n \in DOMAIN c.handlers :
                         c.handlers[n].desired > 0 /\ c.handlers[n].ready < c.handlers[n].desired}
           migrating == {n \in DOMAIN c.migrations : c.migrations[n].phase \in ActivePhases}
           stalled == {n \in DOMAIN c.migrations : c.migrations[n].stalled}
           pinned == {n \in DOMAIN c.vmis : ~c.vmis[n].migratable \/ c.vmis[n].passthrough}
           hco == CASE c.hco = "absent" -> "Unknown" [] c.hco = "degraded" -> "Degraded"
                    [] OTHER -> "Healthy"
           ready == unready = {}
<1>1. v = [ hco |-> hco, handlerReady |-> ready, active |-> Cardinality(migrating),
            stalled |-> Cardinality(stalled), unmigratable |-> Cardinality(pinned) ]
  BY Zenon DEF readVirtualizationStatus
<1>2. /\ hco = "Healthy" <=> c.hco = "ok"
      /\ hco \in {"Healthy", "Unknown", "Degraded"}
  OBVIOUS
<1>3. ready <=> \A n \in DOMAIN c.handlers : c.handlers[n].ready >= c.handlers[n].desired
  OBVIOUS
<1>4. Cardinality(stalled) > 0 <=> \E n \in DOMAIN c.migrations : c.migrations[n].stalled
  <2>1. Cardinality(stalled) > 0 <=> stalled # {}
    BY CountPositive
  <2> QED BY <2>1, Zenon
<1>5. Cardinality(pinned) > 0
         <=> \E n \in DOMAIN c.vmis : ~(c.vmis[n].migratable /\ ~c.vmis[n].passthrough)
  <2>1. Cardinality(pinned) > 0 <=> pinned # {}
    BY CountPositive
  <2> QED BY <2>1, Zenon
<1> HIDE DEF v, hco, ready, migrating, stalled, pinned
<1>6. /\ v.hco = hco /\ v.handlerReady = ready /\ v.stalled = Cardinality(stalled)
      /\ v.unmigratable = Cardinality(pinned)
  BY <1>1
<1> QED BY <1>2, <1>3, <1>4, <1>5, <1>6, Zenon DEF v

\* A NodeMaintenance that is running, or has no phase yet, is counted.
LEMMA MaintenanceCounted ==
    ASSUME NEW c, IsFiniteSet(DOMAIN c.maintenance)
    PROVE  readNodeMaintenanceStatus(c) > 0
              <=> \E n \in DOMAIN c.maintenance : c.maintenance[n] \in {"Running", ""}
<1> DEFINE active == {n \in DOMAIN c.maintenance : c.maintenance[n] \in {"Running", ""}}
<1>1. readNodeMaintenanceStatus(c) = Cardinality(active)
  BY Zenon DEF readNodeMaintenanceStatus, Count
<1>2. active # {} <=> \E n \in DOMAIN c.maintenance : c.maintenance[n] \in {"Running", ""}
  BY Zenon
<1>3. active \subseteq DOMAIN c.maintenance
  BY Zenon
<1> HIDE DEF active
<1>4. Cardinality(active) > 0 <=> active # {}
  BY <1>3, CountPositive
<1> QED BY <1>1, <1>2, <1>4, Zenon

\* The places of a report's pools.
LEMMA PoolPlaces ==
    ASSUME NEW c, NEW pool
    PROVE  LET pools == ObservePlatform(c, pool).pools
           IN  /\ DOMAIN pools \subseteq Nat
               /\ \A i \in DOMAIN pools :
                     \/ pools[i] = pool
                     \/ \E n \in DOMAIN c.pools : pools[i] = PoolStatus(n, c.pools[n])
<1> DEFINE all == readAllMachineConfigPools(c)
           pools == ObservePlatform(c, pool).pools
<1>1. pools = IF all = <<>> THEN <<pool>> ELSE all
  BY ObserveParts, Zenon
<1>2. /\ DOMAIN all \subseteq Nat
      /\ \A i \in DOMAIN all : \E n \in DOMAIN c.pools : all[i] = PoolStatus(n, c.pools[n])
  BY PoolAssumption DEF readAllMachineConfigPools
<1>3. DOMAIN <<pool>> = {1} /\ <<pool>>[1] = pool
  OBVIOUS
<1> HIDE DEF all, pools
<1>4. /\ DOMAIN pools \subseteq Nat
      /\ \A i \in DOMAIN pools :
            \/ pools[i] = pool
            \/ \E n \in DOMAIN c.pools : pools[i] = PoolStatus(n, c.pools[n])
  BY <1>1, <1>2, <1>3
<1> QED BY <1>4, Zenon DEF pools

\* An operator that fails the ordering check is one of the operators that fail.
LEMMA OrderingFails ==
    ASSUME NEW operators, ~EvaluateClusterOperatorOrdering(operators).passed
    PROVE  OperatorsTest(operators) = "bad"
<1> DEFINE There(n) == n \in DOMAIN operators
           failed == {i \in DOMAIN OperatorOrder :
                        There(OperatorOrder[i]) /\ Failed(operators[OperatorOrder[i]])}
<1>1. failed # {}
  <2> SUFFICES ASSUME failed = {} PROVE FALSE
    OBVIOUS
  <2>1. EvaluateClusterOperatorOrdering(operators) = [passed |-> TRUE, failed |-> "", impacted |-> <<>>]
    BY Zenon DEF EvaluateClusterOperatorOrdering
  <2>2. \A x, y : [passed |-> TRUE, failed |-> x, impacted |-> y].passed = TRUE
    OBVIOUS
  <2>3. EvaluateClusterOperatorOrdering(operators).passed = TRUE
    BY <2>1, <2>2, Zenon
  <2> QED BY <2>3, Zenon
<1>2. \E n \in DOMAIN operators : Failed(operators[n])
  BY <1>1, Zenon
<1> QED BY <1>2, Zenon DEF OperatorsTest

\* A roll-out that is not converged fails the test on the pool.
LEMMA RolloutFails ==
    ASSUME NEW c, NEW label, \A n \in DOMAIN c.pools : CountsTyped(c.pools[n]), NEW elapsed,
           LET pool == readMachineConfigPool(c, label)
           IN  PredictMCPConvergence(pool, elapsed).verdict # "converged"
    PROVE  PoolTest(readMachineConfigPool(c, label)) # "ok"
<1> DEFINE pool == readMachineConfigPool(c, label)
           p == c.pools[pool.name]
<1>1. pool.phase # "Updated" /\ pool.updating # 0
  <2>1. [verdict |-> "converged", eta |-> 0].verdict = "converged"
    OBVIOUS
  <2> HIDE DEF pool
  <2>2. pool.phase = "Updated" \/ pool.updating = 0 =>
           PredictMCPConvergence(pool, elapsed) = [verdict |-> "converged", eta |-> 0]
    BY Zenon DEF PredictMCPConvergence
  <2> QED BY <2>1, <2>2, Zenon DEF pool
<1>2. \/ pool.name \in DOMAIN c.pools /\ pool = PoolStatus(pool.name, p)
      \/ pool = UnknownPool(pool.name)
  BY AppPoolParts, Zenon
<1>3. pool # UnknownPool(pool.name)
  <2>1. UnknownPool(pool.name).updating = 0
    BY DEF UnknownPool
  <2> QED BY <1>1, <2>1, Zenon
<1>4. CountsTyped(p)
  BY <1>2, <1>3, Zenon
<1>5. pool.phase = PoolPhase(p)
  <2> HIDE DEF pool, p
  <2>1. PoolStatus(pool.name, p).phase = PoolPhase(p)
    BY PoolParts
  <2> QED BY <1>2, <1>3, <2>1, Zenon
<1>6. ~(PoolTest(PoolStatus(pool.name, p)) = "ok")
  BY <1>1, <1>4, <1>5, PoolPasses, Zenon
<1> QED BY <1>2, <1>3, <1>6, Zenon

=============================================================================
