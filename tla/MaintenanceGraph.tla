--------------------------- MODULE MaintenanceGraph ---------------------------
(***************************************************************************)
(* The platform of a cluster while it is maintained, and the typed         *)
(* dependency graph that is evaluated against it: EvaluateCausalChain      *)
(* visits the nodes in the random order of a Go map and asks, for each     *)
(* node, the evaluators of its parents; the first one that fails ends the  *)
(* evaluation with an error that names the parent and the child.  The      *)
(* platform changes, and reads fail, between the evaluators.               *)
(*                                                                         *)
(* The analyses of PlatformAnalysis are checked on the same platform.      *)
(***************************************************************************)
EXTENDS PlatformAnalysis

CONSTANTS
    Values,     \* Values[k]: the states the objects of kind k may be in; Values[k][1] is normal
    MaxFaults,  \* bound: kinds that are not normal at a time
    Failures    \* sets of kinds whose reads may fail together

Normal == [k \in Kinds |-> Values[k][1]]

ASSUME GraphAssumption ==
    /\ \A k \in Kinds : 1 \in DOMAIN Values[k]
    /\ MaxFaults \in Nat
    /\ Failures \subseteq SUBSET Kinds

\* What the objects may look like: counts are not negative, a ClusterVersion names
\* the version it wants, and there are finitely many objects of a kind.
ValuesOf(k) == {Values[k][i] : i \in DOMAIN Values[k]}

ASSUME ObjectsAssumption ==
    /\ \A pools \in ValuesOf("pools") : \A n \in DOMAIN pools :
          /\ pools[n].machines \in Nat /\ pools[n].ready \in Nat /\ pools[n].updated \in Nat
          /\ pools[n].unavailable \in Nat /\ pools[n].degraded \in Nat
    /\ \A cv \in ValuesOf("cv") : cv # None => cv.desired # ""
    /\ ValuesOf("hco") \subseteq {"absent", "ok", "degraded"}
    /\ \A handlers \in ValuesOf("handlers") : \A n \in DOMAIN handlers :
          handlers[n].desired \in Nat /\ handlers[n].ready \in Nat
    /\ \A k \in {"maintenance", "migrations", "vmis"} : \A v \in ValuesOf(k) : IsFiniteSet(DOMAIN v)

VARIABLES
    cluster,    \* the platform
    remaining,  \* nodes the evaluation has still to visit
    verdict,    \* "none", "running", "ok" or "failed"
    blame,      \* the failing parent and the child it blocks, <<>> if none
    lasting,    \* history: nodes whose fault shows, and is read without error, since the evaluation began
    failed      \* history: nodes that failed at some time since the evaluation began

vars == <<cluster, remaining, verdict, blame, lasting, failed>>

Nodes == {"mc", "rendered", "mcp", "mcd", "nodeReady", "crio", "kubelet", "storage", "csi",
          "ovn", "multus", "virt-handler", "kubevirt", "vmim"}

Edges == { <<"mc", "rendered">>, <<"rendered", "mcp">>, <<"mcp", "mcd">>, <<"mcd", "nodeReady">>,
           <<"nodeReady", "crio">>, <<"crio", "kubelet">>, <<"kubelet", "virt-handler">>,
           <<"storage", "csi">>, <<"csi", "virt-handler">>, <<"ovn", "multus">>,
           <<"multus", "virt-handler">>, <<"virt-handler", "kubevirt">>, <<"kubevirt", "vmim">> }

Parents(n) == {p \in Nodes : <<p, n>> \in Edges}

\* The kind of objects an evaluator reads; the evaluators of the other nodes
\* always pass.
CanFail == {"mcp", "mcd", "nodeReady", "virt-handler", "kubevirt", "vmim"}
Reads == [n \in CanFail |-> CASE n = "mcp" -> "pools" [] n = "mcd" -> "daemons"
                              [] n = "nodeReady" -> "nodes" [] n = "virt-handler" -> "handlers"
                              [] n = "kubevirt" -> "kubevirt" [] n = "vmim" -> "migrations"]

\* The evaluators that may fail.  What is missing or cannot be read passes.  The
\* virt-handlers and the migrations are those in namespaces that both the graph
\* and the agent look at.
mcpNode(c) ==
    "worker" \in DOMAIN c.pools =>
        LET p == c.pools["worker"] IN p.degraded = 0 /\ ~(p.machines > 0 /\ p.ready < p.machines)
mcdNode(c) == \A x \in DOMAIN c.daemons : c.daemons[x] = "Running"
nodeReadyNode(c) == \A x \in DOMAIN c.nodes : c.nodes[x]
virtHandlerNode(c) ==
    \A x \in DOMAIN c.handlers : ~(c.handlers[x].desired > 0 /\ c.handlers[x].ready < c.handlers[x].desired)
kubevirtNode(c) == c.kubevirt = None \/ c.kubevirt.phase \in {"", "Deployed"}
vmimNode(c) == \A x \in DOMAIN c.migrations : ~c.migrations[x].stalled

Evaluator(n, c) ==
    CASE n = "mcp" -> mcpNode(c) [] n = "mcd" -> mcdNode(c) [] n = "nodeReady" -> nodeReadyNode(c)
      [] n = "virt-handler" -> virtHandlerNode(c) [] n = "kubevirt" -> kubevirtNode(c)
      [] n = "vmim" -> vmimNode(c) [] OTHER -> TRUE

\* The graph lists nodes and migrations with a limit.
ListedByGraph(c) ==
    {[c EXCEPT !.nodes = p[1], !.migrations = p[2]] :
        p \in PagesOf(c.nodes) \X PagesOf(c.migrations)}

\* The nodes that fail; those whose fault shows on every page.
FailingNow(c) == {n \in CanFail : ~Evaluator(n, c)}
Showing(c) == {n \in CanFail : \A l \in ListedByGraph(c) : ~Evaluator(n, l)}

\* Visiting a node none of whose parents can fail has no effect.
Visited == {n \in Nodes : Parents(n) \cap CanFail # {}}

Init ==
    /\ cluster = Normal
    /\ remaining = {}
    /\ verdict = "none"
    /\ blame = <<>>
    /\ lasting = {}
    /\ failed = {}

-----------------------------------------------------------------------------
\* An evaluation cannot see the kinds it does not read: they are normal around it.
OthersNormal(c) == \A k \in Kinds \ {Reads[n] : n \in CanFail} : c[k] = Normal[k]

\* The objects of one kind change.  A verdict that was returned is history.
Change(k, v) ==
    /\ v # cluster[k]
    /\ cluster' = [cluster EXCEPT ![k] = v]
    /\ Cardinality({j \in Kinds : cluster'[j] # Normal[j]}) <= MaxFaults
    /\ verdict = "running" => OthersNormal(cluster')
    /\ IF verdict = "running"
       THEN /\ lasting' = lasting \cap Showing(cluster')
            /\ failed' = failed \cup FailingNow(cluster')
            /\ UNCHANGED <<verdict, blame>>
       ELSE verdict' = "none" /\ blame' = <<>> /\ lasting' = {} /\ failed' = {}
    /\ UNCHANGED remaining

Begin ==
    /\ verdict # "running"
    /\ OthersNormal(cluster)
    /\ remaining' = Visited
    /\ verdict' = "running"
    /\ blame' = <<>>
    /\ lasting' = Showing(cluster)
    /\ failed' = FailingNow(cluster)
    /\ UNCHANGED cluster

\* Mutants: the first node that passes ends the evaluation; the child is blamed.
VisitReturnsEarly(n, failing, listed) ==
    /\ verdict = "running" /\ n \in remaining
    /\ remaining' = {}
    /\ verdict' = IF \A p \in Parents(n) : Evaluator(p, cluster) THEN "ok" ELSE "failed"
    /\ UNCHANGED <<cluster, blame, lasting, failed>>
VisitBlamesChild(n, failing, listed) ==
    /\ verdict = "running" /\ n \in remaining
    /\ \E p \in Parents(n) : ~Evaluator(p, cluster) /\ blame' = <<n, p>>
    /\ remaining' = {}
    /\ verdict' = "failed"
    /\ UNCHANGED <<cluster, lasting, failed>>

\* The next node of the visit: its parents' evaluators are asked, and get the
\* pages of listed.
Visit(n, failing, listed) ==
    LET c == Readable(listed, failing)
        bad == {p \in Parents(n) : ~Evaluator(p, c)}
    IN  /\ verdict = "running"
        /\ n \in remaining
        /\ \/ /\ bad = {}
              /\ remaining' = remaining \ {n}
              /\ verdict' = IF remaining' = {} THEN "ok" ELSE "running"
              /\ UNCHANGED blame
           \/ \E p \in bad : remaining' = {} /\ verdict' = "failed" /\ blame' = <<p, n>>
        /\ lasting' = lasting \ {p \in Parents(n) \cap CanFail : Reads[p] \in failing}
        /\ UNCHANGED <<cluster, failed>>

VisitAny ==
    \E n \in Nodes, failing \in Failures : \E listed \in ListedByGraph(cluster) : Visit(n, failing, listed)

ChangeAny == \E k \in Kinds : \E i \in DOMAIN Values[k] : Change(k, Values[k][i])

Next == ChangeAny \/ Begin \/ VisitAny

Spec == Init /\ [][Next]_vars

-----------------------------------------------------------------------------
(***************************************************************************)
(* Properties.                                                             *)
(***************************************************************************)

\* A fault of an inner node that lasts through the whole evaluation, can be read
\* and shows on every page its List may return, is never missed, in whatever order
\* the nodes are visited and whatever else changes in between (EvaluateCausalChain).
LastingFaultFound == verdict = "ok" => lasting \subseteq {"vmim"}

\* A failure names an edge of the graph whose parent did fail during this
\* evaluation: a fault that was over before it began is never blamed.
BlameIsReal == verdict = "failed" => blame \in Edges /\ blame[1] \in failed

\* The report an agent would make in one moment without errors of a platform of
\* which its Lists return the pages of listed: the application's pool, the platform
\* observation, and what the gates see.
AppPool == readMachineConfigPool(cluster, "")
Platform(listed) == ObservePlatform(listed, AppPool)
Gates(listed) ==
    LET row == [ state |-> "InSync", observedAt |-> 0,
                 obs |-> PlatformSeen([EmptyObservation EXCEPT !.health = "Healthy"],
                                      AppPool, Platform(listed)) ]
    IN  GateResults([a \in Apps |-> [known |-> TRUE, rows |-> <<row>>]], CHOOSE o \in Orders : TRUE)

GateNames == {"ClusterVersionStable", "ClusterOperatorsHealthy", "PlatformOperatorsDeployed",
              "MCPUpdatedOnTime", "NoActiveNodeMaintenance", "VirtImpactPassed"}
Pass(gates) == \A g \in GateNames : gates[g] = "True"

\* What the platform gates are for, said of the objects themselves.
OperatorDeployed(o) == o # None /\ o.phase = "Deployed"
PoolConverged(p) == /\ p.updated >= p.machines /\ p.ready >= p.machines
                    /\ p.unavailable = 0 /\ p.degraded = 0 /\ p.aligned
PlatformConverged(c) ==
    /\ c.cv # None /\ c.cv.available /\ ~c.cv.progressing
    /\ DOMAIN c.operators # {}
    /\ \A n \in DOMAIN c.operators : c.operators[n].available /\ ~c.operators[n].degraded
    /\ OperatorDeployed(c.kubevirt) /\ OperatorDeployed(c.cdi) /\ OperatorDeployed(c.ssp)
    /\ AppPool.name \in DOMAIN c.pools => PoolConverged(c.pools[AppPool.name])
    /\ \A n \in DOMAIN c.maintenance : c.maintenance[n] \notin {"Running", ""}
    /\ c.hco = "ok"
    /\ \A n \in DOMAIN c.handlers : c.handlers[n].ready >= c.handlers[n].desired
    /\ \A n \in DOMAIN c.migrations : ~c.migrations[n].stalled
    /\ \A n \in DOMAIN c.vmis : c.vmis[n].migratable /\ ~c.vmis[n].passthrough

\* The kinds the gates judge by a List with a limit have no more objects than a page.
OnOnePage(c) ==
    \A k \in {"maintenance", "migrations", "vmis"} : Cardinality(DOMAIN c[k]) <= PageLimit

\* Readers, classification and gates together: the six platform gates of a report
\* made in one moment pass when the objects are as the gates want them; and only
\* then, as long as they are on one page.  Of a larger platform the gates may pass
\* with a fault no page shows.  This and the next are looked at while no evaluation
\* runs, when the platform may be in every state.
Idle == verdict = "none"
GatesMatchPlatform ==
    Idle => \A listed \in Listed(cluster) :
        /\ PlatformConverged(cluster) => Pass(Gates(listed))
        /\ OnOnePage(cluster) /\ Pass(Gates(listed)) => PlatformConverged(cluster)

\* The analyses of one report do not contradict each other or the gates, whatever
\* pages were read: a DAG that is blocked or degraded has a root cause in the graph;
\* gates that pass leave the graph only the pools of other applications to blame; an
\* operator that fails the ordering and a roll-out that is not converged fail their
\* gates.
AnalysesAgree ==
    Idle => \A listed \in Listed(cluster) :
        LET graph == EvaluatePlatformDependencyGraph(Platform(listed))
            dag   == EvaluateTopologicalDAG(Platform(listed))
            gates == Gates(listed)
        IN
        /\ ~dag.healthy => ~graph.healthy
        /\ Pass(gates) /\ ~graph.healthy =>
              graph.rootCause[1] = "MachineConfigPool" /\ graph.rootCause[2] # AppPool.name
        /\ ~EvaluateClusterOperatorOrdering(listed.operators).passed =>
              gates["ClusterOperatorsHealthy"] = "False"
        /\ \A elapsed \in {0, 1, 301} :
              PredictMCPConvergence(AppPool, elapsed).verdict # "converged" =>
                  gates["MCPUpdatedOnTime"] = "False"
=============================================================================
