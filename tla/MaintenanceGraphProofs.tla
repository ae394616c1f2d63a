------------------------ MODULE MaintenanceGraphProofs ------------------------
(***************************************************************************)
(* Proofs about the evaluation of the typed dependency graph, for every    *)
(* platform, every number of faults, every limit of the Lists and every    *)
(* set of reads that fail.                                                 *)
(***************************************************************************)
EXTENDS MaintenanceGraph, PlatformAnalysisProofs, FiniteSetTheorems, TLAPS

-----------------------------------------------------------------------------
(* The evaluators.                                                         *)

\* The kinds of objects the evaluators read.
LEMMA ReadsWhat ==
    /\ Reads["mcp"] = "pools" /\ Reads["mcd"] = "daemons" /\ Reads["nodeReady"] = "nodes"
    /\ Reads["virt-handler"] = "handlers" /\ Reads["kubevirt"] = "kubevirt"
    /\ Reads["vmim"] = "migrations"
BY DEF Reads, CanFail

\* An evaluator depends on nothing but the objects of its kind.
LEMMA EvaluatorReads ==
    ASSUME NEW n \in CanFail, NEW c, NEW d, c[Reads[n]] = d[Reads[n]], Evaluator(n, c)
    PROVE  Evaluator(n, d)
<1>1. CASE n = "mcp"
  <2>1. c.pools = d.pools
    BY <1>1, ReadsWhat
  <2> QED BY <1>1, <2>1 DEF Evaluator, mcpNode
<1>2. CASE n = "mcd"
  <2>1. c.daemons = d.daemons
    BY <1>2, ReadsWhat
  <2> QED BY <1>2, <2>1 DEF Evaluator, mcdNode
<1>3. CASE n = "nodeReady"
  <2>1. c.nodes = d.nodes
    BY <1>3, ReadsWhat
  <2> QED BY <1>3, <2>1 DEF Evaluator, nodeReadyNode
<1>4. CASE n = "virt-handler"
  <2>1. c.handlers = d.handlers
    BY <1>4, ReadsWhat
  <2> QED BY <1>4, <2>1 DEF Evaluator, virtHandlerNode
<1>5. CASE n = "kubevirt"
  <2>1. c.kubevirt = d.kubevirt
    BY <1>5, ReadsWhat
  <2> QED BY <1>5, <2>1 DEF Evaluator, kubevirtNode
<1>6. CASE n = "vmim"
  <2>1. c.migrations = d.migrations
    BY <1>6, ReadsWhat
  <2> QED BY <1>6, <2>1 DEF Evaluator, vmimNode
<1> QED BY <1>1, <1>2, <1>3, <1>4, <1>5, <1>6 DEF CanFail

\* An evaluator that finds no objects passes.
LEMMA NothingPasses ==
    ASSUME NEW n \in CanFail
    PROVE  Evaluator(n, NoCluster)
<1>1. /\ NoCluster.pools = None /\ NoCluster.daemons = None /\ NoCluster.nodes = None
      /\ NoCluster.handlers = None /\ NoCluster.kubevirt = None /\ NoCluster.migrations = None
  BY DEF NoCluster
<1>2. DOMAIN None = {}
  BY DEF None
<1> HIDE DEF NoCluster
<1>3. /\ mcpNode(NoCluster) /\ mcdNode(NoCluster) /\ nodeReadyNode(NoCluster)
      /\ virtHandlerNode(NoCluster) /\ kubevirtNode(NoCluster) /\ vmimNode(NoCluster)
  BY <1>1, <1>2 DEF mcpNode, mcdNode, nodeReadyNode, virtHandlerNode, kubevirtNode, vmimNode
<1> QED BY <1>3 DEF Evaluator, CanFail

\* The other evaluators always pass.
LEMMA OthersPass ==
    ASSUME NEW n, n \notin CanFail, NEW c
    PROVE  Evaluator(n, c)
BY DEF Evaluator, CanFail

LEMMA ReadsKinds == \A n \in CanFail : Reads[n] \in Kinds
BY DEF Reads, CanFail, Kinds, NoCluster

\* What an evaluator sees as failing through reads that may fail is failing.
LEMMA SeenIsFailing ==
    ASSUME NEW c, NEW failing, NEW p, ~Evaluator(p, Readable(c, failing))
    PROVE  p \in FailingNow(c)
<1>1. p \in CanFail
  BY OthersPass
<1>2. Reads[p] \in Kinds
  BY <1>1, ReadsKinds
<1>3. CASE Reads[p] \in failing
  <2>1. Readable(c, failing)[Reads[p]] = NoCluster[Reads[p]]
    BY <1>2, <1>3 DEF Readable
  <2> QED BY <1>1, <2>1, NothingPasses, EvaluatorReads
<1>4. CASE Reads[p] \notin failing
  <2>1. Readable(c, failing)[Reads[p]] = c[Reads[p]]
    BY <1>2, <1>4 DEF Readable
  <2> QED BY <1>1, <2>1, EvaluatorReads DEF FailingNow
<1> QED BY <1>3, <1>4

\* What a page of the graph's Lists shows as failing is failing.
LEMMA PageIsFailing ==
    ASSUME NEW c, DOMAIN c = Kinds, NEW l \in ListedByGraph(c), NEW p \in FailingNow(l)
    PROVE  p \in FailingNow(c)
<1> DEFINE Both == PagesOf(c.nodes) \X PagesOf(c.migrations)
<1>0. PICK b \in Both : l = [c EXCEPT !.nodes = b[1], !.migrations = b[2]]
  BY Zenon DEF ListedByGraph
<1>1. PICK d \in PagesOf(c.nodes), g \in PagesOf(c.migrations) : l = [c EXCEPT !.nodes = d, !.migrations = g]
  BY <1>0
<1>2. {"nodes", "migrations"} \subseteq Kinds
  BY DEF Kinds, NoCluster
<1>3. l.nodes = d /\ l.migrations = g /\ \A k \in Kinds \ {"nodes", "migrations"} : l[k] = c[k]
  BY <1>1, <1>2
<1>4. /\ DOMAIN d \subseteq DOMAIN c.nodes /\ \A n \in DOMAIN d : d[n] = c.nodes[n]
      /\ DOMAIN g \subseteq DOMAIN c.migrations /\ \A n \in DOMAIN g : g[n] = c.migrations[n]
  BY PageParts
<1>5. p \in CanFail /\ ~Evaluator(p, l)
  BY DEF FailingNow
<1>6. CASE p = "nodeReady"
  <2>1. nodeReadyNode(c) => nodeReadyNode(l)
    BY <1>3, <1>4, Zenon DEF nodeReadyNode
  <2> QED BY <1>5, <1>6, <2>1 DEF Evaluator, FailingNow
<1>7. CASE p = "vmim"
  <2>1. vmimNode(c) => vmimNode(l)
    BY <1>3, <1>4, Zenon DEF vmimNode
  <2> QED BY <1>5, <1>7, <2>1 DEF Evaluator, FailingNow
<1>8. CASE p \notin {"nodeReady", "vmim"}
  <2>1. Reads[p] \in Kinds \ {"nodes", "migrations"}
    BY <1>5, <1>8, ReadsWhat DEF CanFail, Kinds, NoCluster
  <2>2. ~Evaluator(p, c)
    BY <1>3, <1>5, <2>1, EvaluatorReads
  <2> QED BY <1>5, <2>2 DEF FailingNow
<1> QED BY <1>6, <1>7, <1>8

\* What shows on every page is seen as failing when its kind can be read.
LEMMA ShowingIsSeen ==
    ASSUME NEW c, NEW l \in ListedByGraph(c), NEW failing, NEW p \in Showing(c), Reads[p] \notin failing
    PROVE  ~Evaluator(p, Readable(l, failing))
<1>1. p \in CanFail /\ ~Evaluator(p, l)
  BY DEF Showing
<1>2. Readable(l, failing)[Reads[p]] = l[Reads[p]]
  BY <1>1, ReadsKinds DEF Readable
<1> QED BY <1>1, <1>2, EvaluatorReads

-----------------------------------------------------------------------------
(* One evaluation.                                                         *)

\* While an evaluation runs: a node whose fault has been showing and readable all
\* along still shows it and its children are still to be visited; everything that
\* fails now is remembered.
EvalInv ==
    /\ DOMAIN cluster = Kinds
    /\ verdict = "running" =>
          /\ lasting \subseteq Showing(cluster)
          /\ FailingNow(cluster) \subseteq failed
          /\ \A p \in lasting : \A n \in Nodes : <<p, n>> \in Edges => n \in remaining
    /\ LastingFaultFound
    /\ BlameIsReal

\* Every node that may fail, but the last of the graph, has a child.
LEMMA HasChild == \A p \in CanFail \ {"vmim"} : \E n \in Nodes : <<p, n>> \in Edges
<1>1. /\ "mcd" \in Nodes /\ <<"mcp", "mcd">> \in Edges
      /\ "nodeReady" \in Nodes /\ <<"mcd", "nodeReady">> \in Edges
      /\ "crio" \in Nodes /\ <<"nodeReady", "crio">> \in Edges
      /\ "kubevirt" \in Nodes /\ <<"virt-handler", "kubevirt">> \in Edges
      /\ "vmim" \in Nodes /\ <<"kubevirt", "vmim">> \in Edges
  BY Zenon DEF Nodes, Edges
<1>2. CanFail \ {"vmim"} = {"mcp", "mcd", "nodeReady", "virt-handler", "kubevirt"}
  BY DEF CanFail
<1> QED BY <1>1, <1>2, Zenon

LEMMA CanFailNodes == CanFail \subseteq Nodes
BY DEF CanFail, Nodes

LEMMA EvalInit == Init => EvalInv
BY DEF Init, Normal, EvalInv, LastingFaultFound, BlameIsReal

LEMMA EvalChange ==
    ASSUME EvalInv, NEW k, NEW v, Change(k, v)
    PROVE  EvalInv'
<1>1. DOMAIN cluster' = Kinds
  BY DEF Change, EvalInv
<1>2. CASE verdict = "running"
  <2>1. /\ lasting' = lasting \cap Showing(cluster') /\ failed' = failed \cup FailingNow(cluster')
        /\ verdict' = "running" /\ remaining' = remaining
    BY <1>2 DEF Change
  <2>2. lasting' \subseteq Showing(cluster') /\ FailingNow(cluster') \subseteq failed'
    BY <2>1
  <2>3. \A p \in lasting' : \A n \in Nodes : <<p, n>> \in Edges => n \in remaining'
    BY <1>2, <2>1 DEF EvalInv
  <2> QED BY <1>1, <2>1, <2>2, <2>3 DEF EvalInv, LastingFaultFound, BlameIsReal
<1>3. CASE verdict # "running"
  <2>1. verdict' = "none"
    BY <1>3 DEF Change
  <2> QED BY <1>1, <2>1 DEF EvalInv, LastingFaultFound, BlameIsReal
<1> QED BY <1>2, <1>3

LEMMA EvalBegin ==
    ASSUME EvalInv, Begin
    PROVE  EvalInv'
<1>1. /\ remaining' = Visited /\ verdict' = "running" /\ cluster' = cluster
      /\ lasting' = Showing(cluster) /\ failed' = FailingNow(cluster)
  BY DEF Begin
<1>2. ASSUME NEW p \in Showing(cluster), NEW n \in Nodes, <<p, n>> \in Edges
      PROVE  n \in Visited
  <2>1. p \in CanFail /\ p \in Nodes
    BY CanFailNodes DEF Showing
  <2> QED BY <1>2, <2>1 DEF Visited, Parents
<1> QED BY <1>1, <1>2 DEF EvalInv, LastingFaultFound, BlameIsReal

LEMMA EvalVisit ==
    ASSUME EvalInv, NEW n \in Nodes, NEW failing, NEW listed \in ListedByGraph(cluster),
           Visit(n, failing, listed)
    PROVE  EvalInv'
<1> DEFINE bad == {p \in Parents(n) : ~Evaluator(p, Readable(listed, failing))}
<1>1. /\ verdict = "running" /\ n \in remaining /\ cluster' = cluster /\ failed' = failed
      /\ lasting' = lasting \ {p \in Parents(n) \cap CanFail : Reads[p] \in failing}
      /\ \/ /\ bad = {}
            /\ remaining' = remaining \ {n}
            /\ verdict' = IF remaining' = {} THEN "ok" ELSE "running"
         \/ \E p \in bad : remaining' = {} /\ verdict' = "failed" /\ blame' = <<p, n>>
  BY DEF Visit
<1>3. /\ DOMAIN cluster = Kinds
      /\ lasting \subseteq Showing(cluster) /\ FailingNow(cluster) \subseteq failed
      /\ \A p \in lasting : \A m \in Nodes : <<p, m>> \in Edges => m \in remaining
  BY <1>1 DEF EvalInv
<1> HIDE DEF bad
<1>4. ASSUME bad = {}, remaining' = remaining \ {n},
             verdict' = IF remaining' = {} THEN "ok" ELSE "running"
      PROVE  EvalInv'
  <2>1. ASSUME NEW p \in lasting', NEW m \in Nodes, <<p, m>> \in Edges
        PROVE  m \in remaining'
    <3>1. p \in lasting /\ p \in Showing(cluster) /\ p \in CanFail /\ p \in Nodes
      BY <1>1, <1>3, <2>1, CanFailNodes DEF Showing
    <3>2. m # n
      <4>1. SUFFICES ASSUME m = n PROVE FALSE
        OBVIOUS
      <4>2. p \in Parents(n)
        BY <2>1, <3>1, <4>1 DEF Parents
      <4>3. Reads[p] \notin failing
        BY <1>1, <2>1, <3>1, <4>2
      <4>4. p \in bad
        BY <3>1, <4>2, <4>3, ShowingIsSeen DEF bad
      <4> QED BY <1>4, <4>4
    <3> QED BY <1>3, <1>4, <2>1, <3>1, <3>2
  <2>2. lasting' \subseteq Showing(cluster) /\ FailingNow(cluster) \subseteq failed'
    BY <1>1, <1>3
  <2>3. verdict' = "ok" => lasting' \subseteq {"vmim"}
    <3> SUFFICES ASSUME verdict' = "ok", NEW p \in lasting', p # "vmim" PROVE FALSE
      OBVIOUS
    <3>1. p \in CanFail
      BY <2>2 DEF Showing
    <3>2. PICK m \in Nodes : <<p, m>> \in Edges
      BY <3>1, HasChild
    <3>3. m \in remaining'
      BY <2>1, <3>2
    <3> QED BY <1>4, <3>3
  <2>4. verdict' # "failed"
    BY <1>4
  <2> QED BY <1>1, <1>3, <2>1, <2>2, <2>3, <2>4 DEF EvalInv, LastingFaultFound, BlameIsReal
<1>5. ASSUME NEW p \in bad, verdict' = "failed", blame' = <<p, n>>
      PROVE  EvalInv'
  <2>1. p \in Nodes /\ <<p, n>> \in Edges
    BY <1>5 DEF bad, Parents
  <2>2. p \in FailingNow(cluster)
    BY <1>3, <1>5, SeenIsFailing, PageIsFailing DEF bad
  <2>3. blame'[1] = p
    BY <1>5
  <2>4. blame' \in Edges /\ blame'[1] \in failed'
    BY <1>1, <1>3, <1>5, <2>1, <2>2, <2>3
  <2> QED BY <1>1, <1>3, <1>5, <2>4 DEF EvalInv, LastingFaultFound, BlameIsReal
<1> QED BY <1>1, <1>4, <1>5

LEMMA EvalStep == EvalInv /\ [Next]_vars => EvalInv'
<1> SUFFICES ASSUME EvalInv, [Next]_vars PROVE EvalInv'
  OBVIOUS
<1>1. CASE ChangeAny
  BY <1>1, EvalChange DEF ChangeAny
<1>2. CASE Begin
  BY <1>2, EvalBegin
<1>3. CASE VisitAny
  BY <1>3, EvalVisit DEF VisitAny
<1>4. CASE UNCHANGED vars
  <2> QED BY <1>4 DEF vars, EvalInv, LastingFaultFound, BlameIsReal
<1> QED BY <1>1, <1>2, <1>3, <1>4 DEF Next

\* EvaluateCausalChain misses no fault of an inner node that lasts through the
\* evaluation, can be read and shows on every page of the List, in whatever order
\* the map is visited and whatever else of the platform changes, or cannot be read,
\* between the evaluators.
THEOREM LastingFaultAlwaysFound == Spec => []LastingFaultFound
<1>1. EvalInv => LastingFaultFound
  BY DEF EvalInv
<1> QED BY EvalInit, EvalStep, <1>1, PTL DEF Spec

\* The error of EvaluateCausalChain names an edge of the graph whose parent failed
\* during this evaluation: neither a read that fails nor a fault that is over
\* makes a node blamed.
THEOREM BlameAlwaysReal == Spec => []BlameIsReal
<1>1. EvalInv => BlameIsReal
  BY DEF EvalInv
<1> QED BY EvalInit, EvalStep, <1>1, PTL DEF Spec

-----------------------------------------------------------------------------
(* The analyses of the platform.                                           *)

\* The objects of every kind are among those the kind may have.
ClusterInv == DOMAIN cluster = Kinds /\ \A k \in Kinds : cluster[k] \in ValuesOf(k)

LEMMA ClusterInit == Init => ClusterInv
BY GraphAssumption DEF Init, ClusterInv, Normal, ValuesOf

LEMMA ClusterStep == ClusterInv /\ [Next]_vars => ClusterInv'
<1> SUFFICES ASSUME ClusterInv, [Next]_vars PROVE ClusterInv'
  OBVIOUS
<1>1. CASE cluster' = cluster
  BY <1>1 DEF ClusterInv
<1>2. ASSUME NEW k \in Kinds, NEW i \in DOMAIN Values[k], Change(k, Values[k][i])
      PROVE  ClusterInv'
  <2>1. cluster' = [cluster EXCEPT ![k] = Values[k][i]]
    BY <1>2 DEF Change
  <2>2. DOMAIN cluster' = Kinds /\ \A j \in Kinds : cluster'[j] = cluster[j] \/ (j = k /\ cluster'[j] = Values[k][i])
    BY <2>1 DEF ClusterInv
  <2> QED BY <2>2 DEF ClusterInv, ValuesOf
<1>3. \/ cluster' = cluster
      \/ \E k \in Kinds : \E i \in DOMAIN Values[k] : Change(k, Values[k][i])
  BY DEF Next, vars, ChangeAny, Begin, VisitAny, Visit
<1> QED BY <1>1, <1>2, <1>3

\* What the assumption on the objects says of the present ones.
LEMMA ClusterObjects ==
    ASSUME ClusterInv
    PROVE  /\ \A n \in DOMAIN cluster.pools : CountsTyped(cluster.pools[n])
           /\ cluster.cv # None => cluster.cv.desired # ""
           /\ cluster.hco \in {"absent", "ok", "degraded"}
           /\ \A n \in DOMAIN cluster.handlers :
                 cluster.handlers[n].desired \in Nat /\ cluster.handlers[n].ready \in Nat
           /\ IsFiniteSet(DOMAIN cluster.maintenance) /\ IsFiniteSet(DOMAIN cluster.migrations)
           /\ IsFiniteSet(DOMAIN cluster.vmis)
<1>1. {"pools", "cv", "hco", "handlers", "maintenance", "migrations", "vmis"} \subseteq Kinds
  BY DEF Kinds, NoCluster
<1>2. /\ cluster.pools \in ValuesOf("pools") /\ cluster.cv \in ValuesOf("cv")
      /\ cluster.hco \in ValuesOf("hco") /\ cluster.handlers \in ValuesOf("handlers")
      /\ cluster.maintenance \in ValuesOf("maintenance")
      /\ cluster.migrations \in ValuesOf("migrations") /\ cluster.vmis \in ValuesOf("vmis")
  BY <1>1 DEF ClusterInv
<1> QED BY <1>2, ObjectsAssumption, Zenon DEF CountsTyped

\* What a report made of pages sees: the pool of the application, which is read by
\* its name, and the rest as listed.
ListedConverged(c) ==
    /\ c.cv # None /\ c.cv.available /\ ~c.cv.progressing
    /\ DOMAIN c.operators # {}
    /\ \A n \in DOMAIN c.operators : c.operators[n].available /\ ~c.operators[n].degraded
    /\ OperatorDeployed(c.kubevirt) /\ OperatorDeployed(c.cdi) /\ OperatorDeployed(c.ssp)
    /\ AppPool.name \in DOMAIN cluster.pools => PoolConverged(cluster.pools[AppPool.name])
    /\ \A n \in DOMAIN c.maintenance : c.maintenance[n] \notin {"Running", ""}
    /\ c.hco = "ok"
    /\ \A n \in DOMAIN c.handlers : c.handlers[n].ready >= c.handlers[n].desired
    /\ \A n \in DOMAIN c.migrations : ~c.migrations[n].stalled
    /\ \A n \in DOMAIN c.vmis : c.vmis[n].migratable /\ ~c.vmis[n].passthrough

\* The objects the Lists return are well formed.
LEMMA ListedObjects ==
    ASSUME ClusterInv, NEW listed \in Listed(cluster)
    PROVE  /\ \A n \in DOMAIN listed.pools : n \in DOMAIN cluster.pools /\ listed.pools[n] = cluster.pools[n]
           /\ listed.cv # None => listed.cv.desired # ""
           /\ listed.hco \in {"absent", "ok", "degraded"}
           /\ \A n \in DOMAIN listed.handlers :
                 listed.handlers[n].desired \in Nat /\ listed.handlers[n].ready \in Nat
           /\ IsFiniteSet(DOMAIN listed.maintenance) /\ IsFiniteSet(DOMAIN listed.migrations)
           /\ IsFiniteSet(DOMAIN listed.vmis)
<1>1. {"cv", "hco", "handlers"} \subseteq Kinds \ Limited
      /\ {"pools", "maintenance", "migrations", "vmis"} \subseteq Limited
  BY DEF Kinds, NoCluster, Limited
<1>2. DOMAIN cluster = Kinds
  BY DEF ClusterInv
<1>0. /\ \A k \in Kinds \ Limited : listed[k] = cluster[k]
      /\ \A k \in Limited :
            /\ DOMAIN listed[k] \subseteq DOMAIN cluster[k]
            /\ \A n \in DOMAIN listed[k] : listed[k][n] = cluster[k][n]
            /\ Cardinality(DOMAIN cluster[k]) <= PageLimit => DOMAIN listed[k] = DOMAIN cluster[k]
  BY <1>2, ListedParts
<1>3. /\ \A k \in {"cv", "hco", "handlers"} : listed[k] = cluster[k]
      /\ \A k \in {"pools", "maintenance", "migrations", "vmis"} :
            /\ DOMAIN listed[k] \subseteq DOMAIN cluster[k]
            /\ \A n \in DOMAIN listed[k] : listed[k][n] = cluster[k][n]
  BY <1>0, <1>1
<1>4. listed.cv = cluster.cv /\ listed.hco = cluster.hco /\ listed.handlers = cluster.handlers
  BY <1>3
<1>5. \A n \in DOMAIN listed.pools : n \in DOMAIN cluster.pools /\ listed.pools[n] = cluster.pools[n]
  BY <1>3
<1>6. /\ DOMAIN listed.maintenance \subseteq DOMAIN cluster.maintenance
      /\ DOMAIN listed.migrations \subseteq DOMAIN cluster.migrations
      /\ DOMAIN listed.vmis \subseteq DOMAIN cluster.vmis
  BY <1>3
<1>7. \A n \in DOMAIN listed.handlers : listed.handlers[n].desired \in Nat /\ listed.handlers[n].ready \in Nat
  BY <1>4, ClusterObjects, Zenon
<1>8. (listed.cv # None => listed.cv.desired # "") /\ listed.hco \in {"absent", "ok", "degraded"}
  BY <1>4, ClusterObjects, Zenon
<1>9. /\ IsFiniteSet(DOMAIN listed.maintenance) /\ IsFiniteSet(DOMAIN listed.migrations)
      /\ IsFiniteSet(DOMAIN listed.vmis)
  BY <1>6, ClusterObjects, FS_Subset
<1> QED BY <1>5, <1>7, <1>8, <1>9

\* A platform as the gates want it is so on every page, and one that is so on its
\* only page is as the gates want it.
LEMMA ConvergedPages ==
    ASSUME ClusterInv, NEW listed \in Listed(cluster)
    PROVE  /\ PlatformConverged(cluster) => ListedConverged(listed)
           /\ OnOnePage(cluster) /\ ListedConverged(listed) => PlatformConverged(cluster)
<1>1. /\ {"cv", "operators", "kubevirt", "cdi", "ssp", "hco", "handlers"} \subseteq Kinds \ Limited
      /\ {"maintenance", "migrations", "vmis"} \subseteq Limited
  BY DEF Kinds, NoCluster, Limited
<1>2. DOMAIN cluster = Kinds
  BY DEF ClusterInv
<1>0. /\ \A k \in Kinds \ Limited : listed[k] = cluster[k]
      /\ \A k \in Limited :
            /\ DOMAIN listed[k] \subseteq DOMAIN cluster[k]
            /\ \A n \in DOMAIN listed[k] : listed[k][n] = cluster[k][n]
            /\ Cardinality(DOMAIN cluster[k]) <= PageLimit => DOMAIN listed[k] = DOMAIN cluster[k]
  BY <1>2, ListedParts
<1>3. /\ \A k \in {"cv", "operators", "kubevirt", "cdi", "ssp", "hco", "handlers"} : listed[k] = cluster[k]
      /\ \A k \in {"maintenance", "migrations", "vmis"} :
            /\ DOMAIN listed[k] \subseteq DOMAIN cluster[k]
            /\ \A n \in DOMAIN listed[k] : listed[k][n] = cluster[k][n]
            /\ Cardinality(DOMAIN cluster[k]) <= PageLimit => DOMAIN listed[k] = DOMAIN cluster[k]
  BY <1>0, <1>1
<1>4. /\ listed.cv = cluster.cv /\ listed.operators = cluster.operators /\ listed.kubevirt = cluster.kubevirt
      /\ listed.cdi = cluster.cdi /\ listed.ssp = cluster.ssp /\ listed.hco = cluster.hco
      /\ listed.handlers = cluster.handlers
  BY <1>3
<1>5. /\ \A n \in DOMAIN listed.maintenance :
            n \in DOMAIN cluster.maintenance /\ listed.maintenance[n] = cluster.maintenance[n]
      /\ \A n \in DOMAIN listed.migrations :
            n \in DOMAIN cluster.migrations /\ listed.migrations[n] = cluster.migrations[n]
      /\ \A n \in DOMAIN listed.vmis : n \in DOMAIN cluster.vmis /\ listed.vmis[n] = cluster.vmis[n]
  BY <1>3
<1>6. OnOnePage(cluster) => /\ DOMAIN listed.maintenance = DOMAIN cluster.maintenance
                            /\ DOMAIN listed.migrations = DOMAIN cluster.migrations
                            /\ DOMAIN listed.vmis = DOMAIN cluster.vmis
  BY <1>3 DEF OnOnePage
<1>7. PlatformConverged(cluster) => ListedConverged(listed)
  BY <1>4, <1>5, Zenon DEF PlatformConverged, ListedConverged
<1>8. OnOnePage(cluster) /\ ListedConverged(listed) => PlatformConverged(cluster)
  BY <1>4, <1>5, <1>6, Zenon DEF PlatformConverged, ListedConverged
<1> QED BY <1>7, <1>8

\* What the six gates say, in terms of the tests on the report.
LEMMA GatesSay ==
    ASSUME Apps # {}, NEW listed
    PROVE  LET v == Platform(listed).virt
           IN  /\ Gates(listed)["ClusterVersionStable"] = "True" <=> VersionTest(Platform(listed).cv) = "available"
               /\ Gates(listed)["ClusterOperatorsHealthy"] = "True" <=> OperatorsTest(Platform(listed).operators) = "ok"
               /\ Gates(listed)["PlatformOperatorsDeployed"] = "True" <=> DeployedTest(Platform(listed)) = "deployed"
               /\ Gates(listed)["MCPUpdatedOnTime"] = "True" <=> PoolTest(AppPool) = "ok"
               /\ Gates(listed)["NoActiveNodeMaintenance"] = "True" <=> ~(Platform(listed).maintenance > 0)
               /\ Gates(listed)["VirtImpactPassed"] = "True"
                     <=> /\ v.hco \notin {"Unknown", "Degraded"} /\ v.handlerReady
                         /\ ~(v.stalled > 0) /\ ~(v.unmigratable > 0)
               /\ OperatorsTest(Platform(listed).operators) = "bad" => Gates(listed)["ClusterOperatorsHealthy"] = "False"
               /\ PoolTest(AppPool) # "ok" => Gates(listed)["MCPUpdatedOnTime"] = "False"
<1> DEFINE v == Platform(listed).virt
           rest == [EmptyObservation EXCEPT !.health = "Healthy"]
           seen == PlatformSeen(rest, AppPool, Platform(listed))
           row == [state |-> "InSync", observedAt |-> 0, obs |-> seen]
           order == CHOOSE o \in Orders : TRUE
           ops == OperatorsTest(Platform(listed).operators)
           mcp == PoolTest(AppPool)
           cv == VersionTest(Platform(listed).cv)
           deployed == DeployedTest(Platform(listed))
<1>1. Gates(listed) = GateResults(OneRow(row), order)
  BY Zenon DEF Gates, OneRow
<1>2. order \in Orders
  BY OrdersExist, Zenon
<1>3. /\ seen.ops = ops /\ seen.mcp = mcp /\ seen.hco = v.hco /\ seen.virtHandler = v.handlerReady
      /\ seen.stalled = (v.stalled > 0) /\ seen.unmigratable = (v.unmigratable > 0)
      /\ seen.cv = cv /\ seen.platformOps = deployed /\ seen.maintenance = (Platform(listed).maintenance > 0)
  <2>1. DOMAIN rest = DOMAIN EmptyObservation
    OBVIOUS
  <2> HIDE DEF rest
  <2> QED BY <2>1, SeenParts
<1> HIDE DEF order, seen
<1>4. row.obs = seen
  OBVIOUS
<1> HIDE DEF row
<1>5. /\ Gates(listed)["ClusterOperatorsHealthy"] = GateOf(seen.ops # "none", seen.ops = "bad")
      /\ Gates(listed)["MCPUpdatedOnTime"] = GateOf(seen.mcp # "none", seen.mcp \notin {"none", "ok"})
      /\ Gates(listed)["VirtImpactPassed"] = GateOf(seen.hco # "Unknown", VirtUnhealthy(seen))
      /\ Gates(listed)["NoActiveNodeMaintenance"] = GateOf(TRUE, seen.maintenance = TRUE)
      /\ Gates(listed)["ClusterVersionStable"] =
            GateOf(seen.cv \in {"progressing", "available", "unavailable"}, seen.cv # "available")
      /\ Gates(listed)["PlatformOperatorsDeployed"] =
            GateOf(seen.platformOps \in {"deployed", "partial"}, seen.platformOps # "deployed")
  <2> DEFINE gates == GateResults(OneRow(row), order)
  <2>1. /\ gates["ClusterOperatorsHealthy"] = GateOf(row.obs.ops # "none", row.obs.ops = "bad")
        /\ gates["MCPUpdatedOnTime"] = GateOf(row.obs.mcp # "none", row.obs.mcp \notin {"none", "ok"})
        /\ gates["VirtImpactPassed"] = GateOf(row.obs.hco # "Unknown", VirtUnhealthy(row.obs))
        /\ gates["NoActiveNodeMaintenance"] = GateOf(TRUE, row.obs.maintenance = TRUE)
        /\ gates["ClusterVersionStable"] =
              GateOf(row.obs.cv \in {"progressing", "available", "unavailable"}, row.obs.cv # "available")
        /\ gates["PlatformOperatorsDeployed"] =
              GateOf(row.obs.platformOps \in {"deployed", "partial"}, row.obs.platformOps # "deployed")
    BY <1>2, OneRowGates, Zenon
  <2> HIDE DEF gates
  <2>2. /\ gates["ClusterOperatorsHealthy"] = GateOf(seen.ops # "none", seen.ops = "bad")
        /\ gates["MCPUpdatedOnTime"] = GateOf(seen.mcp # "none", seen.mcp \notin {"none", "ok"})
        /\ gates["VirtImpactPassed"] = GateOf(seen.hco # "Unknown", VirtUnhealthy(seen))
        /\ gates["NoActiveNodeMaintenance"] = GateOf(TRUE, seen.maintenance = TRUE)
        /\ gates["ClusterVersionStable"] =
              GateOf(seen.cv \in {"progressing", "available", "unavailable"}, seen.cv # "available")
        /\ gates["PlatformOperatorsDeployed"] =
              GateOf(seen.platformOps \in {"deployed", "partial"}, seen.platformOps # "deployed")
    BY <1>4, <2>1, Zenon
  <2>3. Gates(listed) = gates
    BY <1>1, Zenon DEF gates
  <2> QED BY <2>2, <2>3, Zenon
<1>6. ops \in {"none", "bad", "ok"}
  BY Zenon DEF OperatorsTest
<1>7. mcp \in {"degraded", "updating", "notReady", "mismatch", "ok"}
  BY PoolTests, Zenon
<1> HIDE DEF ops, mcp, cv, deployed, v
<1>8. /\ Gates(listed)["ClusterOperatorsHealthy"] = "True" <=> ops = "ok"
      /\ ops = "bad" => Gates(listed)["ClusterOperatorsHealthy"] = "False"
  BY <1>3, <1>5, <1>6 DEF GateOf
<1>9. /\ Gates(listed)["MCPUpdatedOnTime"] = "True" <=> mcp = "ok"
      /\ mcp # "ok" => Gates(listed)["MCPUpdatedOnTime"] = "False"
  BY <1>3, <1>5, <1>7 DEF GateOf
<1>10. Gates(listed)["ClusterVersionStable"] = "True" <=> cv = "available"
  BY <1>3, <1>5 DEF GateOf
<1>11. Gates(listed)["PlatformOperatorsDeployed"] = "True" <=> deployed = "deployed"
  BY <1>3, <1>5 DEF GateOf
<1>12. Gates(listed)["NoActiveNodeMaintenance"] = "True" <=> ~(Platform(listed).maintenance > 0)
  BY <1>3, <1>5, GatePasses, Zenon
<1>13. Gates(listed)["VirtImpactPassed"] = "True"
          <=> /\ v.hco \notin {"Unknown", "Degraded"} /\ v.handlerReady
              /\ ~(v.stalled > 0) /\ ~(v.unmigratable > 0)
  <2>1. Gates(listed)["VirtImpactPassed"] = "True" <=> seen.hco # "Unknown" /\ ~VirtUnhealthy(seen)
    BY <1>5, GatePasses, Zenon
  <2>2. VirtUnhealthy(seen) <=> \/ v.hco = "Degraded" \/ ~v.handlerReady
                                \/ v.stalled > 0 \/ v.unmigratable > 0
    BY <1>3, Zenon DEF VirtUnhealthy
  <2> QED BY <1>3, <2>1, <2>2, Zenon
<1> QED BY <1>8, <1>9, <1>10, <1>11, <1>12, <1>13, Zenon DEF ops, mcp, cv, deployed, v

\* The gates, the readers and the classification together.
LEMMA GatesMatch ==
    ASSUME Apps # {}, ClusterInv, NEW listed \in Listed(cluster)
    PROVE  Pass(Gates(listed)) <=> ListedConverged(listed)
<1> DEFINE c == listed
           v == Platform(listed).virt
           Version == c.cv # None /\ c.cv.available /\ ~c.cv.progressing
           Operators == /\ DOMAIN c.operators # {}
                        /\ \A n \in DOMAIN c.operators :
                              c.operators[n].available /\ ~c.operators[n].degraded
           Deployed == OperatorDeployed(c.kubevirt) /\ OperatorDeployed(c.cdi) /\ OperatorDeployed(c.ssp)
           Pool == AppPool.name \in DOMAIN cluster.pools => PoolConverged(cluster.pools[AppPool.name])
           Maintained == \A n \in DOMAIN c.maintenance : c.maintenance[n] \notin {"Running", ""}
           Virt == /\ c.hco = "ok"
                   /\ \A n \in DOMAIN c.handlers : c.handlers[n].ready >= c.handlers[n].desired
                   /\ \A n \in DOMAIN c.migrations : ~c.migrations[n].stalled
                   /\ \A n \in DOMAIN c.vmis : c.vmis[n].migratable /\ ~c.vmis[n].passthrough
<1>1. /\ v = readVirtualizationStatus(c) /\ Platform(listed).operators = c.operators
      /\ Platform(listed).cv = readClusterVersion(c) /\ Platform(listed).maintenance = readNodeMaintenanceStatus(c)
  BY ObserveParts, Zenon DEF Platform
<1>2. VersionTest(Platform(listed).cv) = "available" <=> Version
  BY <1>1, ListedObjects, VersionAvailable, Zenon
<1>3. OperatorsTest(Platform(listed).operators) = "ok" <=> Operators
  <2>1. "none" # "ok" /\ "bad" # "ok"
    OBVIOUS
  <2>2. OperatorsTest(c.operators) = "ok"
           <=> DOMAIN c.operators # {} /\ ~ \E n \in DOMAIN c.operators : Failed(c.operators[n])
    BY <2>1, Zenon DEF OperatorsTest
  <2> QED BY <1>1, <2>2, Zenon DEF Failed
<1>4. DeployedTest(Platform(listed)) = "deployed" <=> Deployed
  <2>1. DeployedTest(Platform(listed)) = "deployed"
           <=> \A op \in {c.kubevirt, c.cdi, c.ssp} : op # None /\ op.phase = "Deployed"
    BY AllDeployed, Zenon DEF Platform
  <2> QED BY <2>1, Zenon DEF OperatorDeployed
<1>5. PoolTest(AppPool) = "ok" <=> Pool
  <2> DEFINE name == AppPool.name
             p == cluster.pools[name]
  <2>1. \/ name \in DOMAIN cluster.pools /\ AppPool = PoolStatus(name, p)
        \/ name \notin DOMAIN cluster.pools /\ AppPool = UnknownPool(name)
    BY AppPoolParts, Zenon DEF AppPool
  <2>2. CASE name \notin DOMAIN cluster.pools
    BY <2>1, <2>2, UnknownPasses, Zenon
  <2>3. CASE name \in DOMAIN cluster.pools
    <3>1. CountsTyped(p)
      BY <2>3, ClusterObjects, Zenon
    <3>2. PoolTest(AppPool) = "ok" <=> PoolPhase(p) = "Updated" /\ p.aligned
      BY <2>1, <2>3, <3>1, PoolPasses, Zenon
    <3>3. PoolPhase(p) = "Updated" <=> /\ p.updated >= p.machines /\ p.ready >= p.machines
                                       /\ p.unavailable = 0 /\ p.degraded = 0
      BY <3>1, PoolPhases, Zenon
    <3> QED BY <2>3, <3>2, <3>3, Zenon DEF PoolConverged
  <2> QED BY <2>2, <2>3
<1>6. ~(Platform(listed).maintenance > 0) <=> Maintained
  <2>1. readNodeMaintenanceStatus(c) > 0
           <=> \E n \in DOMAIN c.maintenance : c.maintenance[n] \in {"Running", ""}
    BY ListedObjects, MaintenanceCounted, Zenon
  <2> QED BY <1>1, <2>1, Zenon
<1>7. /\ v.hco \notin {"Unknown", "Degraded"} /\ v.handlerReady
      /\ ~(v.stalled > 0) /\ ~(v.unmigratable > 0)
      <=> Virt
  <2>1. /\ v.hco = "Healthy" <=> c.hco = "ok"
        /\ v.hco \in {"Healthy", "Unknown", "Degraded"}
        /\ v.handlerReady <=> \A n \in DOMAIN c.handlers : c.handlers[n].ready >= c.handlers[n].desired
        /\ v.stalled > 0 <=> \E n \in DOMAIN c.migrations : c.migrations[n].stalled
        /\ v.unmigratable > 0 <=> \E n \in DOMAIN c.vmis : ~(c.vmis[n].migratable /\ ~c.vmis[n].passthrough)
    <3>1. /\ c.hco \in {"absent", "ok", "degraded"}
          /\ \A n \in DOMAIN c.handlers : c.handlers[n].desired \in Nat /\ c.handlers[n].ready \in Nat
          /\ IsFiniteSet(DOMAIN c.migrations) /\ IsFiniteSet(DOMAIN c.vmis)
      BY ListedObjects, Zenon
    <3> HIDE DEF v
    <3> QED BY <1>1, <3>1, VirtParts
  <2> HIDE DEF v
  <2>2. v.hco \notin {"Unknown", "Degraded"} <=> c.hco = "ok"
    BY <2>1
  <2> QED BY <2>1, <2>2, Zenon
<1>8. ListedConverged(c) <=> Version /\ Operators /\ Deployed /\ Pool /\ Maintained /\ Virt
  BY Zenon DEF ListedConverged
<1>9. Pass(Gates(listed)) <=>
         /\ Gates(listed)["ClusterVersionStable"] = "True" /\ Gates(listed)["ClusterOperatorsHealthy"] = "True"
         /\ Gates(listed)["PlatformOperatorsDeployed"] = "True" /\ Gates(listed)["MCPUpdatedOnTime"] = "True"
         /\ Gates(listed)["NoActiveNodeMaintenance"] = "True" /\ Gates(listed)["VirtImpactPassed"] = "True"
  BY Zenon DEF Pass, GateNames
<1>10. /\ Gates(listed)["ClusterVersionStable"] = "True" <=> Version
       /\ Gates(listed)["ClusterOperatorsHealthy"] = "True" <=> Operators
       /\ Gates(listed)["PlatformOperatorsDeployed"] = "True" <=> Deployed
       /\ Gates(listed)["MCPUpdatedOnTime"] = "True" <=> Pool
       /\ Gates(listed)["NoActiveNodeMaintenance"] = "True" <=> Maintained
       /\ Gates(listed)["VirtImpactPassed"] = "True" <=> Virt
  <2> HIDE DEF Version, Operators, Deployed, Pool, Maintained, Virt
  <2> QED BY <1>2, <1>3, <1>4, <1>5, <1>6, <1>7, GatesSay, Zenon
<1> HIDE DEF Version, Operators, Deployed, Pool, Maintained, Virt
<1> QED BY <1>8, <1>9, <1>10, Zenon

\* The six platform gates of a report made in one moment (evaluateGates on what the
\* readers of platform_validator.go return) pass when the objects are as the gates
\* want them, and only then if they are on one page, for every platform whose
\* objects are well formed and every limit of the Lists.
THEOREM GatesAlwaysMatchPlatform == Apps # {} /\ Spec => []GatesMatchPlatform
<1> DEFINE SomeApps == Apps # {}
<1>1. SomeApps /\ ClusterInv => GatesMatchPlatform
  BY GatesMatch, ConvergedPages, Zenon DEF GatesMatchPlatform
<1>2. SomeApps => SomeApps'
  OBVIOUS
<1> HIDE DEF SomeApps
<1>3. SomeApps /\ Spec => []GatesMatchPlatform
  BY <1>1, <1>2, ClusterInit, ClusterStep, PTL DEF Spec
<1> QED BY <1>3 DEF SomeApps

\* When the gates pass, every stage but that of the pools is healthy.
LEMMA OnlyPoolsLeft ==
    ASSUME Apps # {}, NEW listed \in Listed(cluster), Pass(Gates(listed)), NEW i \in 1 .. 6,
           Stages(Platform(listed))[i].status # "Healthy"
    PROVE  i = 2
<1> DEFINE o == Platform(listed)
           s == Stages(o)
           c == listed
<1>1. /\ VersionTest(o.cv) = "available" /\ OperatorsTest(o.operators) = "ok"
      /\ DeployedTest(o) = "deployed" /\ ~(o.maintenance > 0)
      /\ o.virt.handlerReady /\ ~(o.virt.stalled > 0)
  <2>1. /\ Gates(listed)["ClusterVersionStable"] = "True" /\ Gates(listed)["ClusterOperatorsHealthy"] = "True"
        /\ Gates(listed)["PlatformOperatorsDeployed"] = "True"
        /\ Gates(listed)["NoActiveNodeMaintenance"] = "True" /\ Gates(listed)["VirtImpactPassed"] = "True"
    BY Zenon DEF Pass, GateNames
  <2> QED BY <2>1, GatesSay, Zenon
<1>2. s[1] = Healthy
  <2>1. "none" # "available" /\ "progressing" # "available" /\ "unavailable" # "available"
    OBVIOUS
  <2>2. o.cv.available /\ ~o.cv.progressing
    BY <1>1, <2>1, Zenon DEF VersionTest
  <2> QED BY <2>2, StageParts, Zenon
<1>3. s[3] = Healthy
  <2>1. "none" # "ok" /\ "bad" # "ok"
    OBVIOUS
  <2>2. \A n \in DOMAIN o.operators : ~Failed(o.operators[n])
    BY <1>1, <2>1, Zenon DEF OperatorsTest
  <2> QED BY <2>2, StageParts, Zenon
<1>4. s[4] = Healthy
  <2>1. /\ o.kubevirt = readOperatorStatus(c.kubevirt) /\ o.cdi = readOperatorStatus(c.cdi)
        /\ o.ssp = readOperatorStatus(c.ssp)
    BY ObserveParts, Zenon DEF Platform
  <2>2. \A op \in {c.kubevirt, c.cdi, c.ssp} : op # None /\ op.phase = "Deployed"
    BY <1>1, AllDeployed, Zenon DEF Platform
  <2>3. ASSUME NEW op \in {c.kubevirt, c.cdi, c.ssp} PROVE ~Unready(readOperatorStatus(op))
    <3>1. readOperatorStatus(op).phase = "Deployed"
      BY <2>2, Zenon DEF readOperatorStatus
    <3> QED BY <3>1, Zenon DEF Unready
  <2>4. /\ ~Unready(readOperatorStatus(c.kubevirt)) /\ ~Unready(readOperatorStatus(c.cdi))
        /\ ~Unready(readOperatorStatus(c.ssp))
    BY <2>3, Zenon
  <2>5. ~Unready(o.kubevirt) /\ ~Unready(o.cdi) /\ ~Unready(o.ssp)
    BY <2>1, <2>4, Zenon
  <2> QED BY <2>5, StageParts, Zenon
<1>5. s[5] = Healthy /\ s[6] = Healthy
  BY <1>1, StageParts, Zenon
<1>6. Healthy.status = "Healthy"
  BY DEF Healthy
<1> HIDE DEF s
<1>7. s[i].status # "Healthy"
  BY Zenon DEF s
<1> QED BY <1>2, <1>3, <1>4, <1>5, <1>6, <1>7

\* A pool of the report with the name of the application's pool is that pool.
LEMMA SameNameSamePool ==
    ASSUME ClusterInv, NEW listed \in Listed(cluster), NEW i \in DOMAIN Platform(listed).pools, Platform(listed).pools[i].name = AppPool.name
    PROVE  Platform(listed).pools[i] = AppPool
<1> DEFINE q == Platform(listed).pools[i]
           p == cluster.pools[q.name]
<1>1. q = AppPool \/ \E n \in DOMAIN cluster.pools : q = PoolStatus(n, cluster.pools[n])
  <2>1. \A k \in DOMAIN Platform(listed).pools :
           \/ Platform(listed).pools[k] = AppPool
           \/ \E n \in DOMAIN cluster.pools : Platform(listed).pools[k] = PoolStatus(n, cluster.pools[n])
    <3> DEFINE pools == ObservePlatform(listed, AppPool).pools
    <3>1. \A k \in DOMAIN pools : \/ pools[k] = AppPool
                                 \/ \E n \in DOMAIN listed.pools : pools[k] = PoolStatus(n, listed.pools[n])
      BY PoolPlaces
    <3> QED BY <3>1, ListedObjects, Zenon DEF Platform
  <2> QED BY <2>1
<1>2. ASSUME NEW n \in DOMAIN cluster.pools, q = PoolStatus(n, cluster.pools[n])
      PROVE  q = AppPool
  <2>1. PoolStatus(n, cluster.pools[n]).name = n
    BY PoolParts, Zenon
  <2>2. AppPool.name = n
    BY <1>2, <2>1, Zenon
  <2>3. \/ AppPool.name \in DOMAIN cluster.pools
           /\ AppPool = PoolStatus(AppPool.name, cluster.pools[AppPool.name])
        \/ AppPool.name \notin DOMAIN cluster.pools /\ AppPool = UnknownPool(AppPool.name)
    BY AppPoolParts, Zenon DEF AppPool
  <2> QED BY <1>2, <2>2, <2>3, Zenon
<1> QED BY <1>1, <1>2

LEMMA Agree ==
    ASSUME Apps # {}, ClusterInv
    PROVE  AnalysesAgree
<1> SUFFICES ASSUME NEW listed \in Listed(cluster)
             PROVE  LET graph == EvaluatePlatformDependencyGraph(Platform(listed))
                        dag   == EvaluateTopologicalDAG(Platform(listed))
                        gates == Gates(listed)
                    IN
                    /\ ~dag.healthy => ~graph.healthy
                    /\ Pass(gates) /\ ~graph.healthy =>
                          graph.rootCause[1] = "MachineConfigPool" /\ graph.rootCause[2] # AppPool.name
                    /\ ~EvaluateClusterOperatorOrdering(listed.operators).passed =>
                          gates["ClusterOperatorsHealthy"] = "False"
                    /\ \A elapsed \in {0, 1, 301} :
                          PredictMCPConvergence(AppPool, elapsed).verdict # "converged" =>
                              gates["MCPUpdatedOnTime"] = "False"
  BY Zenon DEF AnalysesAgree
<1> DEFINE o == Platform(listed)
           s == Stages(o)
           graph == EvaluatePlatformDependencyGraph(o)
           dag == EvaluateTopologicalDAG(o)
<1>1. DOMAIN o.pools \subseteq Nat
  BY PoolPlaces, Zenon DEF Platform
<1>2. ~dag.healthy => ~graph.healthy
  <2> HIDE DEF o
  <2> QED BY <1>1, DagHasRoot, Zenon
<1>3. ASSUME Pass(Gates(listed)), ~graph.healthy
      PROVE  graph.rootCause[1] = "MachineConfigPool" /\ graph.rootCause[2] # AppPool.name
  <2>1. graph.rootCause = RootCause(s) /\ RootCause(s) # <<>>
    <3>1. graph.rootCause = RootCause(s) /\ graph.healthy = (RootCause(s) = <<>>)
      BY GraphParts, Zenon
    <3> HIDE DEF graph, s
    <3> QED BY <1>3, <3>1, Zenon
  <2>2. PICK i \in 1 .. 6 : s[i].status # "Healthy" /\ RootCause(s) = s[i].cause
    <3>1. DOMAIN s = 1 .. 6
      BY StageParts, Zenon
    <3> HIDE DEF s
    <3> QED BY <2>1, <3>1, RootIsFirst, Zenon
  <2>3. i = 2
    BY <1>3, <2>2, OnlyPoolsLeft, Zenon
  <2>4. /\ UnsettledPools(o) # {}
        /\ s[2] = [ status |-> FirstUnsettled(o).phase,
                    cause |-> <<"MachineConfigPool", FirstUnsettled(o).name>> ]
    <3>1. s[2] = IF UnsettledPools(o) = {} THEN Healthy
                 ELSE [ status |-> FirstUnsettled(o).phase,
                        cause |-> <<"MachineConfigPool", FirstUnsettled(o).name>> ]
      BY StageParts, Zenon
    <3>2. Healthy.status = "Healthy"
      BY DEF Healthy
    <3> HIDE DEF s, o
    <3> QED BY <2>2, <2>3, <3>1, <3>2, Zenon
  <2>5. graph.rootCause = <<"MachineConfigPool", FirstUnsettled(o).name>>
    <3> HIDE DEF s, o, graph
    <3>1. s[2].cause = <<"MachineConfigPool", FirstUnsettled(o).name>>
      BY <2>4
    <3> QED BY <2>1, <2>2, <2>3, <3>1, Zenon
  <2>6. PICK j \in DOMAIN o.pools : /\ FirstUnsettled(o) = o.pools[j]
                                    /\ o.pools[j].phase \in {"Updating", "Degraded"}
    BY <1>1, <2>4, UnsettledFound, Zenon
  <2>7. AppPool.phase \notin {"Updating", "Degraded"}
    <3>1. Gates(listed)["MCPUpdatedOnTime"] = "True"
      BY <1>3, Zenon DEF Pass, GateNames
    <3>2. PoolTest(AppPool) = "ok"
      BY <3>1, GatesSay, Zenon
    <3>3. "degraded" # "ok" /\ "updating" # "ok"
      OBVIOUS
    <3> QED BY <3>2, <3>3, Zenon DEF PoolTest
  <2>8. o.pools[j].name # AppPool.name
    BY <2>6, <2>7, SameNameSamePool, Zenon
  <2> HIDE DEF graph, o
  <2>9. graph.rootCause[1] = "MachineConfigPool" /\ graph.rootCause[2] = FirstUnsettled(o).name
    BY <2>5
  <2> QED BY <2>6, <2>8, <2>9, Zenon
<1>4. ~EvaluateClusterOperatorOrdering(listed.operators).passed =>
         Gates(listed)["ClusterOperatorsHealthy"] = "False"
  <2>1. o.operators = listed.operators
    BY ObserveParts, Zenon DEF Platform
  <2> QED BY <2>1, OrderingFails, GatesSay, Zenon
<1>5. ASSUME NEW elapsed, PredictMCPConvergence(AppPool, elapsed).verdict # "converged"
      PROVE  Gates(listed)["MCPUpdatedOnTime"] = "False"
  <2>1. PoolTest(AppPool) # "ok"
    BY <1>5, ClusterObjects, RolloutFails, Zenon DEF AppPool
  <2> QED BY <2>1, GatesSay, Zenon
<1> HIDE DEF graph, dag
<1>6. /\ ~dag.healthy => ~graph.healthy
      /\ Pass(Gates(listed)) /\ ~graph.healthy =>
            graph.rootCause[1] = "MachineConfigPool" /\ graph.rootCause[2] # AppPool.name
      /\ ~EvaluateClusterOperatorOrdering(listed.operators).passed =>
            Gates(listed)["ClusterOperatorsHealthy"] = "False"
      /\ \A elapsed \in {0, 1, 301} :
            PredictMCPConvergence(AppPool, elapsed).verdict # "converged" =>
                Gates(listed)["MCPUpdatedOnTime"] = "False"
  BY <1>2, <1>3, <1>4, <1>5, ZenonT(40)
<1> QED BY <1>6, Zenon DEF graph, dag

\* The analyses the agent attaches to its report contradict neither each other nor
\* the gates, for every platform whose objects are well formed and every limit of
\* the Lists: a blocked DAG has a
\* root cause in the graph, gates that pass leave the graph only the pools of other
\* applications to blame, and what fails the operator ordering or the roll-out
\* prediction fails its gate.
THEOREM AnalysesAlwaysAgree == Apps # {} /\ Spec => []AnalysesAgree
<1> DEFINE SomeApps == Apps # {}
<1>1. SomeApps /\ ClusterInv => AnalysesAgree
  BY Agree, Zenon
<1>2. SomeApps => SomeApps'
  OBVIOUS
<1> HIDE DEF SomeApps
<1>3. SomeApps /\ Spec => []AnalysesAgree
  BY <1>1, <1>2, ClusterInit, ClusterStep, PTL DEF Spec
<1> QED BY <1>3 DEF SomeApps

=============================================================================
