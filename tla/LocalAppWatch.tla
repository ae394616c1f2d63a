---------------------------- MODULE LocalAppWatch ----------------------------
(***************************************************************************)
(* The LocalAppWatch agent of one cluster, for one application: ConfigMaps *)
(* describe the application, each in its namespace, and the reconcile of a *)
(* ConfigMap collects diagnostics, reads the platform and upserts the one  *)
(* ClusterAppReport of the application.                                    *)
(*                                                                         *)
(* A reconcile is many reads and one write, anything may change between    *)
(* any two of them, and each may fail alone.  What is read as a typed      *)
(* object comes from an informer's cache, which lags, each kind by itself; *)
(* unstructured objects and logs come from the API server.  Reconciles of  *)
(* one ConfigMap follow each other, those of two ConfigMaps overlap; the   *)
(* answer of a write may be lost, and the agent restarts.                  *)
(*                                                                         *)
(* The timeline keeps what there was around the agent, with the time it    *)
(* came.  A read finds an entry of it: several reads that follow each      *)
(* other are one step of the model, and each of them picks its own entry.  *)
(***************************************************************************)
EXTENDS PlatformAnalysis, SequencesExt

CONSTANTS
    Namespaces,     \* where ConfigMaps of the application may be
    Description,    \* Description[d]: what a ConfigMap may say
    World,          \* World[w]: the platform, and the application's events, pods and resources
    MaxEvents,      \* 20: warning events of a report
    MaxLines,       \* 50: log lines of a container, and of a report
    OutageEnd,      \* bound: failures and restarts happen to reconciles begun before this time
    Unreliable,     \* bound: the kinds of objects whose reads may fail, "logs" and "pool" among them
    MaxChanges,     \* bound on changes of ConfigMaps and world
    MaxTime         \* bound on the clock

NoCM == ""
Lost == "lost"      \* in the place of a world: the read failed

ASSUME AgentAssumption ==
    /\ IsFiniteSet(Namespaces) /\ Namespaces # {}
    /\ Lost \notin DOMAIN World
    /\ \A w \in DOMAIN World : /\ DOMAIN World[w].platform = Kinds
                               /\ IsRecord(World[w].platform) /\ IsRecord(World[w].platform.cv)
    /\ MaxEvents \in Nat \ {0} /\ MaxLines \in Nat \ {0}
    /\ OutageEnd \in Nat /\ MaxChanges \in Nat /\ MaxTime \in Nat

VARIABLES
    now,       \* the clock
    timeline,  \* what there was, in order: since when, cms[n] (NoCM: no ConfigMap) and the world
    informed,  \* informed[k]: the entry of the timeline the informer of kind k has got to
    report,    \* the ClusterAppReport at the API server, or NoReport
    repCache,  \* the ClusterAppReport in the agent's cache
    worker,    \* worker[n]: the reconcile of the ConfigMap in namespace n
    raced      \* history: the last write was made from something outdated

vars == <<now, timeline, informed, report, repCache, worker, raced>>

NoReport == [observedAt |-> NoTime]
NoWork == [pc |-> "idle"]

AnyCM == DOMAIN Description \cup {NoCM}

\* The kinds that are read through informers.
Cached == {"ConfigMap", "Secret", "ServiceAccount", "Event", "Pod"}

Latest == Len(timeline)
Here   == timeline[Latest]
CacheOf(n) == timeline[informed["ConfigMap"]].cms[n]

NoWorkload == [events |-> {}, pods |-> {}, logs |-> None, resources |-> {}]
Platform(w) == IF w = Lost THEN NoCluster ELSE World[w].platform
Workload(w) == IF w = Lost THEN NoWorkload ELSE World[w].workload

Init ==
    /\ now = 0
    /\ \E d \in DOMAIN Description, w \in DOMAIN World :
          timeline = << [ at |-> 0, world |-> w,
                          cms |-> [n \in Namespaces |->
                                     IF n = CHOOSE m \in Namespaces : TRUE THEN d ELSE NoCM] ] >>
    /\ informed = [k \in Cached |-> 1]
    /\ report = NoReport
    /\ repCache = NoReport
    /\ worker = [n \in Namespaces |-> NoWork]
    /\ raced = FALSE

-----------------------------------------------------------------------------
(* Users, the platform, the clock, the caches.                             *)

Tick ==
    /\ now < MaxTime
    /\ now' = now + 1
    /\ UNCHANGED <<timeline, informed, report, repCache, worker, raced>>

\* What the informer of kind k shows of an entry.
Shown(k, entry) ==
    CASE k = "Event" -> Workload(entry.world).events
      [] k = "Pod" -> Workload(entry.world).pods
      [] k = "ConfigMap" -> <<entry.cms, {x \in Workload(entry.world).resources : x.kind = k}>>
      [] OTHER -> {x \in Workload(entry.world).resources : x.kind = k}

\* A new entry; an informer that had got to the last one and sees no difference is
\* not behind.
Become(c, w) ==
    LET entry == [at |-> now, cms |-> c, world |-> w]
    IN  /\ Latest <= MaxChanges
        /\ timeline' = Append(timeline, entry)
        /\ informed' = [k \in Cached |->
                          IF informed[k] = Latest /\ Shown(k, entry) = Shown(k, Here)
                          THEN Latest + 1 ELSE informed[k]]
        /\ UNCHANGED <<now, report, repCache, worker, raced>>

\* The ConfigMap of the application is created, edited, deleted or moved to
\* another namespace; the application has one at a time.
Edit(n, d) ==
    LET moved == [m \in Namespaces |-> IF m = n THEN d ELSE NoCM]
    IN  moved # Here.cms /\ Become(moved, Here.world)

ChangeAround(w) == w # Here.world /\ Become(Here.cms, w)

\* An informer gets the next change, the cache of the report the last one.
InformerSync(k) ==
    /\ informed[k] < Latest
    /\ informed' = [informed EXCEPT ![k] = @ + 1]
    /\ UNCHANGED <<now, timeline, report, repCache, worker, raced>>
ReportSync ==
    /\ repCache # report /\ repCache' = report
    /\ UNCHANGED <<now, timeline, informed, report, worker, raced>>

\* The agent restarts: its reconciles are lost and its caches are listed anew.
Restart ==
    /\ now < OutageEnd
    /\ worker' = [n \in Namespaces |-> NoWork]
    /\ informed' = [k \in Cached |-> Latest] /\ repCache' = report
    /\ UNCHANGED <<now, timeline, report, raced>>

-----------------------------------------------------------------------------
(* The collectors.                                                         *)

Troubled(d) == d.sync = "OutOfSync" \/ d.health = "Degraded"

\* Mutant: events are neither grouped nor cut.
collectAllWarnings(events) == {{e \in events : e.warning}}

\* Of a page of events: one for each reason and object, the one with the highest
\* count (events of one count come in any order), and of these the MaxEvents highest.
collectWarningEvents(events) ==
    LET Best(e, S) == \A f \in S : f.count <= e.count
        Grouped(S, warnings) ==
            /\ \A e \in S : Best(e, {f \in warnings : f.key = e.key})
            /\ \A f \in warnings : \E e \in S : e.key = f.key
            /\ \A e, f \in S : e.key = f.key => e = f
        Groups(warnings) == {S \in SUBSET warnings : Grouped(S, warnings)}
        Cut(S) == IF Cardinality(S) <= MaxEvents THEN {S}
                  ELSE {T \in kSubset(MaxEvents, S) : \A e \in T : Best(e, S \ T)}
    IN  UNION {UNION {Cut(S) : S \in Groups({e \in page : e.warning})} : page \in Pages(events)}

\* The last lines of each container of the pods that are not ready, up to MaxLines;
\* the pods of a page come in any order, and the log of container c is read in the
\* world in[c].
Containers(pods) == UNION {ToSet(p.containers) : p \in pods}
collectPodLogs(pods, in) ==
    LET Log(c) == IF c \in DOMAIN Workload(in[c]).logs THEN Workload(in[c]).logs[c] ELSE <<>>
        Newest(log) == SubSeq(log, IF Len(log) > MaxLines THEN Len(log) - MaxLines + 1 ELSE 1, Len(log))
        LogsOf(pod) == FlattenSeq([i \in DOMAIN pod.containers |-> Newest(Log(pod.containers[i]))])
        Lines(order) == FlattenSeq([i \in DOMAIN order |-> LogsOf(order[i])])
        UpTo(lines) == IF Len(lines) <= MaxLines THEN lines ELSE SubSeq(lines, 1, MaxLines)
    IN  UNION {{UpTo(Lines(order)) : order \in SetToSeqs({p \in page : ~p.ready})} :
               page \in Pages(pods)}

\* The change types of the annotation's lines that name an object; a line from
\* which no kind or no name can be read is dropped.
objectChangesFromAnnotation(lines) == {l.changeType : l \in {x \in lines : x.named}}

\* What the gates see of a report.  Change types are told apart as the gate on
\* objects does, without their case: "fail" stands for every word that begins so.
FailTypes == {"fail", "syncfailed", "error", "syncerror"}
Seen(r) ==
    PlatformSeen([ EmptyObservation EXCEPT !.health = HealthTest(r.health),
                     !.events = {e.at : e \in r.diag.events},
                     !.objectsFail = r.diag.objects \cap FailTypes # {},
                     !.depsUnready = \E x \in r.diag.deps : ~x.ready ],
                 r.pool, r.obs)

KnownKinds == {"ConfigMap", "Secret", "ServiceAccount", "DataVolume", "MachineConfig", "StorageClass"}

\* Mutant: a dependency that is not found is taken for ready.
checkKindsOnly(deps, in) == {[dep |-> x, ready |-> x.kind \in KnownKinds] : x \in deps}

\* Each dependency x is read in a world of its own, in[x].  One that is not there, or
\* cannot be read, or is of another kind, is not ready.  The resources of a workload
\* are those that count as ready: a DataVolume is there when it has succeeded.
checkDependencies(deps, in) ==
    {[dep |-> x, ready |-> x.kind \in KnownKinds /\ x \in Workload(in[x]).resources] : x \in deps}

\* Warning events, and the log lines that are signals, next to each other.  The
\* signals carry the time t at which they are put there.
correlateMultiSignalEvidence(events, logs, t) ==
    LET Signal(line) == line.signal
        signals == SelectSeq(logs, Signal)
    IN  [ events |-> {[key |-> e.key, at |-> e.at, critical |-> e.fails] : e \in events},
          logs |-> signals, at |-> IF signals = <<>> THEN NoTime ELSE t ]

NoDiagnostics == [events |-> {}, logs |-> <<>>, objects |-> {}, deps |-> {}]

-----------------------------------------------------------------------------
(* One reconcile.                                                          *)

Looking == UNCHANGED <<now, timeline, informed, report, repCache, raced>>

\* The ConfigMap is read and the report is dated; nothing is done for one that
\* is gone.  From here on the API server shows the present entry of the timeline
\* or a later one, and the caches what they know now or come to know.
Begin(n) ==
    /\ worker[n] = NoWork
    /\ CacheOf(n) # NoCM
    /\ worker' = [worker EXCEPT ![n] =
                     [ pc   |-> IF Troubled(Description[CacheOf(n)]) THEN "diagnose" ELSE "observe",
                       look |-> [ at |-> now, desc |-> CacheOf(n), diag |-> NoDiagnostics,
                                  from |-> Latest, known |-> informed,
                                  outdated |-> CacheOf(n) # Here.cms[n] ] ]]
    /\ Looking

\* The worlds a read of a kind may find, Lost if it may fail.
MayFail(look, kind) == look.at < OutageEnd /\ kind \in Unreliable
Unread(look, kind)  == IF MayFail(look, kind) THEN {Lost} ELSE {}
Between(first, last) == {timeline[i].world : i \in first .. last}
Found(look, kind) ==
    Unread(look, kind) \cup IF kind \in Cached THEN Between(look.known[kind], informed[kind])
                                               ELSE Between(look.from, Latest)
\* The worlds the dependencies are read in.
FoundEach(look, deps) ==
    {in \in [deps -> DOMAIN World \cup {Lost}] : \A x \in deps : in[x] \in Found(look, x.kind)}

\* Events, pods and the log of each container, changed objects and each dependency.
Diagnose(n) ==
    LET look == worker[n].look
        desc == Description[look.desc]
    IN  /\ worker[n].pc = "diagnose"
        /\ \E e \in Found(look, "Event"), p \in Found(look, "Pod"), x \in FoundEach(look, desc.deps) :
              \E l \in [Containers(Workload(p).pods) -> Found(look, "logs")] :
                 \E events \in collectWarningEvents(Workload(e).events),
                    logs \in collectPodLogs(Workload(p).pods, l) :
                       worker' = [worker EXCEPT ![n] =
                          [ pc |-> "observe",
                            look |-> [look EXCEPT !.from = Latest, !.diag =
                                        [ events |-> events, logs |-> logs,
                                          objects |-> objectChangesFromAnnotation(desc.resources),
                                          deps |-> checkDependencies(desc.deps, x) ]] ]]
        /\ Looking

\* The calls of the other half, in their order: a Get for each preferred pool, one
\* for the pool that is found or named, and then those for the kinds.
Named == Len(PreferredPools) + 1
Turn  == [ hco |-> Named + 1, handlers |-> Named + 2, migrations |-> Named + 3, vmis |-> Named + 4,
           operators |-> Named + 5, pools |-> Named + 6, cv |-> Named + 7, kubevirt |-> Named + 8,
           cdi |-> Named + 9, ssp |-> Named + 10, maintenance |-> Named + 11 ]
AgentKinds == DOMAIN Turn

\* The application's pool; the i-th call is made in the world in[i].
PoolRead(in, label) ==
    LET there == {i \in DOMAIN PreferredPools : PreferredPools[i] \in DOMAIN Platform(in[i]).pools}
    IN  PoolNamed(PoolName({PreferredPools[i] : i \in there}, label), Platform(in[Named]).pools)

\* Mutant: the report is dated when it is complete.
SpecDatedLate(n, look, pool, obs, stages) ==
    LET desc == Description[look.desc]
    IN  [ namespace |-> n, revision |-> desc.revision, sync |-> desc.sync,
          health |-> desc.health, observedAt |-> now, diag |-> look.diag, pool |-> pool, obs |-> obs,
          graph |-> GraphOf(stages), dag |-> EvaluateTopologicalDAG(obs),
          evidence |-> correlateMultiSignalEvidence(look.diag.events, look.diag.logs, now) ]

\* The spec of the report.
SpecOf(n, look, pool, obs, stages) ==
    LET desc == Description[look.desc]
    IN  [ namespace |-> n, revision |-> desc.revision, sync |-> desc.sync,
          health |-> desc.health, observedAt |-> look.at, diag |-> look.diag, pool |-> pool, obs |-> obs,
          graph |-> GraphOf(stages), dag |-> EvaluateTopologicalDAG(obs),
          evidence |-> correlateMultiSignalEvidence(look.diag.events, look.diag.logs, now) ]

\* The platform is read call by call: cut[p] calls are made before the timeline goes
\* on from its entry p.  Then upsertReport asks the cache for the report.
Observe(n) ==
    LET look == worker[n].look
    IN  /\ worker[n].pc = "observe"
        /\ \E cut \in [look.from .. Latest - 1 -> 0 .. Named + 11],
              nopools \in SUBSET {i \in 1 .. Named : MayFail(look, "pool")},
              nokinds \in SUBSET {k \in AgentKinds : MayFail(look, k)} :
              LET At(i) == timeline[look.from + Cardinality({p \in DOMAIN cut : cut[p] < i})].world
                  seen == [k \in Kinds |-> IF k \in AgentKinds \ nokinds THEN Platform(At(Turn[k]))[k]
                                                                      ELSE NoCluster[k]]
              IN  \E pool \in {PoolRead([i \in 1 .. Named |-> IF i \in nopools THEN Lost ELSE At(i)],
                                       Description[look.desc].pool)}, got \in Listed(seen) :
                     \E obs \in {ObservePlatform(got, pool)} : \E stages \in {Stages(obs)} :
                        worker' = [worker EXCEPT ![n] =
                           [ pc |-> "write", spec |-> SpecOf(n, look, pool, obs, stages),
                             base |-> repCache, outdated |-> look.outdated ]]
        /\ Looking

\* client.MergeFrom: what differs from the version read replaces what the API
\* server has; structs are merged field by field, lists are replaced whole.
Pick(new, old, current) == IF new # old THEN new ELSE current
MergeFields(new, old, current) == [f \in DOMAIN new |-> Pick(new[f], old[f], current[f])]
Structs == {"virt", "cv", "kubevirt", "cdi", "ssp"}

\* Mutants: empty lists are left out of the patch; what did not change at the API
\* server is taken from the version read.
MergeNonEmpty(new, old, current) ==
    [ MergeFields(new, old, current) EXCEPT
        !.diag = [f \in DOMAIN @ |-> IF new.diag[f] = NoDiagnostics[f] THEN current.diag[f]
                                                              ELSE new.diag[f]] ]
MergeIntoOld(new, old, current) == MergeFields(new, current, old)

MergeFrom(new, old, current) ==
    [ MergeFields(new, old, current) EXCEPT
        !.diag  = MergeFields(new.diag, old.diag, current.diag),
        !.pool  = MergeFields(new.pool, old.pool, current.pool),
        !.graph = MergeFields(new.graph, old.graph, current.graph),
        !.dag   = MergeFields(new.dag, old.dag, current.dag),
        !.obs = [f \in DOMAIN new.obs |->
                   IF f \in Structs THEN MergeFields(new.obs[f], old.obs[f], current.obs[f])
                                    ELSE Pick(new.obs[f], old.obs[f], current.obs[f])] ]

\* Create if the cache had none, which fails if there is one; a patch otherwise.
\* Whatever happens, the reconcile is over and another one follows.
Write(n, arrives) ==
    LET w == worker[n]
    IN  /\ w.pc = "write"
        /\ arrives \/ now < OutageEnd
        /\ worker' = [worker EXCEPT ![n] = NoWork]
        /\ report' = IF ~arrives \/ (w.base = NoReport /\ report # NoReport) THEN report
                     ELSE IF w.base = NoReport THEN w.spec ELSE MergeFrom(w.spec, w.base, report)
        /\ raced' = IF report' = report THEN raced ELSE w.base # report \/ w.outdated
        /\ UNCHANGED <<now, timeline, informed, repCache>>

-----------------------------------------------------------------------------
Step(n) == Begin(n) \/ Diagnose(n) \/ Observe(n) \/ Write(n, TRUE)

Around ==
    \/ \E n \in Namespaces, d \in AnyCM : Edit(n, d)
    \/ \E w \in DOMAIN World : ChangeAround(w)

Next ==
    \/ Tick \/ Around \/ ReportSync \/ Restart
    \/ \E k \in Cached : InformerSync(k)
    \/ \E n \in Namespaces : Step(n) \/ Write(n, FALSE)

Spec == Init /\ [][Next]_vars

\* A reconcile asks to be run again after 30 s, or returns an error and is
\* retried; the watches keep delivering; time passes.
FairSpec ==
    /\ Spec /\ WF_vars(Tick) /\ WF_vars(ReportSync)
    /\ \A k \in Cached : WF_vars(InformerSync(k))
    /\ \A n \in Namespaces : WF_vars(Step(n))

-----------------------------------------------------------------------------
(***************************************************************************)
(* Properties.                                                             *)
(***************************************************************************)

\* The report is whole or absent, the informers are within the timeline, and every
\* reconcile is at one of its steps.
TypeOK ==
    /\ now \in 0 .. MaxTime /\ raced \in BOOLEAN
    /\ Latest \in 1 .. (MaxChanges + 1)
    /\ \A i \in DOMAIN timeline : /\ timeline[i].at \in 0 .. now /\ timeline[i].world \in DOMAIN World
                                 /\ \A n \in Namespaces : timeline[i].cms[n] \in AnyCM
    /\ \A k \in Cached : informed[k] \in DOMAIN timeline
    /\ \A n \in Namespaces : worker[n].pc \in {"idle", "diagnose", "observe", "write"}
    /\ \A r \in {report, repCache} : r # NoReport =>
          /\ r.namespace \in Namespaces /\ r.observedAt \in 0 .. now
          /\ Cardinality(r.diag.events) <= MaxEvents /\ Len(r.diag.logs) <= MaxLines

\* The part of an observation that each kind of objects is read for.
PartOf(obs) ==
    [ hco |-> obs.virt.hco, handlers |-> obs.virt.handlerReady,
      migrations |-> <<obs.virt.active, obs.virt.stalled>>, vmis |-> obs.virt.unmigratable,
      operators |-> obs.operators, pools |-> obs.pools, cv |-> obs.cv, kubevirt |-> obs.kubevirt,
      cdi |-> obs.cdi, ssp |-> obs.ssp, maintenance |-> obs.maintenance ]

ObservedIn(k, obs, pool, w) ==
    \E objects \in IF k \in Limited THEN PagesOf(Platform(w)[k]) ELSE {Platform(w)[k]} :
        PartOf(obs)[k] = PartOf(ObservePlatform([NoCluster EXCEPT ![k] = objects], pool))[k]

\* Report r is what a reconcile makes of description d when each of its reads finds
\* one of the worlds in live, a read through a cache one of those in cached.
Made(r, d, live, cached) ==
    LET From(kind) == IF kind \in Cached THEN cached ELSE live
    IN  /\ r.revision = d.revision /\ r.sync = d.sync /\ r.health = d.health
        /\ \E in \in [1 .. Named -> live] : r.pool = PoolRead(in, d.pool)
        /\ \A k \in AgentKinds : \E w \in live : ObservedIn(k, r.obs, r.pool, w)
        /\ r.graph = EvaluatePlatformDependencyGraph(r.obs) /\ r.dag = EvaluateTopologicalDAG(r.obs)
        /\ r.evidence = correlateMultiSignalEvidence(r.diag.events, r.diag.logs, r.evidence.at)
        /\ r.evidence.logs # <<>> => r.evidence.at >= r.observedAt
        /\ IF ~Troubled(d) THEN r.diag = NoDiagnostics
           ELSE /\ \E w \in cached : r.diag.events \in collectWarningEvents(Workload(w).events)
                /\ \E w \in cached : \E in \in [Containers(Workload(w).pods) -> live] :
                       r.diag.logs \in collectPodLogs(Workload(w).pods, in)
                /\ \E in \in [d.deps -> live \cup cached] :
                       /\ \A x \in d.deps : in[x] \in From(x.kind)
                       /\ r.diag.deps = checkDependencies(d.deps, in)
                /\ r.diag.objects = objectChangesFromAnnotation(d.resources)

\* What was there at time t or later, and what was there at any time; with it the
\* outcome of a read that fails.
Later(t) == {i \in DOMAIN timeline : i < Latest => timeline[i + 1].at >= t}
Since(t) == {timeline[i].world : i \in Later(t)}
Ever     == {timeline[i].world : i \in DOMAIN timeline}
OrLost(worlds, t) == worlds \cup IF t < OutageEnd THEN {Lost} ELSE {}

\* The ConfigMaps of the report's namespace that were there at its time or later.
DescribedBy(r) == {timeline[i].cms[r.namespace] : i \in Later(r.observedAt)} \ {NoCM}

\* What a reader may rely on, because the gates measure silence from observedAt:
\* unless its last write was made from an outdated copy, no part of a report that
\* is read from the API server is older than the time the report carries.  Each of
\* them was there at that time or later, or could not be read; events, the list of
\* pods and typed dependencies may be older, as their caches are; the analyses are
\* those of the stored observation; and an application that is well has no
\* diagnostics left over from worse times.
EvidenceCurrent ==
    report # NoReport /\ ~raced =>
        \E d \in DescribedBy(report) :
            Made(report, Description[d], OrLost(Since(report.observedAt), report.observedAt),
                                         OrLost(Ever, report.observedAt))

\* Fail closed: when the gate on dependencies passes for an application in trouble,
\* each dependency was really there, at or after the report's time unless its kind
\* is read through a cache; neither a read that failed nor a kind nobody checks
\* makes it pass.
DependenciesFailClosed ==
    report # NoReport /\ ~raced /\ Troubled(report)
        /\ DependenciesReady({[obs |-> Seen(report)]}) = "True" =>
            \E d \in DescribedBy(report) : \A x \in Description[d].deps :
                /\ x.kind \in KnownKinds
                /\ \E w \in IF x.kind \in Cached THEN Ever ELSE Since(report.observedAt) :
                      x \in World[w].workload.resources

\* While an application keeps its namespace, its report never goes back in time,
\* with lagging caches, lost writes and restarts.
Used == {n \in Namespaces : \E i \in DOMAIN timeline : timeline[i].cms[n] # NoCM}
ReportTimeForward ==
    [][Cardinality(Used) = 1 => report'.observedAt >= report.observedAt]_vars

\* Whatever was written in between, by a late reconcile of a ConfigMap that is
\* gone or against an old copy of the report, the report comes to show the
\* present ConfigMap and what there is around it, and stays so.
Shows ==
    \A n \in Namespaces : Here.cms[n] # NoCM =>
        /\ report # NoReport /\ report.namespace = n
        /\ Made(report, Description[Here.cms[n]], {Here.world}, {Here.world})
ReportSettles == <>[]Shows
=============================================================================
