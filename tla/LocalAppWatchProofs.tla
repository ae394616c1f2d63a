------------------------- MODULE LocalAppWatchProofs -------------------------
(***************************************************************************)
(* Proofs about the LocalAppWatch agent, for every set of namespaces,      *)
(* descriptions and worlds, with informers that lag, each by itself, reads *)
(* and writes that fail, each alone, and restarts.                         *)
(***************************************************************************)
EXTENDS LocalAppWatch, PlatformAnalysisProofs, FiniteSetTheorems, TLAPS

-----------------------------------------------------------------------------
(* The collectors keep within their limits.                                *)

\* At most MaxEvents warning events are collected.
LEMMA EventsLimited ==
    ASSUME NEW events, NEW S \in collectWarningEvents(events)
    PROVE  Cardinality(S) <= MaxEvents
<1> DEFINE Best(e, T) == \A f \in T : f.count <= e.count
           Grouped(T, warnings) ==
               /\ \A e \in T : Best(e, {f \in warnings : f.key = e.key})
               /\ \A f \in warnings : \E e \in T : e.key = f.key
               /\ \A e, f \in T : e.key = f.key => e = f
           Groups(warnings) == {T \in SUBSET warnings : Grouped(T, warnings)}
           Cut(T) == IF Cardinality(T) <= MaxEvents THEN {T}
                     ELSE {U \in kSubset(MaxEvents, T) : \A e \in U : Best(e, T \ U)}
<1>1. PICK page \in Pages(events) : S \in UNION {Cut(T) : T \in Groups({e \in page : e.warning})}
  <2>1. S \in UNION {UNION {Cut(T) : T \in Groups({e \in page : e.warning})} : page \in Pages(events)}
    BY Zenon DEF collectWarningEvents
  <2> HIDE DEF Cut, Groups
  <2> QED BY <2>1
<1> HIDE DEF Cut, Groups
<1>2. PICK T : S \in Cut(T)
  BY <1>1
<1> USE DEF Cut
<1>3. CASE Cardinality(T) <= MaxEvents
  BY <1>2, <1>3
<1>4. CASE ~(Cardinality(T) <= MaxEvents)
  <2>1. S \in kSubset(MaxEvents, T)
    BY <1>2, <1>4
  <2>2. Cardinality(S) = MaxEvents
    BY <2>1 DEF kSubset
  <2> QED BY <2>2, AgentAssumption
<1> QED BY <1>3, <1>4

\* At most MaxLines log lines are collected.
LEMMA LogsLimited ==
    ASSUME NEW pods, NEW in, NEW lines \in collectPodLogs(pods, in)
    PROVE  Len(lines) <= MaxLines
<1> DEFINE UpTo(all) == IF Len(all) <= MaxLines THEN all ELSE SubSeq(all, 1, MaxLines)
<1>1. \E all : lines = UpTo(all)
  BY Zenon DEF collectPodLogs
<1>2. PICK all : lines = UpTo(all)
  BY <1>1
<1>3. CASE Len(all) <= MaxLines
  BY <1>2, <1>3
<1>4. CASE ~(Len(all) <= MaxLines)
  <2>1. Len(SubSeq(all, 1, MaxLines)) = MaxLines
    BY AgentAssumption
  <2> QED BY <1>2, <1>4, <2>1, AgentAssumption
<1> QED BY <1>3, <1>4

-----------------------------------------------------------------------------
(* What was there when.                                                    *)

Entries == [at : Nat, cms : [Namespaces -> AnyCM], world : DOMAIN World]

\* The timeline has entries of the past, and no informer has got beyond it.
TimeInv ==
    /\ now \in Nat
    /\ timeline \in Seq(Entries) /\ Len(timeline) >= 1
    /\ \A i \in 1 .. Len(timeline) : timeline[i].at <= now
    /\ informed \in [Cached -> 1 .. Len(timeline)]

LEMMA EntryParts ==
    ASSUME NEW e \in Entries
    PROVE  e.at \in Nat /\ e.cms \in [Namespaces -> AnyCM] /\ e.world \in DOMAIN World
BY DEF Entries

\* Later, the worlds of a live read and those of a cached one, for a timeline tl
\* and a reconcile of time t.
LaterOf(tl, t)  == {i \in 1 .. Len(tl) : i < Len(tl) => tl[i + 1].at >= t}
LiveIn(tl, t)   == OrLost({tl[i].world : i \in LaterOf(tl, t)}, t)
CachedIn(tl, t) == OrLost({tl[i].world : i \in 1 .. Len(tl)}, t)

\* Timeline tm goes on from tl with entries of time t or later.
GoesOn(tl, tm, t) ==
    /\ Len(tl) <= Len(tm)
    /\ \A i \in 1 .. Len(tl) : tm[i] = tl[i]
    /\ \A i \in 1 .. Len(tm) : i > Len(tl) => tm[i].at >= t

\* What was there at time t or later was so for good.
LEMMA LaterStays ==
    ASSUME NEW tl, NEW tm, Len(tl) \in Nat, Len(tm) \in Nat, NEW t \in Nat, GoesOn(tl, tm, t)
    PROVE  /\ LaterOf(tl, t) \subseteq LaterOf(tm, t)
           /\ \A i \in LaterOf(tl, t) : tm[i] = tl[i]
           /\ LiveIn(tl, t) \subseteq LiveIn(tm, t)
           /\ CachedIn(tl, t) \subseteq CachedIn(tm, t)
<1>1. LaterOf(tl, t) \subseteq LaterOf(tm, t) /\ \A i \in LaterOf(tl, t) : tm[i] = tl[i]
  BY DEF LaterOf, GoesOn
<1>2. 1 .. Len(tl) \subseteq 1 .. Len(tm) /\ \A i \in 1 .. Len(tl) : tm[i] = tl[i]
  BY DEF GoesOn
<1>3. LiveIn(tl, t) \subseteq LiveIn(tm, t)
  BY <1>1, Zenon DEF LiveIn, OrLost
<1>4. CachedIn(tl, t) \subseteq CachedIn(tm, t)
  BY <1>2, Zenon DEF CachedIn, OrLost
<1> QED BY <1>1, <1>3, <1>4

\* What was there later was there.
LEMMA LiveIsCached ==
    ASSUME NEW tl, NEW t
    PROVE  LiveIn(tl, t) \subseteq CachedIn(tl, t)
BY DEF LiveIn, CachedIn, LaterOf, OrLost

\* What informers are at, and how the timeline goes on, when things around the
\* agent change.
LEMMA BecomeGoesOn ==
    ASSUME TimeInv, NEW c \in [Namespaces -> AnyCM], NEW w \in DOMAIN World, Become(c, w)
    PROVE  /\ TimeInv' /\ now' = now
           /\ GoesOn(timeline, timeline', now)
           /\ UNCHANGED <<report, repCache, worker, raced>>
<1> DEFINE entry == [at |-> now, cms |-> c, world |-> w]
           Up(k) == informed[k] = Latest /\ Shown(k, entry) = Shown(k, Here)
<1>1. /\ timeline' = Append(timeline, entry)
      /\ informed' = [k \in Cached |-> IF Up(k) THEN Latest + 1 ELSE informed[k]]
      /\ UNCHANGED <<now, report, repCache, worker, raced>>
  BY Zenon DEF Become
<1>2. entry \in Entries /\ entry.at = now
  BY DEF TimeInv, Entries
<1> HIDE DEF entry, Up
<1>3. /\ timeline' \in Seq(Entries) /\ Len(timeline') = Len(timeline) + 1
      /\ \A i \in 1 .. Len(timeline) : timeline'[i] = timeline[i]
      /\ timeline'[Len(timeline) + 1] = entry
  BY <1>1, <1>2 DEF TimeInv
<1>4. informed' \in [Cached -> 1 .. Len(timeline')]
  BY <1>1, <1>3 DEF TimeInv, Latest
<1>5. \A i \in 1 .. Len(timeline') : timeline'[i].at <= now
  BY <1>2, <1>3 DEF TimeInv
<1>6. TimeInv'
  BY <1>1, <1>3, <1>4, <1>5 DEF TimeInv
<1>7. GoesOn(timeline, timeline', now)
  BY <1>2, <1>3 DEF GoesOn, TimeInv
<1> QED BY <1>1, <1>6, <1>7

\* The steps that change what is there, and the rest.
Outside == Tick \/ Around

LEMMA OutsideGoesOn ==
    ASSUME TimeInv, Outside
    PROVE  /\ TimeInv' /\ now <= now'
           /\ \A t \in Nat : t <= now => GoesOn(timeline, timeline', t)
           /\ UNCHANGED <<report, repCache, worker, raced>>
<1> DEFINE Goal == /\ TimeInv' /\ now <= now'
                   /\ \A t \in Nat : t <= now => GoesOn(timeline, timeline', t)
                   /\ UNCHANGED <<report, repCache, worker, raced>>
<1>1. CASE Tick
  <2>1. now' = now + 1 /\ UNCHANGED <<timeline, informed, report, repCache, worker, raced>>
    BY <1>1 DEF Tick
  <2>2. now' \in Nat /\ now <= now' /\ \A x \in Nat : x <= now => x <= now'
    BY <2>1 DEF TimeInv
  <2>4. \A i \in 1 .. Len(timeline) : timeline[i].at \in Nat
    BY EntryParts DEF TimeInv
  <2>5. \A i \in 1 .. Len(timeline) : timeline[i].at <= now'
    BY <2>2, <2>4 DEF TimeInv
  <2>6. TimeInv'
    BY <2>1, <2>2, <2>5 DEF TimeInv
  <2>3. \A t : GoesOn(timeline, timeline, t)
    BY DEF GoesOn, TimeInv
  <2> QED BY <2>1, <2>2, <2>3, <2>6
<1>2. ASSUME NEW c \in [Namespaces -> AnyCM], NEW w \in DOMAIN World, Become(c, w) PROVE Goal
  <2>1. /\ TimeInv' /\ now' = now /\ GoesOn(timeline, timeline', now)
        /\ UNCHANGED <<report, repCache, worker, raced>>
    BY <1>2, BecomeGoesOn
  <2>2. \A i \in 1 .. Len(timeline') : timeline'[i].at \in Nat
    BY <2>1, EntryParts DEF TimeInv
  <2>3. \A t \in Nat : t <= now => GoesOn(timeline, timeline', t)
    BY <2>1, <2>2 DEF GoesOn, TimeInv
  <2> QED BY <2>1, <2>3 DEF TimeInv
<1>3. Here.cms \in [Namespaces -> AnyCM] /\ Here.world \in DOMAIN World
  <2>1. timeline[Len(timeline)] \in Entries
    BY DEF TimeInv
  <2> QED BY <2>1, EntryParts, Zenon DEF Here, Latest
<1>4. ASSUME NEW n \in Namespaces, NEW d \in AnyCM, Edit(n, d) PROVE Goal
  <2>1. NoCM \in AnyCM
    BY Zenon DEF AnyCM
  <2>2. [m \in Namespaces |-> IF m = n THEN d ELSE NoCM] \in [Namespaces -> AnyCM]
    BY <2>1
  <2> QED BY <1>2, <1>3, <1>4, <2>2, Zenon DEF Edit
<1>5. ASSUME NEW w \in DOMAIN World, ChangeAround(w) PROVE Goal
  BY <1>2, <1>3, <1>5, Zenon DEF ChangeAround
<1> QED BY <1>1, <1>4, <1>5, Zenon DEF Outside, Around

\* The other steps leave the timeline and the clock alone.
Inside == UNCHANGED <<now, timeline>> /\ informed' \in [Cached -> 1 .. Len(timeline)]

LEMMA InsideTime == TimeInv /\ Inside => TimeInv'
BY DEF TimeInv, Inside

LEMMA SyncInside ==
    ASSUME TimeInv, NEW k \in Cached, InformerSync(k)
    PROVE  Inside
BY DEF TimeInv, InformerSync, Latest, Inside

LEMMA RestartInside == TimeInv /\ Restart => Inside
BY DEF TimeInv, Restart, Latest, Inside

LEMMA TimeInit == Init => TimeInv
<1> SUFFICES ASSUME Init PROVE TimeInv
  OBVIOUS
<1>1. PICK d \in DOMAIN Description, w \in DOMAIN World :
         timeline = << [ at |-> 0, world |-> w,
                         cms |-> [n \in Namespaces |->
                                    IF n = CHOOSE m \in Namespaces : TRUE THEN d ELSE NoCM] ] >>
  BY Zenon DEF Init
<1> DEFINE c == [n \in Namespaces |-> IF n = CHOOSE m \in Namespaces : TRUE THEN d ELSE NoCM]
           entry == [at |-> 0, world |-> w, cms |-> c]
<1>2. c \in [Namespaces -> AnyCM]
  <2>1. NoCM \in AnyCM /\ d \in AnyCM
    BY Zenon DEF AnyCM
  <2> QED BY <2>1
<1>3. timeline = <<entry>>
  BY <1>1
<1> HIDE DEF c
<1>4. entry \in Entries /\ entry.at = 0
  BY <1>2 DEF Entries
<1> HIDE DEF entry
<1>5. timeline \in Seq(Entries) /\ Len(timeline) = 1 /\ timeline[1] = entry
  BY <1>3, <1>4
<1>6. now = 0 /\ informed = [k \in Cached |-> 1]
  BY DEF Init
<1> QED BY <1>4, <1>5, <1>6 DEF TimeInv

-----------------------------------------------------------------------------
(* What a report is made of.                                               *)

DiagFields == {"events", "logs", "objects", "deps"}

DiagTyped(diag) ==
    /\ DOMAIN diag = DiagFields /\ IsRecord(diag)
    /\ Cardinality(diag.events) <= MaxEvents /\ Len(diag.logs) <= MaxLines

\* The diagnostics are those of description d, each read in a world of its own.
Diagnosed(diag, d, live, cached) ==
    IF ~Troubled(d) THEN diag = NoDiagnostics
    ELSE /\ \E w \in cached : diag.events \in collectWarningEvents(Workload(w).events)
         /\ \E w \in cached : \E in \in [Containers(Workload(w).pods) -> live] :
                diag.logs \in collectPodLogs(Workload(w).pods, in)
         /\ \E in \in [d.deps -> live \cup cached] :
                /\ \A x \in d.deps : in[x] \in IF x.kind \in Cached THEN cached ELSE live
                /\ diag.deps = checkDependencies(d.deps, in)
         /\ diag.objects = objectChangesFromAnnotation(d.resources)

\* The rest of the report.
Observed(r, d, live) ==
    /\ r.revision = d.revision /\ r.sync = d.sync /\ r.health = d.health
    /\ \E in \in [1 .. Named -> live] : r.pool = PoolRead(in, d.pool)
    /\ \A k \in AgentKinds : \E w \in live : ObservedIn(k, r.obs, r.pool, w)
    /\ r.graph = EvaluatePlatformDependencyGraph(r.obs) /\ r.dag = EvaluateTopologicalDAG(r.obs)
    /\ r.evidence = correlateMultiSignalEvidence(r.diag.events, r.diag.logs, r.evidence.at)
    /\ r.evidence.logs # <<>> => r.evidence.at >= r.observedAt

LEMMA MadeParts ==
    ASSUME NEW r, NEW d, NEW live, NEW cached
    PROVE  Made(r, d, live, cached) <=> Observed(r, d, live) /\ Diagnosed(r.diag, d, live, cached)
BY Zenon DEF Made, Observed, Diagnosed

LEMMA FunctionsMore ==
    ASSUME NEW S, NEW A, NEW B, A \subseteq B, NEW f \in [S -> A]
    PROVE  f \in [S -> B]
OBVIOUS

\* What is so with some worlds is so with more of them.
LEMMA DiagnosedMore ==
    ASSUME NEW diag, NEW d, NEW A, NEW B, NEW L, NEW M, A \subseteq L, B \subseteq M,
           Diagnosed(diag, d, A, B)
    PROVE  Diagnosed(diag, d, L, M)
<1>1. CASE ~Troubled(d)
  BY <1>1, Zenon DEF Diagnosed
<1>2. CASE Troubled(d)
  <2>1. \E w \in M : diag.events \in collectWarningEvents(Workload(w).events)
    BY <1>2, Zenon DEF Diagnosed
  <2>2. \E w \in M : \E in \in [Containers(Workload(w).pods) -> L] :
           diag.logs \in collectPodLogs(Workload(w).pods, in)
    <3>1. PICK w \in B : \E in \in [Containers(Workload(w).pods) -> A] :
             diag.logs \in collectPodLogs(Workload(w).pods, in)
      BY <1>2, Zenon DEF Diagnosed
    <3>2. PICK in \in [Containers(Workload(w).pods) -> A] : diag.logs \in collectPodLogs(Workload(w).pods, in)
      BY <3>1
    <3>3. in \in [Containers(Workload(w).pods) -> L]
      BY <3>2, FunctionsMore, Zenon
    <3> QED BY <3>1, <3>2, <3>3, Zenon
  <2>3. \E in \in [d.deps -> L \cup M] :
           /\ \A x \in d.deps : in[x] \in IF x.kind \in Cached THEN M ELSE L
           /\ diag.deps = checkDependencies(d.deps, in)
    <3>1. PICK in \in [d.deps -> A \cup B] :
             /\ \A x \in d.deps : in[x] \in IF x.kind \in Cached THEN B ELSE A
             /\ diag.deps = checkDependencies(d.deps, in)
      BY <1>2, Zenon DEF Diagnosed
    <3>2. A \cup B \subseteq L \cup M
      BY Zenon
    <3>3. in \in [d.deps -> L \cup M]
      BY <3>1, <3>2, FunctionsMore, Zenon
    <3>4. \A x \in d.deps : in[x] \in IF x.kind \in Cached THEN M ELSE L
      BY <3>1, Zenon
    <3> QED BY <3>1, <3>3, <3>4, Zenon
  <2>4. diag.objects = objectChangesFromAnnotation(d.resources)
    BY <1>2, Zenon DEF Diagnosed
  <2> QED BY <1>2, <2>1, <2>2, <2>3, <2>4, Zenon DEF Diagnosed
<1> QED BY <1>1, <1>2

LEMMA ObservedMore ==
    ASSUME NEW r, NEW d, NEW A, NEW L, A \subseteq L, Observed(r, d, A)
    PROVE  Observed(r, d, L)
<1>1. PICK in \in [1 .. Named -> A] : r.pool = PoolRead(in, d.pool)
  BY Zenon DEF Observed
<1>2. in \in [1 .. Named -> L]
  BY <1>1, FunctionsMore, Zenon
<1>3. \A k \in AgentKinds : \E w \in L : ObservedIn(k, r.obs, r.pool, w)
  BY Zenon DEF Observed
<1> QED BY <1>1, <1>2, <1>3, Zenon DEF Observed

LEMMA MadeMore ==
    ASSUME NEW r, NEW d, NEW A, NEW B, NEW L, NEW M, A \subseteq L, B \subseteq M, Made(r, d, A, B)
    PROVE  Made(r, d, L, M)
BY MadeParts, DiagnosedMore, ObservedMore

-----------------------------------------------------------------------------
(* What a reconcile has gathered.                                          *)

LookFields == {"at", "desc", "diag", "from", "known", "outdated"}

\* In namespace n there was ConfigMap d at one of the places I of the timeline.
ThereAt(tl, n, d, I) == d \in DOMAIN Description /\ d # NoCM /\ \E i \in I : tl[i].cms[n] = d

\* What the reconcile of n that is at step pc has gathered, at time t.
LookInv(look, pc, n, t, tl) ==
    /\ DOMAIN look = LookFields
    /\ look.at \in Nat /\ look.at <= t
    /\ ThereAt(tl, n, look.desc, 1 .. Len(tl))
    /\ ~look.outdated => ThereAt(tl, n, look.desc, LaterOf(tl, look.at))
    /\ look.from \in 1 .. Len(tl)
    /\ \A i \in 1 .. Len(tl) : i > look.from => tl[i].at >= look.at
    /\ look.known \in [Cached -> 1 .. Len(tl)]
    /\ DiagTyped(look.diag)
    /\ IF pc = "diagnose" THEN Troubled(Description[look.desc])
       ELSE Diagnosed(look.diag, Description[look.desc], LiveIn(tl, look.at), CachedIn(tl, look.at))

\* A report that is merged into the version it was read from is stored as it is.
Whole(r) == \A old : MergeFrom(r, old, old) = r

ReportFields == {"namespace", "revision", "sync", "health", "observedAt", "diag", "pool", "obs",
                 "graph", "dag", "evidence"}

\* The report that the reconcile of n is about to write.
SpecInv(spec, outdated, n, t, tl) ==
    /\ DOMAIN spec = ReportFields /\ Whole(spec) /\ DiagTyped(spec.diag)
    /\ spec.namespace = n /\ spec.observedAt \in Nat /\ spec.observedAt <= t
    /\ \E d : /\ ThereAt(tl, n, d, 1 .. Len(tl))
              /\ ~outdated => ThereAt(tl, n, d, LaterOf(tl, spec.observedAt))
              /\ Made(spec, Description[d], LiveIn(tl, spec.observedAt), CachedIn(tl, spec.observedAt))

WorkInv(w, n, t, tl) ==
    \/ w = NoWork
    \/ w.pc \in {"diagnose", "observe"} /\ LookInv(w.look, w.pc, n, t, tl)
    \/ w.pc = "write" /\ SpecInv(w.spec, w.outdated, n, t, tl)

BusyInv ==
    /\ DOMAIN worker = Namespaces
    /\ \A n \in Namespaces : WorkInv(worker[n], n, now, timeline)

LEMMA ThereStays ==
    ASSUME NEW tl, NEW tm, NEW n, NEW d, NEW I, NEW J, I \subseteq J, \A i \in I : tm[i] = tl[i],
           ThereAt(tl, n, d, I)
    PROVE  ThereAt(tm, n, d, J)
BY Zenon DEF ThereAt

\* What was gathered stays as good as it was while time passes.
LEMMA LookStays ==
    ASSUME NEW look, NEW pc, NEW n, NEW t \in Nat, NEW u \in Nat, t <= u,
           NEW tl, NEW tm, Len(tl) \in Nat, Len(tm) \in Nat,
           \A x \in Nat : x <= t => GoesOn(tl, tm, x),
           LookInv(look, pc, n, t, tl)
    PROVE  LookInv(look, pc, n, u, tm)
<1>1. look.at \in Nat /\ look.at <= t /\ look.at <= u
  BY DEF LookInv
<1>2. GoesOn(tl, tm, look.at)
  BY <1>1
<1>3. /\ LaterOf(tl, look.at) \subseteq LaterOf(tm, look.at)
      /\ \A i \in LaterOf(tl, look.at) : tm[i] = tl[i]
      /\ LiveIn(tl, look.at) \subseteq LiveIn(tm, look.at)
      /\ CachedIn(tl, look.at) \subseteq CachedIn(tm, look.at)
  BY <1>1, <1>2, LaterStays
<1>4. 1 .. Len(tl) \subseteq 1 .. Len(tm) /\ \A i \in 1 .. Len(tl) : tm[i] = tl[i]
  BY <1>2 DEF GoesOn
<1>5. ThereAt(tm, n, look.desc, 1 .. Len(tm))
  <2>1. ThereAt(tl, n, look.desc, 1 .. Len(tl))
    BY Zenon DEF LookInv
  <2> QED BY <1>4, <2>1, ThereStays
<1>6. ~look.outdated => ThereAt(tm, n, look.desc, LaterOf(tm, look.at))
  BY <1>3, ThereStays, Zenon DEF LookInv
<1>7. look.from \in 1 .. Len(tm) /\ \A i \in 1 .. Len(tm) : i > look.from => tm[i].at >= look.at
  <2>1. /\ look.from \in 1 .. Len(tl)
        /\ \A i \in 1 .. Len(tl) : i > look.from => tl[i].at >= look.at
    BY Zenon DEF LookInv
  <2>2. \A i \in 1 .. Len(tm) : i > Len(tl) => tm[i].at >= look.at
    BY <1>2 DEF GoesOn
  <2> QED BY <1>4, <2>1, <2>2
<1>8. look.known \in [Cached -> 1 .. Len(tm)]
  BY <1>4, FunctionsMore, Zenon DEF LookInv
<1>9. IF pc = "diagnose" THEN Troubled(Description[look.desc])
      ELSE Diagnosed(look.diag, Description[look.desc], LiveIn(tm, look.at), CachedIn(tm, look.at))
  BY <1>3, DiagnosedMore, Zenon DEF LookInv
<1> QED BY <1>1, <1>5, <1>6, <1>7, <1>8, <1>9, Zenon DEF LookInv

LEMMA SpecStays ==
    ASSUME NEW spec, NEW outdated, NEW n, NEW t \in Nat, NEW u \in Nat, t <= u,
           NEW tl, NEW tm, Len(tl) \in Nat, Len(tm) \in Nat,
           \A x \in Nat : x <= t => GoesOn(tl, tm, x),
           SpecInv(spec, outdated, n, t, tl)
    PROVE  SpecInv(spec, outdated, n, u, tm)
<1> DEFINE at == spec.observedAt
<1>1. at \in Nat /\ at <= t /\ at <= u
  BY DEF SpecInv
<1>2. GoesOn(tl, tm, at)
  BY <1>1
<1>3. /\ LaterOf(tl, at) \subseteq LaterOf(tm, at)
      /\ \A i \in LaterOf(tl, at) : tm[i] = tl[i]
      /\ LiveIn(tl, at) \subseteq LiveIn(tm, at)
      /\ CachedIn(tl, at) \subseteq CachedIn(tm, at)
  BY <1>1, <1>2, LaterStays
<1>4. 1 .. Len(tl) \subseteq 1 .. Len(tm) /\ \A i \in 1 .. Len(tl) : tm[i] = tl[i]
  BY <1>2 DEF GoesOn
<1>5. PICK d : /\ ThereAt(tl, n, d, 1 .. Len(tl))
               /\ ~outdated => ThereAt(tl, n, d, LaterOf(tl, at))
               /\ Made(spec, Description[d], LiveIn(tl, at), CachedIn(tl, at))
  BY Zenon DEF SpecInv
<1>6. ThereAt(tm, n, d, 1 .. Len(tm)) /\ (~outdated => ThereAt(tm, n, d, LaterOf(tm, at)))
  BY <1>3, <1>4, <1>5, ThereStays, Zenon
<1>7. Made(spec, Description[d], LiveIn(tm, at), CachedIn(tm, at))
  <2> HIDE DEF at
  <2> QED BY <1>3, <1>5, MadeMore
<1> QED BY <1>1, <1>6, <1>7, Zenon DEF SpecInv

LEMMA WorkStays ==
    ASSUME NEW w, NEW n, NEW t \in Nat, NEW u \in Nat, t <= u,
           NEW tl, NEW tm, Len(tl) \in Nat, Len(tm) \in Nat,
           \A x \in Nat : x <= t => GoesOn(tl, tm, x),
           WorkInv(w, n, t, tl)
    PROVE  WorkInv(w, n, u, tm)
BY LookStays, SpecStays, Zenon DEF WorkInv

\* A step of one reconcile leaves the others alone.
LEMMA OneWorks ==
    ASSUME BusyInv, NEW n \in Namespaces, NEW w,
           worker' = [worker EXCEPT ![n] = w], UNCHANGED <<now, timeline>>,
           WorkInv(w, n, now, timeline)
    PROVE  BusyInv'
<1>1. DOMAIN worker' = Namespaces
  BY DEF BusyInv
<1>2. \A m \in Namespaces : worker'[m] = IF m = n THEN w ELSE worker[m]
  BY DEF BusyInv
<1>3. \A m \in Namespaces : WorkInv(worker'[m], m, now, timeline)
  BY <1>2, Zenon DEF BusyInv
<1>4. \A m \in Namespaces : WorkInv(worker'[m], m, now', timeline')
  BY <1>3
<1> QED BY <1>1, <1>4 DEF BusyInv

\* What the reconcile of n has gathered, when it is at a step.
LEMMA LookNow ==
    ASSUME BusyInv, NEW n \in Namespaces, worker[n].pc \in {"diagnose", "observe"}
    PROVE  LookInv(worker[n].look, worker[n].pc, n, now, timeline)
<1>1. worker[n] # NoWork /\ worker[n].pc # "write"
  BY DEF NoWork
<1> QED BY <1>1, Zenon DEF BusyInv, WorkInv

LEMMA SpecThen ==
    ASSUME BusyInv, NEW n \in Namespaces, worker[n].pc = "write"
    PROVE  SpecInv(worker[n].spec, worker[n].outdated, n, now, timeline)
<1>1. worker[n] # NoWork /\ worker[n].pc \notin {"diagnose", "observe"}
  BY DEF NoWork
<1> QED BY <1>1, Zenon DEF BusyInv, WorkInv

LEMMA NoDiagnosticsTyped == DiagTyped(NoDiagnostics)
<1>1. DOMAIN NoDiagnostics = DiagFields /\ IsRecord(NoDiagnostics)
  BY DEF NoDiagnostics, DiagFields, IsRecord
<1>2. NoDiagnostics.events = {} /\ NoDiagnostics.logs = <<>>
  BY DEF NoDiagnostics
<1>3. Cardinality({}) = 0 /\ Len(<<>>) = 0
  BY FS_EmptySet
<1>4. Cardinality(NoDiagnostics.events) <= MaxEvents /\ Len(NoDiagnostics.logs) <= MaxLines
  BY <1>2, <1>3, AgentAssumption
<1> QED BY <1>1, <1>4 DEF DiagTyped

-----------------------------------------------------------------------------
(* The first two steps of a reconcile.                                     *)

\* What a read of a kind may find.
LEMMA FoundIn ==
    ASSUME TimeInv, NEW look, NEW pc, NEW n, LookInv(look, pc, n, now, timeline), NEW kind
    PROVE  Found(look, kind) \subseteq IF kind \in Cached THEN CachedIn(timeline, look.at)
                                                          ELSE LiveIn(timeline, look.at)
<1>1. ASSUME NEW worlds PROVE Unread(look, kind) \subseteq OrLost(worlds, look.at)
  BY DEF Unread, MayFail, OrLost
<1>2. ASSUME NEW worlds PROVE worlds \subseteq OrLost(worlds, look.at)
  BY DEF OrLost
<1>3. ASSUME kind \in Cached
      PROVE  Between(look.known[kind], informed[kind]) \subseteq {timeline[i].world : i \in 1 .. Len(timeline)}
  <2>1. look.known[kind] \in 1 .. Len(timeline) /\ informed[kind] \in 1 .. Len(timeline)
    BY <1>3 DEF LookInv, TimeInv
  <2>2. look.known[kind] .. informed[kind] \subseteq 1 .. Len(timeline)
    BY <2>1
  <2> QED BY <2>2, Zenon DEF Between
<1>4. Between(look.from, Latest) \subseteq {timeline[i].world : i \in LaterOf(timeline, look.at)}
  <2>1. /\ look.from \in 1 .. Len(timeline)
        /\ \A i \in 1 .. Len(timeline) : i > look.from => timeline[i].at >= look.at
    BY Zenon DEF LookInv
  <2>2. look.from .. Len(timeline) \subseteq LaterOf(timeline, look.at)
    BY <2>1 DEF LaterOf, TimeInv
  <2> QED BY <2>2, Zenon DEF Between, Latest
<1>5. CASE kind \in Cached
  <2>1. Between(look.known[kind], informed[kind]) \subseteq CachedIn(timeline, look.at)
    BY <1>2, <1>3, <1>5, Zenon DEF CachedIn
  <2>2. Unread(look, kind) \subseteq CachedIn(timeline, look.at)
    BY <1>1, Zenon DEF CachedIn
  <2> QED BY <1>5, <2>1, <2>2, Zenon DEF Found
<1>6. CASE kind \notin Cached
  <2>1. Between(look.from, Latest) \subseteq LiveIn(timeline, look.at)
    BY <1>2, <1>4, Zenon DEF LiveIn
  <2>2. Unread(look, kind) \subseteq LiveIn(timeline, look.at)
    BY <1>1, Zenon DEF LiveIn
  <2> QED BY <1>6, <2>1, <2>2, Zenon DEF Found
<1> QED BY <1>5, <1>6

\* The entry of the timeline that the present is, and the one the cache shows.
LEMMA PresentEntry ==
    ASSUME TimeInv
    PROVE  /\ Len(timeline) \in Nat /\ Latest \in 1 .. Len(timeline)
           /\ \A t : Latest \in LaterOf(timeline, t)
           /\ \A n \in Namespaces : CacheOf(n) \in AnyCM /\ Here.cms[n] \in AnyCM
           /\ informed["ConfigMap"] \in 1 .. Len(timeline)
<1>1. Latest \in 1 .. Len(timeline) /\ \A t : Latest \in LaterOf(timeline, t)
  BY DEF TimeInv, Latest, LaterOf
<1>2. informed["ConfigMap"] \in 1 .. Len(timeline)
  BY DEF TimeInv, Cached
<1>3. timeline[Latest] \in Entries /\ timeline[informed["ConfigMap"]] \in Entries
  BY <1>1, <1>2 DEF TimeInv
<1>4. ASSUME NEW n \in Namespaces
      PROVE  timeline[informed["ConfigMap"]].cms[n] \in AnyCM /\ timeline[Latest].cms[n] \in AnyCM
  BY <1>3, EntryParts
<1>5. Len(timeline) \in Nat
  BY DEF TimeInv
<1> QED BY <1>1, <1>2, <1>4, <1>5, Zenon DEF CacheOf, Here

\* A reconcile begins with the description the cache has and with the present time.
LEMMA BusyBegin ==
    ASSUME TimeInv, BusyInv, NEW n \in Namespaces, Begin(n)
    PROVE  BusyInv' /\ Inside
<1> DEFINE d == CacheOf(n)
           pc == IF Troubled(Description[d]) THEN "diagnose" ELSE "observe"
           out == d # Here.cms[n]
           look == [ at |-> now, desc |-> d, diag |-> NoDiagnostics, from |-> Latest,
                     known |-> informed, outdated |-> out ]
           w == [pc |-> pc, look |-> look]
<1>1. worker' = [worker EXCEPT ![n] = w] /\ d # NoCM /\ UNCHANGED <<now, timeline, informed>>
  BY Zenon DEF Begin, Looking
<1>2. out = (d # timeline[Latest].cms[n]) /\ d = timeline[informed["ConfigMap"]].cms[n]
  BY Zenon DEF CacheOf, Here
<1> HIDE DEF d, out
<1>3. /\ DOMAIN look = LookFields /\ look.at = now /\ look.desc = d /\ look.diag = NoDiagnostics
      /\ look.from = Latest /\ look.known = informed /\ look.outdated = out
  BY DEF LookFields
<1>4. /\ w.pc = pc /\ w.look = look /\ pc \in {"diagnose", "observe"}
      /\ IF pc = "diagnose" THEN Troubled(Description[d]) ELSE ~Troubled(Description[d])
  OBVIOUS
<1> HIDE DEF pc, look, w
<1>5. d \in DOMAIN Description
  BY <1>1, PresentEntry, Zenon DEF AnyCM, d
<1>6. ThereAt(timeline, n, d, 1 .. Len(timeline))
  BY <1>1, <1>2, <1>5, PresentEntry, Zenon DEF ThereAt
<1>7. ~out => ThereAt(timeline, n, d, LaterOf(timeline, now))
  BY <1>1, <1>2, <1>5, PresentEntry, Zenon DEF ThereAt
<1>8. now \in Nat /\ now <= now /\ \A i \in 1 .. Len(timeline) : i > Latest => timeline[i].at >= now
  BY DEF TimeInv, Latest
<1>9. IF pc = "diagnose" THEN Troubled(Description[d])
      ELSE Diagnosed(NoDiagnostics, Description[d], LiveIn(timeline, now), CachedIn(timeline, now))
  BY <1>4, Zenon DEF Diagnosed
<1>10. informed \in [Cached -> 1 .. Len(timeline)]
  BY DEF TimeInv
<1>11. LookInv(look, pc, n, now, timeline)
  BY <1>3, <1>6, <1>7, <1>8, <1>9, <1>10, PresentEntry, NoDiagnosticsTyped, Zenon DEF LookInv
<1>12. WorkInv(w, n, now, timeline)
  BY <1>4, <1>11, Zenon DEF WorkInv
<1>13. BusyInv'
  BY <1>1, <1>12, OneWorks, Zenon
<1> QED BY <1>1, <1>10, <1>13 DEF Inside

\* The diagnostics are what the separate reads find.
LEMMA BusyDiagnose ==
    ASSUME TimeInv, BusyInv, NEW n \in Namespaces, Diagnose(n)
    PROVE  BusyInv' /\ Inside
<1> DEFINE look == worker[n].look
           desc == Description[look.desc]
           L == LiveIn(timeline, look.at)
           C == CachedIn(timeline, look.at)
           diag(events, logs, x) == [ events |-> events, logs |-> logs,
                                      objects |-> objectChangesFromAnnotation(desc.resources),
                                      deps |-> checkDependencies(desc.deps, x) ]
<1>1. /\ worker[n].pc = "diagnose" /\ UNCHANGED <<now, timeline, informed>>
      /\ \E e \in Found(look, "Event"), p \in Found(look, "Pod"), x \in FoundEach(look, desc.deps) :
            \E l \in [Containers(Workload(p).pods) -> Found(look, "logs")] :
               \E events \in collectWarningEvents(Workload(e).events),
                  logs \in collectPodLogs(Workload(p).pods, l) :
                     worker' = [worker EXCEPT ![n] =
                        [pc |-> "observe", look |-> [look EXCEPT !.from = Latest, !.diag = diag(events, logs, x)]]]
  BY Zenon DEF Diagnose, Looking
<1>2a. PICK e \in Found(look, "Event"), p \in Found(look, "Pod"), x \in FoundEach(look, desc.deps) :
          \E l \in [Containers(Workload(p).pods) -> Found(look, "logs")] :
             \E events \in collectWarningEvents(Workload(e).events),
                logs \in collectPodLogs(Workload(p).pods, l) :
                   worker' = [worker EXCEPT ![n] =
                      [pc |-> "observe", look |-> [look EXCEPT !.from = Latest, !.diag = diag(events, logs, x)]]]
  BY <1>1
<1>2b. PICK l \in [Containers(Workload(p).pods) -> Found(look, "logs")] :
          \E events \in collectWarningEvents(Workload(e).events),
             logs \in collectPodLogs(Workload(p).pods, l) :
                worker' = [worker EXCEPT ![n] =
                   [pc |-> "observe", look |-> [look EXCEPT !.from = Latest, !.diag = diag(events, logs, x)]]]
  BY <1>2a
<1>2. PICK events \in collectWarningEvents(Workload(e).events), logs \in collectPodLogs(Workload(p).pods, l) :
         worker' = [worker EXCEPT ![n] =
            [pc |-> "observe", look |-> [look EXCEPT !.from = Latest, !.diag = diag(events, logs, x)]]]
  BY <1>2b
<1> DEFINE objects == objectChangesFromAnnotation(desc.resources)
           deps == checkDependencies(desc.deps, x)
           d == [events |-> events, logs |-> logs, objects |-> objects, deps |-> deps]
           new == [look EXCEPT !.from = Latest, !.diag = d]
           w == [pc |-> "observe", look |-> new]
<1>3. LookInv(look, "diagnose", n, now, timeline)
  BY <1>1, LookNow
<1>4. worker' = [worker EXCEPT ![n] = w]
  BY <1>2
<1> HIDE DEF look, desc, L, C
<1>5. /\ Found(look, "Event") \subseteq C /\ Found(look, "Pod") \subseteq C /\ Found(look, "logs") \subseteq L
      /\ \A y \in desc.deps : Found(look, y.kind) \subseteq IF y.kind \in Cached THEN C ELSE L
  <2>1. \A kind : Found(look, kind) \subseteq IF kind \in Cached THEN C ELSE L
    BY <1>3, FoundIn, Zenon DEF C, L
  <2>2. "Event" \in Cached /\ "Pod" \in Cached /\ "logs" \notin Cached
    BY DEF Cached
  <2> QED BY <2>1, <2>2, Zenon
<1>6. /\ x \in [desc.deps -> L \cup C]
      /\ \A y \in desc.deps : x[y] \in IF y.kind \in Cached THEN C ELSE L
  <2>1. x \in [desc.deps -> DOMAIN World \cup {Lost}] /\ \A y \in desc.deps : x[y] \in Found(look, y.kind)
    BY <1>2, Zenon DEF FoundEach
  <2>2. \A y \in desc.deps : x[y] \in IF y.kind \in Cached THEN C ELSE L
    BY <1>5, <2>1, Zenon
  <2>3. \A y \in desc.deps : x[y] \in L \cup C
    BY <2>2, Zenon
  <2> QED BY <2>1, <2>2, <2>3
<1>7. l \in [Containers(Workload(p).pods) -> L]
  BY <1>2, <1>5, FunctionsMore, Zenon
<1> HIDE DEF objects, deps
<1>8. /\ DOMAIN d = DiagFields /\ IsRecord(d) /\ d.events = events /\ d.logs = logs
      /\ d.deps = deps /\ d.objects = objects
  BY DEF DiagFields, IsRecord
<1> HIDE DEF d
<1>9. DiagTyped(d)
  <2>1. Cardinality(events) <= MaxEvents
    BY <1>2, EventsLimited, Zenon
  <2>2. Len(logs) <= MaxLines
    BY <1>2, LogsLimited, Zenon
  <2> QED BY <1>8, <2>1, <2>2, Zenon DEF DiagTyped
<1>10. Diagnosed(d, desc, L, C)
  <2>1. Troubled(desc)
    BY <1>3, Zenon DEF LookInv, desc
  <2>2. \E v \in C : d.events \in collectWarningEvents(Workload(v).events)
    BY <1>2, <1>5, <1>8, Zenon
  <2>3. \E v \in C : \E in \in [Containers(Workload(v).pods) -> L] : d.logs \in collectPodLogs(Workload(v).pods, in)
    BY <1>2, <1>5, <1>7, <1>8, Zenon
  <2>4. /\ d.deps = checkDependencies(desc.deps, x)
        /\ d.objects = objectChangesFromAnnotation(desc.resources)
    BY <1>8, Zenon DEF deps, objects
  <2> QED BY <1>6, <2>1, <2>2, <2>3, <2>4, Zenon DEF Diagnosed
<1>11. /\ DOMAIN new = LookFields /\ new.at = look.at /\ new.desc = look.desc /\ new.known = look.known
       /\ new.outdated = look.outdated /\ new.diag = d /\ new.from = Latest
  <2>1. DOMAIN look = LookFields
    BY <1>3, Zenon DEF LookInv
  <2> QED BY <2>1 DEF LookFields
<1>12. w.pc = "observe" /\ w.look = new
  OBVIOUS
<1> HIDE DEF new, w
<1>13. Latest \in 1 .. Len(timeline) /\ \A i \in 1 .. Len(timeline) : i > Latest => timeline[i].at >= look.at
  BY DEF TimeInv, Latest
<1>14. LookInv(new, "observe", n, now, timeline)
  <2>1. "observe" # "diagnose"
    OBVIOUS
  <2> QED BY <1>3, <1>9, <1>10, <1>11, <1>13, <2>1, Zenon DEF LookInv, desc, L, C
<1>15. WorkInv(w, n, now, timeline)
  <2>1. "observe" \in {"diagnose", "observe"}
    OBVIOUS
  <2> QED BY <1>12, <1>14, <2>1, Zenon DEF WorkInv
<1>16. BusyInv'
  <2>1. worker' = [worker EXCEPT ![n] = w] /\ UNCHANGED <<now, timeline>>
    BY <1>1, <1>4 DEF w, new, d, objects, deps, look, desc
  <2> QED BY <1>15, <2>1, OneWorks, Zenon
<1> QED BY <1>1, <1>16 DEF Inside, TimeInv

-----------------------------------------------------------------------------
(* The platform is read, and the spec of the report is made of it.         *)

\* The part of an observation that is read for a kind depends on that kind only.
LEMMA PartReads ==
    ASSUME NEW c, NEW e, NEW pool, NEW k \in AgentKinds, c[k] = e[k]
    PROVE  PartOf(ObservePlatform(c, pool))[k] = PartOf(ObservePlatform(e, pool))[k]
<1> DEFINE o == ObservePlatform(c, pool)
           q == ObservePlatform(e, pool)
           all(x) == readAllMachineConfigPools(x)
<1>1. ASSUME NEW x, NEW y, x = ObservePlatform(y, pool)
      PROVE  LET p == PartOf(x)
                 v == readVirtualizationStatus(y)
             IN  /\ p.hco = v.hco /\ p.handlers = v.handlerReady
                 /\ p.migrations = <<v.active, v.stalled>> /\ p.vmis = v.unmigratable
                 /\ p.operators = y.operators
                 /\ p.pools = (IF all(y) = <<>> THEN <<pool>> ELSE all(y))
                 /\ p.cv = readClusterVersion(y)
                 /\ p.kubevirt = readOperatorStatus(y.kubevirt) /\ p.cdi = readOperatorStatus(y.cdi)
                 /\ p.ssp = readOperatorStatus(y.ssp) /\ p.maintenance = readNodeMaintenanceStatus(y)
  <2> DEFINE p == PartOf(x)
             v == readVirtualizationStatus(y)
  <2>1. /\ x.virt = v /\ x.operators = y.operators
        /\ x.pools = (IF all(y) = <<>> THEN <<pool>> ELSE all(y))
        /\ x.cv = readClusterVersion(y)
        /\ x.kubevirt = readOperatorStatus(y.kubevirt) /\ x.cdi = readOperatorStatus(y.cdi)
        /\ x.ssp = readOperatorStatus(y.ssp) /\ x.maintenance = readNodeMaintenanceStatus(y)
    BY <1>1, ObserveParts, Zenon
  <2> HIDE DEF v, all
  <2>2. /\ p.hco = x.virt.hco /\ p.handlers = x.virt.handlerReady
        /\ p.migrations = <<x.virt.active, x.virt.stalled>> /\ p.vmis = x.virt.unmigratable
        /\ p.operators = x.operators /\ p.pools = x.pools /\ p.cv = x.cv /\ p.kubevirt = x.kubevirt
        /\ p.cdi = x.cdi /\ p.ssp = x.ssp /\ p.maintenance = x.maintenance
    BY Zenon DEF PartOf
  <2> HIDE DEF p
  <2> QED BY <2>1, <2>2, Zenon DEF v, p
<1> DEFINE p == PartOf(o)
           r == PartOf(q)
           v == readVirtualizationStatus(c)
           u == readVirtualizationStatus(e)
<1>2. /\ p.hco = v.hco /\ p.handlers = v.handlerReady
      /\ p.migrations = <<v.active, v.stalled>> /\ p.vmis = v.unmigratable
      /\ p.operators = c.operators /\ p.pools = (IF all(c) = <<>> THEN <<pool>> ELSE all(c))
      /\ p.cv = readClusterVersion(c)
      /\ p.kubevirt = readOperatorStatus(c.kubevirt) /\ p.cdi = readOperatorStatus(c.cdi)
      /\ p.ssp = readOperatorStatus(c.ssp) /\ p.maintenance = readNodeMaintenanceStatus(c)
  BY <1>1, Zenon
<1>3. /\ r.hco = u.hco /\ r.handlers = u.handlerReady
      /\ r.migrations = <<u.active, u.stalled>> /\ r.vmis = u.unmigratable
      /\ r.operators = e.operators /\ r.pools = (IF all(e) = <<>> THEN <<pool>> ELSE all(e))
      /\ r.cv = readClusterVersion(e)
      /\ r.kubevirt = readOperatorStatus(e.kubevirt) /\ r.cdi = readOperatorStatus(e.cdi)
      /\ r.ssp = readOperatorStatus(e.ssp) /\ r.maintenance = readNodeMaintenanceStatus(e)
  BY <1>1, Zenon
<1> HIDE DEF p, r
<1>4. /\ c.hco = e.hco => v.hco = u.hco
      /\ c.handlers = e.handlers => v.handlerReady = u.handlerReady
      /\ c.migrations = e.migrations => v.active = u.active /\ v.stalled = u.stalled
      /\ c.vmis = e.vmis => v.unmigratable = u.unmigratable
  BY Zenon DEF readVirtualizationStatus
<1>5. c.pools = e.pools => all(c) = all(e)
  BY Zenon DEF readAllMachineConfigPools
<1>6. c.cv = e.cv => readClusterVersion(c) = readClusterVersion(e)
  BY Zenon DEF readClusterVersion
<1>7. c.maintenance = e.maintenance => readNodeMaintenanceStatus(c) = readNodeMaintenanceStatus(e)
  BY Zenon DEF readNodeMaintenanceStatus
<1> HIDE DEF v, u, all
<1>8. k \in {"hco", "handlers", "migrations", "vmis", "operators", "pools", "cv", "kubevirt", "cdi",
             "ssp", "maintenance"}
  BY DEF AgentKinds, Turn
<1>9. p[k] = r[k]
  <2>1. CASE k \in {"hco", "handlers", "migrations", "vmis"}
    BY <1>2, <1>3, <1>4, <2>1
  <2>2. CASE k \in {"operators", "pools", "cv", "kubevirt"}
    BY <1>2, <1>3, <1>5, <1>6, <2>2
  <2>3. CASE k \in {"cdi", "ssp", "maintenance"}
    BY <1>2, <1>3, <1>7, <2>3
  <2> QED BY <1>8, <2>1, <2>2, <2>3
<1> QED BY <1>9 DEF p, r, o, q

\* Of a kind that is listed with a limit a page is read, the others are read whole.
LEMMA ListedPages ==
    ASSUME NEW c, DOMAIN c = Kinds, NEW got \in Listed(c), NEW k \in Kinds
    PROVE  IF k \in Limited THEN got[k] \in PagesOf(c[k]) ELSE got[k] = c[k]
<1>1. PICK p \in PagesOf(c.pools) \X PagesOf(c.maintenance) \X PagesOf(c.migrations) \X PagesOf(c.vmis) :
         got = [c EXCEPT !.pools = p[1], !.maintenance = p[2], !.migrations = p[3], !.vmis = p[4]]
  BY DEF Listed
<1>2. Limited \subseteq Kinds
  BY DEF Limited, Kinds, NoCluster
<1>3. /\ DOMAIN got = Kinds /\ \A x \in Kinds \ Limited : got[x] = c[x]
      /\ got.pools = p[1] /\ got.maintenance = p[2] /\ got.migrations = p[3] /\ got.vmis = p[4]
  BY <1>1, <1>2 DEF Limited
<1>4. \A x \in Limited : got[x] \in PagesOf(c[x])
  BY <1>3 DEF Limited
<1> QED BY <1>3, <1>4

\* What is read of kind k in the world w is what an observation shows of it.
LEMMA ReadObserved ==
    ASSUME NEW k \in AgentKinds, NEW w, NEW got, NEW pool,
           IF k \in Limited THEN got[k] \in PagesOf(Platform(w)[k]) ELSE got[k] = Platform(w)[k]
    PROVE  ObservedIn(k, ObservePlatform(got, pool), pool, w)
<1> DEFINE objects == got[k]
           c == [NoCluster EXCEPT ![k] = objects]
<1>1. k \in DOMAIN NoCluster
  BY DEF AgentKinds, Turn, NoCluster
<1>2. c[k] = objects
  BY <1>1
<1> HIDE DEF c
<1>3. PartOf(ObservePlatform(got, pool))[k] = PartOf(ObservePlatform(c, pool))[k]
  BY <1>2, PartReads
<1>4. objects \in IF k \in Limited THEN PagesOf(Platform(w)[k]) ELSE {Platform(w)[k]}
  OBVIOUS
<1> QED BY <1>3, <1>4, Zenon DEF ObservedIn, c

\* The time at which the evidence was put together is the only thing it takes from there.
LEMMA EvidenceAgain ==
    ASSUME NEW events, NEW logs, NEW t
    PROVE  LET x == correlateMultiSignalEvidence(events, logs, t)
           IN  /\ x = correlateMultiSignalEvidence(events, logs, x.at)
               /\ x.logs # <<>> => x.at = t
<1> DEFINE Signal(line) == line.signal
           signals == SelectSeq(logs, Signal)
           seen == {[key |-> e.key, at |-> e.at, critical |-> e.fails] : e \in events}
           x == correlateMultiSignalEvidence(events, logs, t)
<1>1. \A u : correlateMultiSignalEvidence(events, logs, u) =
                [events |-> seen, logs |-> signals, at |-> IF signals = <<>> THEN NoTime ELSE u]
  BY Zenon DEF correlateMultiSignalEvidence
<1> HIDE DEF seen, signals, x
<1>2. x = [events |-> seen, logs |-> signals, at |-> IF signals = <<>> THEN NoTime ELSE t]
  BY <1>1 DEF x
<1>3. x.logs = signals /\ x.at = (IF signals = <<>> THEN NoTime ELSE t)
  BY <1>2
<1>4. correlateMultiSignalEvidence(events, logs, x.at) = x
  BY <1>1, <1>2, <1>3
<1> QED BY <1>3, <1>4, Zenon DEF x

\* The spec of a report that is made of the objects got and the application's pool.
SpecNow(n, look, got, pool) ==
    SpecOf(n, look, pool, ObservePlatform(got, pool), Stages(ObservePlatform(got, pool)))

LEMMA SpecParts ==
    ASSUME NEW n, NEW look, NEW got, NEW pool
    PROVE  LET s == SpecNow(n, look, got, pool)
               d == Description[look.desc]
           IN  /\ DOMAIN s = ReportFields /\ IsRecord(s)
               /\ s.namespace = n /\ s.observedAt = look.at
               /\ s.revision = d.revision /\ s.sync = d.sync /\ s.health = d.health
               /\ s.diag = look.diag /\ s.pool = pool /\ s.obs = ObservePlatform(got, pool)
               /\ s.graph = EvaluatePlatformDependencyGraph(s.obs)
               /\ s.dag = EvaluateTopologicalDAG(s.obs)
               /\ s.evidence = correlateMultiSignalEvidence(s.diag.events, s.diag.logs, s.evidence.at)
               /\ s.evidence.logs # <<>> => s.evidence.at = now
<1> DEFINE obs == ObservePlatform(got, pool)
           stages == Stages(obs)
           graph == GraphOf(stages)
           dag == EvaluateTopologicalDAG(obs)
           evidence == correlateMultiSignalEvidence(look.diag.events, look.diag.logs, now)
           d == Description[look.desc]
           s == SpecNow(n, look, got, pool)
<1>1. s = [ namespace |-> n, revision |-> d.revision, sync |-> d.sync, health |-> d.health,
            observedAt |-> look.at, diag |-> look.diag, pool |-> pool, obs |-> obs,
            graph |-> graph, dag |-> dag, evidence |-> evidence ]
  BY Zenon DEF SpecNow, SpecOf
<1>2. graph = EvaluatePlatformDependencyGraph(obs)
  BY Zenon DEF EvaluatePlatformDependencyGraph
<1>3. /\ evidence = correlateMultiSignalEvidence(look.diag.events, look.diag.logs, evidence.at)
      /\ evidence.logs # <<>> => evidence.at = now
  BY EvidenceAgain, Zenon
<1> HIDE DEF s, obs, graph, dag, evidence, d
<1>4. /\ DOMAIN s = ReportFields /\ IsRecord(s)
      /\ s.namespace = n /\ s.observedAt = look.at
      /\ s.revision = d.revision /\ s.sync = d.sync /\ s.health = d.health
      /\ s.diag = look.diag /\ s.pool = pool /\ s.obs = obs
      /\ s.graph = graph /\ s.dag = dag /\ s.evidence = evidence
  BY <1>1 DEF ReportFields, IsRecord
<1>5. s.dag = EvaluateTopologicalDAG(s.obs) /\ s.graph = EvaluatePlatformDependencyGraph(s.obs)
  BY <1>2, <1>4 DEF dag
<1>6. /\ s.evidence = correlateMultiSignalEvidence(s.diag.events, s.diag.logs, s.evidence.at)
      /\ s.evidence.logs # <<>> => s.evidence.at = now
  BY <1>3, <1>4, Zenon
<1> QED BY <1>4, <1>5, <1>6, Zenon DEF s, obs, d

\* A patch against the version the API server has stores what was computed.
LEMMA MergeOne ==
    ASSUME NEW x, IsRecord(x), NEW y
    PROVE  MergeFields(x, y, y) = x
<1>1. \A u, v : Pick(u, v, v) = u
  BY DEF Pick
<1>2. MergeFields(x, y, y) = [f \in DOMAIN x |-> x[f]]
  BY <1>1, Zenon DEF MergeFields
<1> QED BY <1>2 DEF IsRecord

\* The pool and the analyses of a report are records, and so are the parts of an
\* observation that are merged field by field.
LEMMA PoolRecord == ASSUME NEW name, NEW pools PROVE IsRecord(PoolNamed(name, pools))
<1>1. \A n, p : IsRecord(PoolStatus(n, p))
  BY DEF PoolStatus, IsRecord
<1>2. \A n : IsRecord(UnknownPool(n))
  BY DEF UnknownPool, IsRecord
<1> QED BY <1>1, <1>2, Zenon DEF PoolNamed

LEMMA AnalysisRecords ==
    ASSUME NEW obs
    PROVE  IsRecord(EvaluatePlatformDependencyGraph(obs)) /\ IsRecord(EvaluateTopologicalDAG(obs))
<1>1. \A stages : IsRecord(GraphOf(stages))
  BY DEF GraphOf, IsRecord
<1>2. \E a, b, c : EvaluateTopologicalDAG(obs) = [states |-> a, blocked |-> b, healthy |-> c]
  BY Zenon DEF EvaluateTopologicalDAG
<1> QED BY <1>1, <1>2 DEF EvaluatePlatformDependencyGraph, IsRecord

LEMMA StructRecords ==
    ASSUME NEW x, NEW pool, IsRecord(x.cv)
    PROVE  \A f \in Structs : IsRecord(ObservePlatform(x, pool)[f])
<1> DEFINE o == ObservePlatform(x, pool)
<1>1. /\ o.virt = readVirtualizationStatus(x) /\ o.cv = readClusterVersion(x)
      /\ o.kubevirt = readOperatorStatus(x.kubevirt) /\ o.cdi = readOperatorStatus(x.cdi)
      /\ o.ssp = readOperatorStatus(x.ssp)
  BY ObserveParts, Zenon
<1>2. \A y : IsRecord(readOperatorStatus(y))
  <2>1. \A y : \E a, b, c : readOperatorStatus(y) = [phase |-> a, observed |-> b, ready |-> c]
    BY Zenon DEF readOperatorStatus
  <2> QED BY <2>1 DEF IsRecord
<1>3. IsRecord(readClusterVersion(x))
  <2>1. \/ readClusterVersion(x) = x.cv
        \/ \E a, b, c, d : readClusterVersion(x) =
              [version |-> a, desired |-> b, progressing |-> c, available |-> d]
    BY Zenon DEF readClusterVersion
  <2> QED BY <2>1 DEF IsRecord
<1>4. IsRecord(readVirtualizationStatus(x))
  <2>1. \E a, b, c, d, e : readVirtualizationStatus(x) =
           [hco |-> a, handlerReady |-> b, active |-> c, stalled |-> d, unmigratable |-> e]
    BY Zenon DEF readVirtualizationStatus
  <2> QED BY <2>1 DEF IsRecord
<1> HIDE DEF o
<1>5. \A f \in Structs : IsRecord(o[f])
  BY <1>1, <1>2, <1>3, <1>4 DEF Structs
<1> QED BY <1>5 DEF o

LEMMA SpecWhole ==
    ASSUME NEW n, NEW look, NEW got, NEW pool, DiagTyped(look.diag), IsRecord(pool), IsRecord(got.cv)
    PROVE  Whole(SpecNow(n, look, got, pool))
<1> DEFINE s == SpecNow(n, look, got, pool)
<1>1. /\ DOMAIN s = ReportFields /\ IsRecord(s) /\ s.diag = look.diag /\ s.pool = pool
      /\ s.obs = ObservePlatform(got, pool)
      /\ s.graph = EvaluatePlatformDependencyGraph(s.obs) /\ s.dag = EvaluateTopologicalDAG(s.obs)
  BY SpecParts
<1>2. DOMAIN s.obs = ObsFields /\ IsRecord(s.obs) /\ \A f \in Structs : IsRecord(s.obs[f])
  <2>1. LET o == ObservePlatform(got, pool) IN DOMAIN o = ObsFields /\ IsRecord(o)
    BY ObserveParts, Zenon
  <2>2. \A f \in Structs : IsRecord(ObservePlatform(got, pool)[f])
    BY StructRecords
  <2> HIDE DEF s
  <2> QED BY <1>1, <2>1, <2>2, Zenon
<1> SUFFICES ASSUME NEW old PROVE MergeFrom(s, old, old) = s
  BY Zenon DEF Whole
<1> DEFINE obs == [f \in DOMAIN s.obs |->
                     IF f \in Structs THEN MergeFields(s.obs[f], old.obs[f], old.obs[f])
                                      ELSE Pick(s.obs[f], old.obs[f], old.obs[f])]
<1>3. MergeFrom(s, old, old) =
         [ MergeFields(s, old, old) EXCEPT
             !.diag  = MergeFields(s.diag, old.diag, old.diag),
             !.pool  = MergeFields(s.pool, old.pool, old.pool),
             !.graph = MergeFields(s.graph, old.graph, old.graph),
             !.dag   = MergeFields(s.dag, old.dag, old.dag),
             !.obs = obs ]
  BY Zenon DEF MergeFrom
<1> HIDE DEF s
<1>4. obs = s.obs
  <2>1. \A x, y : Pick(x, y, y) = x
    BY DEF Pick
  <2>2. \A f \in DOMAIN s.obs : (IF f \in Structs THEN MergeFields(s.obs[f], old.obs[f], old.obs[f])
                                 ELSE Pick(s.obs[f], old.obs[f], old.obs[f])) = s.obs[f]
    BY <1>2, <2>1, MergeOne, Zenon
  <2>3. obs = [f \in DOMAIN s.obs |-> s.obs[f]]
    BY <2>2, Zenon
  <2> QED BY <1>2, <2>3, Zenon DEF IsRecord
<1> HIDE DEF obs
<1>5. /\ MergeFields(s, old, old) = s
      /\ MergeFields(s.diag, old.diag, old.diag) = s.diag
      /\ MergeFields(s.pool, old.pool, old.pool) = s.pool
      /\ MergeFields(s.graph, old.graph, old.graph) = s.graph
      /\ MergeFields(s.dag, old.dag, old.dag) = s.dag
  <2>1. IsRecord(s.diag) /\ IsRecord(s.pool)
    BY <1>1, Zenon DEF DiagTyped
  <2>2. IsRecord(s.graph) /\ IsRecord(s.dag)
    BY <1>1, AnalysisRecords
  <2> QED BY <1>1, <2>1, <2>2, MergeOne, Zenon
<1>6. MergeFrom(s, old, old) =
         [s EXCEPT !.diag = s.diag, !.pool = s.pool, !.graph = s.graph, !.dag = s.dag, !.obs = s.obs]
  BY <1>3, <1>4, <1>5, Zenon
<1>7. [s EXCEPT !.diag = s.diag, !.pool = s.pool, !.graph = s.graph, !.dag = s.dag, !.obs = s.obs] = s
  BY <1>1 DEF IsRecord, ReportFields
<1> QED BY <1>6, <1>7, Zenon

\* The worlds of live reads are states of the world, or the outcome of a read that fails.
LEMMA LiveWorlds ==
    ASSUME TimeInv, NEW t
    PROVE  /\ LiveIn(timeline, t) \subseteq DOMAIN World \cup {Lost}
           /\ \A w \in LiveIn(timeline, t) : IsRecord(Platform(w).cv)
<1>1. \A i \in 1 .. Len(timeline) : timeline[i].world \in DOMAIN World
  BY EntryParts DEF TimeInv
<1>2. LaterOf(timeline, t) \subseteq 1 .. Len(timeline)
  BY DEF LaterOf
<1>3. LiveIn(timeline, t) \subseteq DOMAIN World \cup {Lost}
  <2>1. {timeline[i].world : i \in LaterOf(timeline, t)} \subseteq DOMAIN World
    BY <1>1, <1>2
  <2> QED BY <2>1 DEF LiveIn, OrLost
<1>4. ASSUME NEW w \in DOMAIN World PROVE IsRecord(Platform(w).cv)
  <2>1. w # Lost /\ IsRecord(World[w].platform.cv)
    BY AgentAssumption, Zenon
  <2> QED BY <2>1, Zenon DEF Platform
<1>5. IsRecord(Platform(Lost).cv)
  <2>1. Platform(Lost) = NoCluster
    BY Zenon DEF Platform
  <2>2. NoCluster.cv = None
    BY DEF NoCluster
  <2>3. IsRecord(None)
    BY DEF IsRecord, None
  <2> QED BY <2>1, <2>2, <2>3, Zenon
<1> QED BY <1>3, <1>4, <1>5, Zenon

\* However the calls are cut, each finds an entry of the timeline that is not older
\* than the reconcile.
LEMMA CallFinds ==
    ASSUME TimeInv, NEW look, NEW n, LookInv(look, "observe", n, now, timeline),
           NEW S, S \subseteq look.from .. Latest - 1
    PROVE  timeline[look.from + Cardinality(S)].world \in LiveIn(timeline, look.at)
<1>1. /\ look.from \in 1 .. Len(timeline)
      /\ \A i \in 1 .. Len(timeline) : i > look.from => timeline[i].at >= look.at
  BY Zenon DEF LookInv
<1>2. Len(timeline) \in Nat /\ Latest = Len(timeline) /\ Latest - 1 \in Int /\ look.from \in Int
  BY <1>1 DEF TimeInv, Latest
<1> DEFINE I == look.from .. Latest - 1
           k == Cardinality(S)
<1>3. IsFiniteSet(I) /\ Cardinality(I) = Latest - look.from
  <2>1. /\ IsFiniteSet(I)
        /\ Cardinality(I) = IF look.from > Latest - 1 THEN 0 ELSE (Latest - 1) - look.from + 1
    BY <1>2, FS_Interval
  <2> HIDE DEF I
  <2> QED BY <1>1, <1>2, <2>1
<1>4. k \in Nat /\ k <= Cardinality(I)
  <2>1. IsFiniteSet(S) /\ Cardinality(S) <= Cardinality(I)
    BY <1>3, FS_Subset, Zenon DEF I
  <2> QED BY <2>1, FS_CardinalityType
<1> HIDE DEF k, I
<1>5. look.from + k \in LaterOf(timeline, look.at)
  BY <1>1, <1>2, <1>3, <1>4 DEF LaterOf
<1> DEFINE j == look.from + k
<1>6. j \in LaterOf(timeline, look.at)
  BY <1>5
<1>7. timeline[j].world \in {timeline[i].world : i \in LaterOf(timeline, look.at)}
  <2> HIDE DEF j
  <2> QED BY <1>6
<1>8. timeline[j].world \in LiveIn(timeline, look.at)
  <2> HIDE DEF j
  <2> QED BY <1>7, Zenon DEF LiveIn, OrLost
<1> QED BY <1>8 DEF k

\* The report is what separate reads of the platform find.
LEMMA BusyObserve ==
    ASSUME TimeInv, BusyInv, NEW n \in Namespaces, Observe(n)
    PROVE  BusyInv' /\ Inside
<1> DEFINE look == worker[n].look
           L == LiveIn(timeline, look.at)
           Entry(cut, i) == timeline[look.from + Cardinality({p \in DOMAIN cut : cut[p] < i})].world
           Seen1(cut, nokinds) ==
             [k \in Kinds |-> IF k \in AgentKinds \ nokinds THEN Platform(Entry(cut, Turn[k]))[k]
                                                            ELSE NoCluster[k]]
           Calls(cut, nopools) == [i \in 1 .. Named |-> IF i \in nopools THEN Lost ELSE Entry(cut, i)]
<1>1. /\ worker[n].pc = "observe" /\ UNCHANGED <<now, timeline, informed>>
      /\ \E cut \in [look.from .. Latest - 1 -> 0 .. Named + 11],
            nopools \in SUBSET {i \in 1 .. Named : MayFail(look, "pool")},
            nokinds \in SUBSET {k \in AgentKinds : MayFail(look, k)} :
            \E pool \in {PoolRead(Calls(cut, nopools), Description[look.desc].pool)},
               got \in Listed(Seen1(cut, nokinds)) :
               \E obs \in {ObservePlatform(got, pool)} : \E stages \in {Stages(obs)} :
                  worker' = [worker EXCEPT ![n] =
                     [ pc |-> "write", spec |-> SpecOf(n, look, pool, obs, stages),
                       base |-> repCache, outdated |-> look.outdated ]]
  BY Zenon DEF Observe, Looking
<1>2. PICK cut \in [look.from .. Latest - 1 -> 0 .. Named + 11],
           nopools \in SUBSET {i \in 1 .. Named : MayFail(look, "pool")},
           nokinds \in SUBSET {k \in AgentKinds : MayFail(look, k)} :
         \E pool \in {PoolRead(Calls(cut, nopools), Description[look.desc].pool)},
            got \in Listed(Seen1(cut, nokinds)) :
            \E obs \in {ObservePlatform(got, pool)} : \E stages \in {Stages(obs)} :
               worker' = [worker EXCEPT ![n] =
                  [ pc |-> "write", spec |-> SpecOf(n, look, pool, obs, stages),
                    base |-> repCache, outdated |-> look.outdated ]]
  BY <1>1
<1> DEFINE seen == Seen1(cut, nokinds)
           in == Calls(cut, nopools)
           At(i) == Entry(cut, i)
           pool == PoolRead(in, Description[look.desc].pool)
<1>3. PICK got \in Listed(seen) :
         \E obs \in {ObservePlatform(got, pool)} : \E stages \in {Stages(obs)} :
            worker' = [worker EXCEPT ![n] =
               [ pc |-> "write", spec |-> SpecOf(n, look, pool, obs, stages),
                 base |-> repCache, outdated |-> look.outdated ]]
  <2> HIDE DEF seen, in, look
  <2> QED BY <1>2, Zenon DEF seen, in, look
<1> DEFINE s == SpecNow(n, look, got, pool)
           w == [pc |-> "write", spec |-> s, base |-> repCache, outdated |-> look.outdated]
<1>4. worker' = [worker EXCEPT ![n] = w]
  <2> HIDE DEF pool, look
  <2> QED BY <1>3, Zenon DEF SpecNow, look, pool
<1>5. LookInv(look, "observe", n, now, timeline)
  BY <1>1, LookNow
<1>6. \A i : At(i) \in L
  <2> SUFFICES ASSUME NEW i PROVE At(i) \in L
    OBVIOUS
  <2> DEFINE S == {p \in DOMAIN cut : cut[p] < i}
  <2>1. S \subseteq look.from .. Latest - 1
    BY <1>2
  <2> HIDE DEF look, S
  <2>2. timeline[look.from + Cardinality(S)].world \in LiveIn(timeline, look.at)
    BY <1>5, <2>1, CallFinds
  <2> QED BY <2>2 DEF S, look
<1>7. \A kind : MayFail(look, kind) => Lost \in L
  BY DEF MayFail, LiveIn, OrLost
<1>8. in \in [1 .. Named -> L]
  <2> HIDE DEF look, L, At
  <2>1. in = [i \in 1 .. Named |-> IF i \in nopools THEN Lost ELSE At(i)]
    BY DEF At, look
  <2>2. \A i \in nopools : Lost \in L
    BY <1>2, <1>7 DEF look
  <2> HIDE DEF in
  <2> QED BY <1>6, <2>1, <2>2
<1>9. /\ DOMAIN seen = Kinds
      /\ \A k \in AgentKinds : \E v \in L : seen[k] = Platform(v)[k]
  <2> HIDE DEF look, L, At
  <2>1. seen = [k \in Kinds |-> IF k \in AgentKinds \ nokinds THEN Platform(At(Turn[k]))[k] ELSE NoCluster[k]]
    BY DEF At, look
  <2> HIDE DEF seen
  <2>2. AgentKinds \subseteq Kinds
    BY DEF AgentKinds, Turn, Kinds, NoCluster
  <2>3. ASSUME NEW k \in AgentKinds PROVE \E v \in L : seen[k] = Platform(v)[k]
    <3>1. CASE k \in nokinds
      <4>1. Lost \in L
        BY <1>2, <1>7, <3>1 DEF look
      <4>2. Platform(Lost) = NoCluster
        BY Zenon DEF Platform
      <4>3. seen[k] = NoCluster[k]
        BY <2>1, <2>2, <3>1
      <4> QED BY <4>1, <4>2, <4>3, Zenon
    <3>2. CASE k \notin nokinds
      <4>1. seen[k] = Platform(At(Turn[k]))[k]
        BY <2>1, <2>2, <3>2
      <4> QED BY <1>6, <4>1, Zenon
    <3> QED BY <3>1, <3>2
  <2> QED BY <2>1, <2>3
<1> HIDE DEF seen, in, pool, L, At, look
<1>10. \A k \in AgentKinds : \E v \in L : ObservedIn(k, ObservePlatform(got, pool), pool, v)
  <2> SUFFICES ASSUME NEW k \in AgentKinds
               PROVE  \E v \in L : ObservedIn(k, ObservePlatform(got, pool), pool, v)
    OBVIOUS
  <2>1. PICK v \in L : seen[k] = Platform(v)[k]
    BY <1>9
  <2>2. k \in Kinds
    BY DEF AgentKinds, Turn, Kinds, NoCluster
  <2>3. IF k \in Limited THEN got[k] \in PagesOf(seen[k]) ELSE got[k] = seen[k]
    BY <1>3, <1>9, <2>2, ListedPages
  <2>4. IF k \in Limited THEN got[k] \in PagesOf(Platform(v)[k]) ELSE got[k] = Platform(v)[k]
    BY <2>1, <2>3
  <2> QED BY <2>4, ReadObserved, Zenon
<1>11. IsRecord(got.cv) /\ IsRecord(pool)
  <2>1. "cv" \in Kinds /\ "cv" \in AgentKinds /\ "cv" \notin Limited
    BY DEF AgentKinds, Turn, Kinds, NoCluster, Limited
  <2>2. got["cv"] = seen["cv"]
    BY <1>3, <1>9, <2>1, ListedPages
  <2>3. PICK v \in L : seen["cv"] = Platform(v)["cv"]
    BY <1>9, <2>1
  <2>4. IsRecord(Platform(v).cv)
    BY <2>3, LiveWorlds, Zenon DEF L
  <2>5. IsRecord(pool)
    BY PoolRecord, Zenon DEF pool, PoolRead
  <2> QED BY <2>2, <2>3, <2>4, <2>5
<1>12. DiagTyped(look.diag)
  BY <1>5, Zenon DEF LookInv
<1>13. Whole(s)
  BY <1>11, <1>12, SpecWhole, Zenon
<1>14. /\ DOMAIN s = ReportFields /\ s.namespace = n /\ s.observedAt = look.at /\ s.diag = look.diag
       /\ s.revision = Description[look.desc].revision /\ s.sync = Description[look.desc].sync
       /\ s.health = Description[look.desc].health
       /\ s.pool = pool /\ s.obs = ObservePlatform(got, pool)
       /\ s.graph = EvaluatePlatformDependencyGraph(s.obs) /\ s.dag = EvaluateTopologicalDAG(s.obs)
       /\ s.evidence = correlateMultiSignalEvidence(s.diag.events, s.diag.logs, s.evidence.at)
       /\ s.evidence.logs # <<>> => s.evidence.at = now
  BY SpecParts
<1>15. w.pc = "write" /\ w.spec = s /\ w.outdated = look.outdated
  <2> HIDE DEF s
  <2> QED OBVIOUS
<1> HIDE DEF s, w
<1>16. look.at \in Nat /\ look.at <= now /\ now >= look.at
  BY <1>5 DEF LookInv, TimeInv
<1>17. Observed(s, Description[look.desc], L)
  <2>1. \E calls \in [1 .. Named -> L] : s.pool = PoolRead(calls, Description[look.desc].pool)
    BY <1>8, <1>14, Zenon DEF pool
  <2>2. s.evidence.logs # <<>> => s.evidence.at >= s.observedAt
    BY <1>14, <1>16
  <2>3. \A k \in AgentKinds : \E v \in L : ObservedIn(k, s.obs, s.pool, v)
    BY <1>10, <1>14, Zenon
  <2> QED BY <1>14, <2>1, <2>2, <2>3, Zenon DEF Observed
<1>18. Made(s, Description[look.desc], L, CachedIn(timeline, look.at))
  <2>1. Diagnosed(look.diag, Description[look.desc], L, CachedIn(timeline, look.at))
    <3>1. "observe" # "diagnose"
      OBVIOUS
    <3> QED BY <1>5, <3>1, Zenon DEF LookInv, L
  <2>2. Diagnosed(s.diag, Description[look.desc], L, CachedIn(timeline, look.at))
    BY <1>14, <2>1, Zenon
  <2> QED BY <1>17, <2>2, MadeParts, Zenon
<1>19. SpecInv(s, look.outdated, n, now, timeline)
  <2>1. /\ ThereAt(timeline, n, look.desc, 1 .. Len(timeline))
        /\ ~look.outdated => ThereAt(timeline, n, look.desc, LaterOf(timeline, look.at))
    BY <1>5, Zenon DEF LookInv
  <2> QED BY <1>12, <1>13, <1>14, <1>16, <1>18, <2>1, Zenon DEF SpecInv, L
<1>20. WorkInv(w, n, now, timeline)
  BY <1>15, <1>19, Zenon DEF WorkInv
<1>21. BusyInv'
  <2>1. worker' = [worker EXCEPT ![n] = w] /\ UNCHANGED <<now, timeline>>
    BY <1>1, <1>4 DEF w, s, pool, in, look
  <2> QED BY <1>20, <2>1, OneWorks, Zenon
<1> QED BY <1>1, <1>21 DEF Inside, TimeInv

LEMMA BusyWrite ==
    ASSUME TimeInv, BusyInv, NEW n \in Namespaces, NEW arrives, Write(n, arrives)
    PROVE  BusyInv' /\ Inside
<1>1. worker' = [worker EXCEPT ![n] = NoWork] /\ UNCHANGED <<now, timeline, informed>>
  BY DEF Write
<1>2. WorkInv(NoWork, n, now, timeline)
  BY DEF WorkInv
<1>3. BusyInv'
  BY <1>1, <1>2, OneWorks, Zenon
<1> QED BY <1>1, <1>3 DEF Inside, TimeInv

-----------------------------------------------------------------------------
(* Every step keeps what the reconciles have gathered.                     *)

\* The steps of a reconcile before it writes.
Gather(n) == Begin(n) \/ Diagnose(n) \/ Observe(n)

LEMMA GatherLooks ==
    ASSUME NEW n, Gather(n)
    PROVE  UNCHANGED <<now, timeline, informed, report, repCache, raced>>
BY Zenon DEF Gather, Begin, Diagnose, Observe, Looking

\* The next-state relation, by what its steps do.
LEMMA NextCases ==
    ASSUME [Next]_vars
    PROVE  \/ Outside \/ UNCHANGED vars \/ ReportSync \/ Restart
           \/ \E k \in Cached : InformerSync(k)
           \/ \E n \in Namespaces : Gather(n)
           \/ \E n \in Namespaces, arrives \in BOOLEAN : Write(n, arrives)
<1>1. TRUE \in BOOLEAN /\ FALSE \in BOOLEAN
  OBVIOUS
<1> QED BY <1>1, Zenon DEF Next, Outside, Step, Gather

LEMMA BusyInit == Init => BusyInv
<1> SUFFICES ASSUME Init PROVE BusyInv
  OBVIOUS
<1>1. worker = [n \in Namespaces |-> NoWork]
  BY Zenon DEF Init
<1> QED BY <1>1 DEF BusyInv, WorkInv

LEMMA BusyStep == TimeInv /\ BusyInv /\ [Next]_vars => TimeInv' /\ BusyInv'
<1> SUFFICES ASSUME TimeInv, BusyInv, [Next]_vars PROVE TimeInv' /\ BusyInv'
  OBVIOUS
<1>1. CASE Outside
  <2>1. /\ TimeInv' /\ now \in Nat /\ now' \in Nat /\ now <= now' /\ worker' = worker
        /\ Len(timeline) \in Nat /\ Len(timeline') \in Nat
        /\ \A t \in Nat : t <= now => GoesOn(timeline, timeline', t)
    BY <1>1, OutsideGoesOn DEF TimeInv
  <2>2. \A n \in Namespaces : WorkInv(worker[n], n, now', timeline')
    BY <2>1, WorkStays DEF BusyInv
  <2> QED BY <2>1, <2>2 DEF BusyInv
<1>2. ASSUME Inside, worker' = worker PROVE TimeInv' /\ BusyInv'
  <2>1. TimeInv' /\ UNCHANGED <<now, timeline, worker>>
    BY <1>2, InsideTime DEF Inside
  <2> QED BY <2>1, Zenon DEF BusyInv
<1>3. CASE UNCHANGED vars \/ ReportSync
  <2>1. UNCHANGED <<now, timeline, informed, worker>>
    BY <1>3 DEF vars, ReportSync
  <2> QED BY <1>2, <2>1 DEF Inside, TimeInv
<1>4. ASSUME NEW k \in Cached, InformerSync(k) PROVE TimeInv' /\ BusyInv'
  BY <1>2, <1>4, SyncInside DEF InformerSync
<1>5. CASE Restart
  <2>1. TimeInv'
    BY <1>5, RestartInside, InsideTime
  <2>2. worker' = [n \in Namespaces |-> NoWork]
    BY <1>5 DEF Restart
  <2> QED BY <2>1, <2>2 DEF BusyInv, WorkInv
<1>6. ASSUME NEW n \in Namespaces, Gather(n) PROVE TimeInv' /\ BusyInv'
  BY <1>6, BusyBegin, BusyDiagnose, BusyObserve, InsideTime DEF Gather
<1>7. ASSUME NEW n \in Namespaces, NEW arrives \in BOOLEAN, Write(n, arrives) PROVE TimeInv' /\ BusyInv'
  BY <1>7, BusyWrite, InsideTime
<1> QED BY <1>1, <1>3, <1>4, <1>5, <1>6, <1>7, NextCases

-----------------------------------------------------------------------------
(* The report.                                                             *)

\* What a write may do to the report.
LEMMA WriteStores ==
    ASSUME NEW n, NEW arrives, Write(n, arrives)
    PROVE  LET w == worker[n]
           IN  /\ \/ report' = report
                  \/ w.base = NoReport /\ report = NoReport /\ report' = w.spec
                  \/ w.base # NoReport /\ report' = MergeFrom(w.spec, w.base, report)
               /\ raced' = IF report' = report THEN raced ELSE w.base # report \/ w.outdated
               /\ w.pc = "write"
BY Zenon DEF Write

\* The parts of a merged report that are merged field by field, and the others.
LEMMA MergeParts ==
    ASSUME NEW new, DOMAIN new = ReportFields, NEW old, NEW current
    PROVE  LET m == MergeFrom(new, old, current)
           IN  /\ DOMAIN m = ReportFields
               /\ m.namespace = Pick(new.namespace, old.namespace, current.namespace)
               /\ m.observedAt = Pick(new.observedAt, old.observedAt, current.observedAt)
               /\ m.diag = MergeFields(new.diag, old.diag, current.diag)
<1> DEFINE k == MergeFields(new, old, current)
           diag == MergeFields(new.diag, old.diag, current.diag)
           pool == MergeFields(new.pool, old.pool, current.pool)
           graph == MergeFields(new.graph, old.graph, current.graph)
           dag == MergeFields(new.dag, old.dag, current.dag)
           obs == [f \in DOMAIN new.obs |->
                     IF f \in Structs THEN MergeFields(new.obs[f], old.obs[f], current.obs[f])
                                      ELSE Pick(new.obs[f], old.obs[f], current.obs[f])]
           m == MergeFrom(new, old, current)
<1>1. DOMAIN k = ReportFields /\ \A f \in ReportFields : k[f] = Pick(new[f], old[f], current[f])
  BY DEF MergeFields
<1>2. m = [k EXCEPT !.diag = diag, !.pool = pool, !.graph = graph, !.dag = dag, !.obs = obs]
  BY Zenon DEF MergeFrom
<1> HIDE DEF k, diag, pool, graph, dag, obs, m
<1>3. /\ DOMAIN m = ReportFields /\ m.diag = diag
      /\ m.namespace = k["namespace"] /\ m.observedAt = k["observedAt"]
  BY <1>1, <1>2 DEF ReportFields
<1>4. "namespace" \in ReportFields /\ "observedAt" \in ReportFields
  BY DEF ReportFields
<1> QED BY <1>1, <1>3, <1>4, Zenon DEF m, diag

LEMMA MergeDate ==
    ASSUME NEW new, DOMAIN new = ReportFields, NEW old, NEW current
    PROVE  MergeFrom(new, old, current).observedAt =
               Pick(new.observedAt, old.observedAt, current.observedAt)
BY MergeParts

ReportTyped(r, t) ==
    r = NoReport \/ /\ DOMAIN r = ReportFields /\ r.namespace \in Namespaces
                    /\ r.observedAt \in Nat /\ r.observedAt <= t
                    /\ DiagTyped(r.diag)

\* A report, once there, is not taken away.
ReportInv ==
    /\ ReportTyped(report, now) /\ ReportTyped(repCache, now) /\ raced \in BOOLEAN
    /\ repCache # NoReport => report # NoReport
    /\ \A n \in Namespaces : worker[n].pc = "write" /\ worker[n].base # NoReport => report # NoReport

LEMMA DiagMerged ==
    ASSUME NEW new, DiagTyped(new), NEW current, DiagTyped(current), NEW old
    PROVE  DiagTyped(MergeFields(new, old, current))
<1> DEFINE m == MergeFields(new, old, current)
<1>1. DOMAIN m = DiagFields /\ \A f \in DiagFields : m[f] = Pick(new[f], old[f], current[f])
  BY DEF MergeFields, DiagTyped
<1>2. IsRecord(m)
  BY DEF MergeFields, IsRecord
<1> HIDE DEF m
<1>3. /\ m.events = Pick(new.events, old.events, current.events)
      /\ m.logs = Pick(new.logs, old.logs, current.logs)
  BY <1>1 DEF DiagFields
<1>4. Cardinality(m.events) <= MaxEvents /\ Len(m.logs) <= MaxLines
  BY <1>3 DEF Pick, DiagTyped
<1>5. DiagTyped(m)
  BY <1>1, <1>2, <1>4 DEF DiagTyped
<1> QED BY <1>5 DEF m

\* What a reconcile is about to write is whole.
LEMMA SpecTyped ==
    ASSUME NEW n \in Namespaces, NEW s, NEW outdated, NEW t \in Nat, NEW tl,
           SpecInv(s, outdated, n, t, tl)
    PROVE  ReportTyped(s, t) /\ s # NoReport
<1>1. /\ DOMAIN s = ReportFields /\ s.namespace = n /\ DiagTyped(s.diag)
      /\ s.observedAt \in Nat /\ s.observedAt <= t
  BY Zenon DEF SpecInv
<1>2. ReportTyped(s, t)
  BY <1>1, Zenon DEF ReportTyped
<1>3. s # NoReport
  BY <1>1 DEF NoReport, ReportFields
<1> QED BY <1>2, <1>3

LEMMA MergeTyped ==
    ASSUME NEW t \in Nat, NEW new, ReportTyped(new, t), new # NoReport,
           NEW current, ReportTyped(current, t), current # NoReport, NEW old
    PROVE  ReportTyped(MergeFrom(new, old, current), t) /\ MergeFrom(new, old, current) # NoReport
<1> DEFINE m == MergeFrom(new, old, current)
<1>1. /\ DOMAIN new = ReportFields /\ DiagTyped(new.diag) /\ DiagTyped(current.diag)
      /\ new.namespace \in Namespaces /\ current.namespace \in Namespaces
      /\ new.observedAt \in Nat /\ new.observedAt <= t
      /\ current.observedAt \in Nat /\ current.observedAt <= t
  BY Zenon DEF ReportTyped
<1>2. /\ DOMAIN m = ReportFields
      /\ m.namespace = Pick(new.namespace, old.namespace, current.namespace)
      /\ m.observedAt = Pick(new.observedAt, old.observedAt, current.observedAt)
      /\ m.diag = MergeFields(new.diag, old.diag, current.diag)
  BY <1>1, MergeParts, Zenon
<1> HIDE DEF m
<1>3. DiagTyped(m.diag)
  BY <1>1, <1>2, DiagMerged
<1>4. m.namespace \in Namespaces /\ m.observedAt \in Nat /\ m.observedAt <= t
  BY <1>1, <1>2 DEF Pick
<1>5. m # NoReport
  BY <1>2 DEF NoReport, ReportFields
<1> QED BY <1>2, <1>3, <1>4, <1>5, Zenon DEF ReportTyped, m

LEMMA TypedLater ==
    ASSUME NEW r, NEW t \in Nat, NEW u \in Nat, t <= u, ReportTyped(r, t)
    PROVE  ReportTyped(r, u)
<1>1. r = NoReport \/ (r.observedAt \in Nat /\ r.observedAt <= t)
  BY Zenon DEF ReportTyped
<1>2. r = NoReport \/ r.observedAt <= u
  BY <1>1
<1> QED BY <1>2, Zenon DEF ReportTyped

\* The time of the report a reconcile is at work on.
WorkAt(w) == IF w.pc = "write" THEN w.spec.observedAt ELSE w.look.at

\* A reconcile begins now and keeps its time, and the version it will merge with
\* comes from the cache.
LEMMA GatherKeeps ==
    ASSUME NEW n \in Namespaces, Gather(n)
    PROVE  \E x : /\ worker' = [worker EXCEPT ![n] = x]
                  /\ x.pc = "write" => x.base = repCache
                  /\ \/ WorkAt(x) = now
                     \/ worker[n].pc \in {"diagnose", "observe"} /\
                        (DOMAIN worker[n].look = LookFields => WorkAt(x) = WorkAt(worker[n]))
<1> DEFINE look == worker[n].look
           Keeps(x) == /\ worker' = [worker EXCEPT ![n] = x]
                       /\ x.pc = "write" => x.base = repCache
                       /\ \/ WorkAt(x) = now
                          \/ worker[n].pc \in {"diagnose", "observe"} /\
                             (DOMAIN look = LookFields => WorkAt(x) = WorkAt(worker[n]))
<1>1. CASE Begin(n)
  <2> DEFINE pc == IF Troubled(Description[CacheOf(n)]) THEN "diagnose" ELSE "observe"
  <2>1. PICK desc, diag, from, known, out :
           worker' = [worker EXCEPT ![n] =
              [pc |-> pc, look |-> [ at |-> now, desc |-> desc, diag |-> diag, from |-> from,
                                     known |-> known, outdated |-> out ]]]
    BY <1>1, Zenon DEF Begin
  <2> DEFINE x == [pc |-> pc, look |-> [ at |-> now, desc |-> desc, diag |-> diag, from |-> from,
                                         known |-> known, outdated |-> out ]]
  <2>2. x.pc # "write" /\ WorkAt(x) = now
    BY DEF WorkAt
  <2>3. Keeps(x)
    BY <2>1, <2>2
  <2> QED BY <2>3
<1>2. CASE Diagnose(n)
  <2>1. PICK diag : worker' = [worker EXCEPT ![n] =
           [pc |-> "observe", look |-> [look EXCEPT !.from = Latest, !.diag = diag]]]
    BY <1>2, Zenon DEF Diagnose
  <2>2. worker[n].pc = "diagnose"
    BY <1>2, Zenon DEF Diagnose
  <2> DEFINE x == [pc |-> "observe", look |-> [look EXCEPT !.from = Latest, !.diag = diag]]
  <2>3. x.pc # "write" /\ (DOMAIN look = LookFields => WorkAt(x) = look.at)
    BY DEF WorkAt, LookFields
  <2>4. WorkAt(worker[n]) = look.at
    BY <2>2 DEF WorkAt
  <2>5. Keeps(x)
    BY <2>1, <2>2, <2>3, <2>4
  <2> QED BY <2>5
<1>3. CASE Observe(n)
  <2>1. PICK got, pool : worker' = [worker EXCEPT ![n] =
           [ pc |-> "write", spec |-> SpecNow(n, look, got, pool), base |-> repCache,
             outdated |-> look.outdated ]]
    BY <1>3, Zenon DEF Observe, SpecNow
  <2>2. worker[n].pc = "observe"
    BY <1>3, Zenon DEF Observe
  <2> DEFINE s == SpecNow(n, look, got, pool)
             x == [pc |-> "write", spec |-> s, base |-> repCache, outdated |-> look.outdated]
  <2>3. s.observedAt = look.at
    BY SpecParts
  <2>4. worker' = [worker EXCEPT ![n] = x]
    BY <2>1
  <2> HIDE DEF s
  <2>5. x.pc = "write" /\ x.base = repCache /\ WorkAt(x) = look.at
    BY <2>3 DEF WorkAt
  <2>6. WorkAt(worker[n]) = look.at
    BY <2>2 DEF WorkAt
  <2> HIDE DEF x
  <2>7. Keeps(x)
    BY <2>2, <2>4, <2>5, <2>6
  <2> QED BY <2>7
<1> QED BY <1>1, <1>2, <1>3, Zenon DEF Gather

LEMMA ReportInit == Init => ReportInv
<1> SUFFICES ASSUME Init PROVE ReportInv
  OBVIOUS
<1>1. report = NoReport /\ repCache = NoReport /\ raced = FALSE
      /\ worker = [n \in Namespaces |-> NoWork]
  BY Zenon DEF Init
<1>2. \A n \in Namespaces : worker[n].pc # "write"
  BY <1>1 DEF NoWork
<1> QED BY <1>1, <1>2 DEF ReportInv, ReportTyped

LEMMA ReportWrite ==
    ASSUME TimeInv, BusyInv, ReportInv, NEW n \in Namespaces, NEW arrives, Write(n, arrives)
    PROVE  ReportInv'
<1> DEFINE w == worker[n]
           spec == w.spec
<1>1. /\ \/ report' = report
         \/ w.base = NoReport /\ report = NoReport /\ report' = spec
         \/ w.base # NoReport /\ report' = MergeFrom(spec, w.base, report)
      /\ raced' = IF report' = report THEN raced ELSE w.base # report \/ w.outdated
      /\ w.pc = "write"
  BY WriteStores, Zenon
<1>2. now \in Nat /\ now' = now /\ repCache' = repCache /\ worker' = [worker EXCEPT ![n] = NoWork]
  BY DEF TimeInv, Write
<1>3. ReportTyped(spec, now) /\ spec # NoReport
  BY <1>1, <1>2, SpecThen, SpecTyped
<1>4. w.base # NoReport => report # NoReport
  BY <1>1 DEF ReportInv
<1> HIDE DEF spec
<1>5. ReportTyped(report', now) /\ (report # NoReport => report' # NoReport)
  <2>1. CASE report' = report
    BY <2>1 DEF ReportInv
  <2>2. CASE report' = spec
    BY <1>3, <2>2
  <2>3. CASE w.base # NoReport /\ report' = MergeFrom(spec, w.base, report)
    BY <1>2, <1>3, <1>4, <2>3, MergeTyped DEF ReportInv
  <2> QED BY <1>1, <2>1, <2>2, <2>3
<1>6. raced' \in BOOLEAN
  BY <1>1, Zenon DEF ReportInv
<1>7. ASSUME NEW m \in Namespaces, worker'[m].pc = "write", worker'[m].base # NoReport
      PROVE  report' # NoReport
  <2>1. DOMAIN worker = Namespaces
    BY DEF BusyInv
  <2>2. m # n
    BY <1>2, <1>7, <2>1 DEF NoWork
  <2>3. worker'[m] = worker[m]
    BY <1>2, <2>1, <2>2
  <2> QED BY <1>5, <1>7, <2>3 DEF ReportInv
<1> QED BY <1>2, <1>5, <1>6, <1>7 DEF ReportInv, ReportTyped

LEMMA ReportStep == TimeInv /\ BusyInv /\ ReportInv /\ [Next]_vars => ReportInv'
<1> SUFFICES ASSUME TimeInv, BusyInv, ReportInv, [Next]_vars PROVE ReportInv'
  OBVIOUS
<1>0. DOMAIN worker = Namespaces
  BY DEF BusyInv
<1>1. CASE Outside
  <2>1. UNCHANGED <<report, repCache, worker, raced>> /\ now \in Nat /\ now' \in Nat /\ now <= now'
    BY <1>1, OutsideGoesOn DEF TimeInv
  <2>2. ReportTyped(report, now') /\ ReportTyped(repCache, now')
    BY <2>1, TypedLater DEF ReportInv
  <2> QED BY <2>1, <2>2 DEF ReportInv, ReportTyped
<1>2. ASSUME UNCHANGED <<now, report, worker, raced>>, repCache' \in {repCache, report} PROVE ReportInv'
  BY <1>2 DEF ReportInv, ReportTyped
<1>3. CASE UNCHANGED vars \/ ReportSync \/ \E k \in Cached : InformerSync(k)
  BY <1>2, <1>3, Zenon DEF vars, ReportSync, InformerSync
<1>4. CASE Restart
  <2>1. UNCHANGED <<now, report, raced>> /\ repCache' = report
        /\ \A n \in Namespaces : worker'[n].pc # "write"
    BY <1>4 DEF Restart, NoWork
  <2> QED BY <2>1 DEF ReportInv, ReportTyped
<1>5. ASSUME NEW n \in Namespaces, Gather(n) PROVE ReportInv'
  <2>1. PICK x : worker' = [worker EXCEPT ![n] = x] /\ (x.pc = "write" => x.base = repCache)
    BY <1>5, GatherKeeps
  <2>2. UNCHANGED <<now, report, repCache, raced>>
    BY <1>5, GatherLooks
  <2>3. \A m \in Namespaces : worker'[m].pc = "write" /\ worker'[m].base # NoReport => report # NoReport
    BY <1>0, <2>1 DEF ReportInv
  <2> QED BY <2>2, <2>3 DEF ReportInv, ReportTyped
<1> QED BY <1>1, <1>3, <1>4, <1>5, ReportWrite, NextCases

-----------------------------------------------------------------------------
(* Types and the order of time.                                            *)

Counters == now \in 0 .. MaxTime /\ Len(timeline) \in 1 .. (MaxChanges + 1)

AgentInv == TimeInv /\ BusyInv /\ ReportInv

LEMMA AgentInit == Init => AgentInv
BY TimeInit, BusyInit, ReportInit DEF AgentInv

LEMMA AgentStep == AgentInv /\ [Next]_vars => AgentInv'
BY BusyStep, ReportStep DEF AgentInv

\* Where the clock and the timeline go.
LEMMA Moves ==
    ASSUME [Next]_vars
    PROVE  /\ now' = now \/ (now < MaxTime /\ now' = now + 1)
           /\ timeline' = timeline \/ (Latest <= MaxChanges /\ \E e : timeline' = Append(timeline, e))
<1>1. Outside => /\ now' = now \/ (now < MaxTime /\ now' = now + 1)
                 /\ timeline' = timeline \/ (Latest <= MaxChanges /\ \E e : timeline' = Append(timeline, e))
  BY Zenon DEF Outside, Tick, Around, Edit, ChangeAround, Become
<1>2. Outside \/ UNCHANGED <<now, timeline>>
  BY NextCases, GatherLooks, Zenon DEF vars, ReportSync, InformerSync, Restart, Write
<1> QED BY <1>1, <1>2, Zenon

LEMMA CountersStep == TimeInv /\ Counters /\ [Next]_vars => Counters'
<1> SUFFICES ASSUME TimeInv, Counters, [Next]_vars PROVE Counters'
  OBVIOUS
<1>1. now' \in 0 .. MaxTime
  BY Moves, AgentAssumption DEF Counters
<1>2. Len(timeline') \in 1 .. (MaxChanges + 1)
  <2>1. CASE timeline' = timeline
    BY <2>1 DEF Counters
  <2>2. ASSUME NEW e, timeline' = Append(timeline, e), Latest <= MaxChanges
        PROVE  Len(timeline') \in 1 .. (MaxChanges + 1)
    <3>1. Len(timeline') = Len(timeline) + 1
      BY <2>2 DEF TimeInv
    <3> QED BY <2>2, <3>1, AgentAssumption DEF Counters, Latest
  <2> QED BY <2>1, <2>2, Moves, Zenon
<1> QED BY <1>1, <1>2 DEF Counters

\* The report is whole or absent: no merge of a late write into a report that was
\* written meanwhile breaks the limits on events and log lines or dates it in the
\* future; no informer gets beyond what there was, and every reconcile is at one of
\* its steps.
THEOREM AgentTyped == Spec => []TypeOK
<1>1. Init => Counters
  <2> SUFFICES ASSUME Init PROVE Counters
    OBVIOUS
  <2>1. now = 0 /\ \E e : timeline = <<e>>
    BY Zenon DEF Init
  <2>2. Len(timeline) = 1
    BY <2>1
  <2> QED BY <2>1, <2>2, AgentAssumption DEF Counters
<1>2. AgentInv /\ Counters => TypeOK
  <2> SUFFICES ASSUME AgentInv, Counters PROVE TypeOK
    OBVIOUS
  <2>1. DOMAIN timeline = 1 .. Len(timeline)
    BY DEF AgentInv, TimeInv
  <2>2. \A i \in 1 .. Len(timeline) :
           /\ timeline[i].at \in 0 .. now /\ timeline[i].world \in DOMAIN World
           /\ \A n \in Namespaces : timeline[i].cms[n] \in AnyCM
    <3> SUFFICES ASSUME NEW i \in 1 .. Len(timeline)
                 PROVE  /\ timeline[i].at \in 0 .. now /\ timeline[i].world \in DOMAIN World
                        /\ \A n \in Namespaces : timeline[i].cms[n] \in AnyCM
      OBVIOUS
    <3>1. /\ timeline[i].at \in Nat /\ timeline[i].world \in DOMAIN World
          /\ timeline[i].cms \in [Namespaces -> AnyCM]
      BY EntryParts DEF AgentInv, TimeInv
    <3>2. timeline[i].at <= now /\ now \in Nat
      BY DEF AgentInv, TimeInv
    <3>3. timeline[i].at \in 0 .. now
      BY <3>1, <3>2
    <3>4. ASSUME NEW n \in Namespaces PROVE timeline[i].cms[n] \in AnyCM
      BY <3>1
    <3> QED BY <3>1, <3>3, <3>4
  <2>3. \A k \in Cached : informed[k] \in 1 .. Len(timeline)
    BY DEF AgentInv, TimeInv
  <2>4. \A n \in Namespaces : worker[n].pc \in {"idle", "diagnose", "observe", "write"}
    BY DEF AgentInv, BusyInv, WorkInv, NoWork
  <2>5. \A r \in {report, repCache} : r # NoReport =>
           /\ r.namespace \in Namespaces /\ r.observedAt \in 0 .. now
           /\ Cardinality(r.diag.events) <= MaxEvents /\ Len(r.diag.logs) <= MaxLines
    <3> SUFFICES ASSUME NEW r \in {report, repCache}, r # NoReport
                 PROVE  /\ r.namespace \in Namespaces /\ r.observedAt \in 0 .. now
                        /\ Cardinality(r.diag.events) <= MaxEvents /\ Len(r.diag.logs) <= MaxLines
      OBVIOUS
    <3>1. ReportTyped(r, now) /\ now \in Nat
      BY DEF AgentInv, ReportInv, TimeInv
    <3> QED BY <3>1 DEF ReportTyped, DiagTyped
  <2>6. raced \in BOOLEAN
    BY DEF AgentInv, ReportInv
  <2> QED BY <2>1, <2>2, <2>3, <2>4, <2>5, <2>6, Zenon DEF TypeOK, Counters, Latest
<1>3. AgentInv => TimeInv
  BY DEF AgentInv
<1> QED BY AgentInit, AgentStep, CountersStep, <1>1, <1>2, <1>3, PTL DEF Spec

-----------------------------------------------------------------------------
\* The namespaces that had a ConfigMap of the application, by a timeline.
UsedOf(tl) == {n \in Namespaces : \E i \in 1 .. Len(tl) : tl[i].cms[n] # NoCM}

LEMMA UsedSays == TimeInv => Used = UsedOf(timeline)
<1> SUFFICES ASSUME TimeInv PROVE Used = UsedOf(timeline)
  OBVIOUS
<1>1. DOMAIN timeline = 1 .. Len(timeline)
  BY DEF TimeInv
<1> QED BY <1>1, Zenon DEF Used, UsedOf

Busy == {"diagnose", "observe", "write"}

\* In an application that kept its namespace no reconcile is older than the report.
ForwardInv ==
    Cardinality(UsedOf(timeline)) = 1 =>
        \A n \in Namespaces : worker[n].pc \in Busy => WorkAt(worker[n]) >= report.observedAt

\* A reconcile works for a namespace that had a ConfigMap.
LEMMA BusyUsed ==
    ASSUME BusyInv, NEW n \in Namespaces, worker[n].pc \in Busy
    PROVE  n \in UsedOf(timeline)
<1>1. \E d : ThereAt(timeline, n, d, 1 .. Len(timeline))
  <2>1. CASE worker[n].pc = "write"
    BY <2>1, SpecThen, Zenon DEF SpecInv
  <2>2. CASE worker[n].pc \in {"diagnose", "observe"}
    BY <2>2, LookNow, Zenon DEF LookInv
  <2> QED BY <2>1, <2>2 DEF Busy
<1> QED BY <1>1, Zenon DEF ThereAt, UsedOf

\* The time a report carries, that of no report included.
LEMMA ReportTimes ==
    ASSUME AgentInv
    PROVE  report.observedAt \in Int /\ report.observedAt <= now
<1>1. CASE report = NoReport
  <2>1. report.observedAt = NoTime /\ now \in Nat
    BY <1>1 DEF NoReport, AgentInv, TimeInv
  <2> QED BY <2>1 DEF NoTime
<1>2. CASE report # NoReport
  <2>1. report.observedAt \in Nat /\ report.observedAt <= now
    BY <1>2, Zenon DEF AgentInv, ReportInv, ReportTyped
  <2> QED BY <2>1
<1> QED BY <1>1, <1>2

LEMMA UsedOnce ==
    ASSUME NEW tl, Cardinality(UsedOf(tl)) = 1, NEW m \in UsedOf(tl), NEW n \in UsedOf(tl)
    PROVE  m = n
<1>1. IsFiniteSet(UsedOf(tl))
  BY FS_Subset, AgentAssumption DEF UsedOf
<1>2. \E x : UsedOf(tl) = {x}
  BY <1>1, FS_Singleton
<1> QED BY <1>2

\* Namespaces only come to be used, never the other way.
LEMMA UsedGrows ==
    ASSUME NEW tl, NEW tm, Len(tl) \in Nat, Len(tm) \in Nat, NEW t, GoesOn(tl, tm, t)
    PROVE  UsedOf(tl) \subseteq UsedOf(tm)
<1>1. 1 .. Len(tl) \subseteq 1 .. Len(tm) /\ \A i \in 1 .. Len(tl) : tm[i] = tl[i]
  BY DEF GoesOn
<1> QED BY <1>1, Zenon DEF UsedOf

\* A write dates the report as before or with the time of its reconcile.
LEMMA WriteDates ==
    ASSUME AgentInv, NEW n \in Namespaces, NEW arrives, Write(n, arrives)
    PROVE  /\ worker[n].pc \in Busy
           /\ report'.observedAt \in {report.observedAt, WorkAt(worker[n])}
<1> DEFINE w == worker[n]
           spec == w.spec
<1>1. /\ \/ report' = report
         \/ report' = spec
         \/ report' = MergeFrom(spec, w.base, report)
      /\ w.pc = "write"
  BY WriteStores, Zenon
<1>2. DOMAIN spec = ReportFields
  BY <1>1, SpecThen, Zenon DEF AgentInv, SpecInv
<1>3. WorkAt(w) = spec.observedAt
  BY <1>1 DEF WorkAt
<1> HIDE DEF spec, w
<1>4. MergeFrom(spec, w.base, report).observedAt =
         Pick(spec.observedAt, w.base.observedAt, report.observedAt)
  BY <1>2, MergeDate, Zenon
<1>5. report'.observedAt \in {report.observedAt, WorkAt(w)}
  BY <1>1, <1>3, <1>4 DEF Pick
<1> QED BY <1>1, <1>5 DEF Busy, w

LEMMA ForwardStep == AgentInv /\ ForwardInv /\ [Next]_vars => ForwardInv'
<1> SUFFICES ASSUME AgentInv, ForwardInv, [Next]_vars, Cardinality(UsedOf(timeline')) = 1,
                    NEW m \in Namespaces, worker'[m].pc \in Busy
             PROVE  WorkAt(worker'[m]) >= report'.observedAt
  BY Zenon DEF ForwardInv, UsedOf, WorkAt
<1>0. TimeInv /\ BusyInv /\ DOMAIN worker = Namespaces /\ now \in Nat /\ Len(timeline) \in Nat
  BY DEF AgentInv, BusyInv, TimeInv
<1>1. CASE Outside
  <2>1. /\ worker' = worker /\ report' = report /\ Len(timeline') \in Nat
        /\ GoesOn(timeline, timeline', now)
    BY <1>0, <1>1, OutsideGoesOn DEF TimeInv
  <2>2. m \in UsedOf(timeline)
    BY <1>0, <2>1, BusyUsed
  <2>3. UsedOf(timeline) \subseteq UsedOf(timeline')
    BY <1>0, <2>1, UsedGrows
  <2>4. UsedOf(timeline) = UsedOf(timeline')
    BY <2>2, <2>3, UsedOnce
  <2> QED BY <2>1, <2>4 DEF ForwardInv
<1>2. CASE UNCHANGED vars \/ ReportSync \/ \E k \in Cached : InformerSync(k)
  <2>1. worker' = worker /\ report' = report /\ timeline' = timeline
    BY <1>2, Zenon DEF vars, ReportSync, InformerSync
  <2> QED BY <2>1 DEF ForwardInv
<1>3. CASE Restart
  BY <1>3 DEF Restart, NoWork, Busy
<1>4. ASSUME NEW n \in Namespaces, Gather(n)
      PROVE  WorkAt(worker'[m]) >= report'.observedAt
  <2>1. PICK x : /\ worker' = [worker EXCEPT ![n] = x]
                 /\ \/ WorkAt(x) = now
                    \/ worker[n].pc \in {"diagnose", "observe"} /\
                       (DOMAIN worker[n].look = LookFields => WorkAt(x) = WorkAt(worker[n]))
    BY <1>4, GatherKeeps, Zenon
  <2>2. report' = report /\ timeline' = timeline
    BY <1>4, GatherLooks
  <2>3. CASE m # n
    <3>1. worker'[m] = worker[m]
      BY <1>0, <2>1, <2>3
    <3> QED BY <2>2, <3>1 DEF ForwardInv
  <2>4. CASE m = n
    <3>1. worker'[m] = x
      BY <1>0, <2>1, <2>4
    <3>2. CASE WorkAt(x) = now
      BY <1>0, <2>2, <3>1, <3>2, ReportTimes
    <3>3. CASE /\ worker[n].pc \in {"diagnose", "observe"}
               /\ DOMAIN worker[n].look = LookFields => WorkAt(x) = WorkAt(worker[n])
      <4>1. DOMAIN worker[n].look = LookFields
        BY <1>0, <3>3, LookNow, Zenon DEF LookInv
      <4>2. worker[n].pc \in Busy
        BY <3>3 DEF Busy
      <4> QED BY <2>2, <3>1, <3>3, <4>1, <4>2 DEF ForwardInv
    <3> QED BY <2>1, <3>2, <3>3
  <2> QED BY <2>3, <2>4
<1>5. ASSUME NEW n \in Namespaces, NEW arrives \in BOOLEAN, Write(n, arrives)
      PROVE  WorkAt(worker'[m]) >= report'.observedAt
  <2>1. worker' = [worker EXCEPT ![n] = NoWork] /\ timeline' = timeline
    BY <1>5 DEF Write
  <2>2. m # n
    BY <1>0, <2>1 DEF NoWork, Busy
  <2>3. worker[m].pc \in Busy /\ worker[n].pc \in Busy
    BY <1>0, <1>5, <2>1, <2>2, WriteDates
  <2>4. m \in UsedOf(timeline) /\ n \in UsedOf(timeline)
    BY <1>0, <2>3, BusyUsed
  <2> QED BY <2>1, <2>2, <2>4, UsedOnce
<1> QED BY <1>1, <1>2, <1>3, <1>4, <1>5, NextCases

\* The report of an application that keeps its namespace never goes back in time:
\* however far the caches lag and whichever writes fail or are repeated, the one
\* reconcile of the namespace began no earlier than the one that wrote before it.
THEOREM ReportTimeAlwaysForward == Spec => ReportTimeForward
<1> DEFINE Forward == Cardinality(Used) = 1 => report'.observedAt >= report.observedAt
<1>1. Init => ForwardInv
  <2>1. Init => \A n \in Namespaces : worker[n] = NoWork
    BY Zenon DEF Init
  <2> QED BY <2>1 DEF ForwardInv, NoWork, Busy
<1>2. AgentInv /\ ForwardInv /\ [Next]_vars => [Forward]_vars
  <2> SUFFICES ASSUME AgentInv, ForwardInv, [Next]_vars, Cardinality(UsedOf(timeline)) = 1
               PROVE  report'.observedAt >= report.observedAt
    BY UsedSays DEF AgentInv
  <2>1. report.observedAt \in Int
    BY ReportTimes
  <2>2. CASE report' = report
    BY <2>1, <2>2
  <2>3. ASSUME NEW n \in Namespaces, NEW arrives \in BOOLEAN, Write(n, arrives)
        PROVE  report'.observedAt >= report.observedAt
    <3>1. /\ worker[n].pc \in Busy
          /\ report'.observedAt \in {report.observedAt, WorkAt(worker[n])}
      BY <2>3, WriteDates
    <3>2. WorkAt(worker[n]) >= report.observedAt
      BY <3>1 DEF ForwardInv
    <3> QED BY <2>1, <3>1, <3>2
  <2>4. report' = report \/ \E n \in Namespaces, arrives \in BOOLEAN : Write(n, arrives)
    <3>1. Outside => report' = report
      BY OutsideGoesOn DEF AgentInv
    <3> QED BY <3>1, NextCases, GatherLooks, Zenon DEF vars, ReportSync, InformerSync, Restart
  <2> QED BY <2>2, <2>3, <2>4
<1> HIDE DEF Forward
<1>3. Spec => [][Forward]_vars
  BY AgentInit, AgentStep, ForwardStep, <1>1, <1>2, PTL DEF Spec
<1> QED BY <1>3, PTL DEF ReportTimeForward, Forward

-----------------------------------------------------------------------------
(* Evidence.                                                               *)

\* EvidenceCurrent, of a report and of a timeline.
Evidence(r, tl) ==
    \E d : /\ ThereAt(tl, r.namespace, d, LaterOf(tl, r.observedAt))
           /\ Made(r, Description[d], LiveIn(tl, r.observedAt), CachedIn(tl, r.observedAt))

EvidenceInv == report # NoReport /\ ~raced => Evidence(report, timeline)

LEMMA EvidenceWrite ==
    ASSUME AgentInv, EvidenceInv, NEW n \in Namespaces, NEW arrives, Write(n, arrives)
    PROVE  EvidenceInv'
<1> DEFINE w == worker[n]
           spec == w.spec
<1>1. /\ \/ report' = report
         \/ w.base = NoReport /\ report = NoReport /\ report' = spec
         \/ w.base # NoReport /\ report' = MergeFrom(spec, w.base, report)
      /\ raced' = IF report' = report THEN raced ELSE w.base # report \/ w.outdated
      /\ w.pc = "write"
  BY WriteStores, Zenon
<1>2. timeline' = timeline
  BY Zenon DEF Write
<1>3. CASE report' = report
  BY <1>1, <1>2, <1>3, Zenon DEF EvidenceInv
<1>4. CASE report' # report
  <2> SUFFICES ASSUME ~raced' PROVE Evidence(report', timeline)
    BY <1>2, Zenon DEF EvidenceInv
  <2>1. w.base = report /\ ~w.outdated
    BY <1>1, <1>4, Zenon
  <2>2. SpecInv(spec, w.outdated, n, now, timeline)
    BY <1>1, SpecThen DEF AgentInv
  <2> HIDE DEF spec
  <2>3. Whole(spec) /\ spec.namespace = n
    BY <2>2, Zenon DEF SpecInv
  <2>4. report' = spec
    <3>1. MergeFrom(spec, report, report) = spec
      BY <2>3, Zenon DEF Whole
    <3> QED BY <1>1, <1>4, <2>1, <3>1, Zenon
  <2>5. Evidence(spec, timeline)
    BY <2>1, <2>2, <2>3, Zenon DEF SpecInv, Evidence
  <2> QED BY <2>4, <2>5, Zenon
<1> QED BY <1>3, <1>4

LEMMA EvidenceStep == AgentInv /\ EvidenceInv /\ [Next]_vars => EvidenceInv'
<1> SUFFICES ASSUME AgentInv, EvidenceInv, [Next]_vars PROVE EvidenceInv'
  OBVIOUS
<1>1. CASE Outside
  <2>1. /\ report' = report /\ raced' = raced
        /\ Len(timeline) \in Nat /\ Len(timeline') \in Nat
        /\ \A t \in Nat : t <= now => GoesOn(timeline, timeline', t)
    BY <1>1, OutsideGoesOn DEF AgentInv, TimeInv
  <2> SUFFICES ASSUME report # NoReport, Evidence(report, timeline)
               PROVE  Evidence(report, timeline')
    BY <2>1, Zenon DEF EvidenceInv
  <2> DEFINE t == report.observedAt
             n == report.namespace
  <2>2. t \in Nat /\ t <= now
    BY Zenon DEF AgentInv, ReportInv, ReportTyped
  <2>3. GoesOn(timeline, timeline', t)
    BY <2>1, <2>2
  <2>4. PICK d : /\ ThereAt(timeline, n, d, LaterOf(timeline, t))
                 /\ Made(report, Description[d], LiveIn(timeline, t), CachedIn(timeline, t))
    BY Zenon DEF Evidence
  <2> HIDE DEF t, n
  <2>5. /\ LaterOf(timeline, t) \subseteq LaterOf(timeline', t)
        /\ \A i \in LaterOf(timeline, t) : timeline'[i] = timeline[i]
        /\ LiveIn(timeline, t) \subseteq LiveIn(timeline', t)
        /\ CachedIn(timeline, t) \subseteq CachedIn(timeline', t)
    BY <2>1, <2>2, <2>3, LaterStays
  <2>6. ThereAt(timeline', n, d, LaterOf(timeline', t))
    BY <2>4, <2>5, ThereStays
  <2>7. Made(report, Description[d], LiveIn(timeline', t), CachedIn(timeline', t))
    BY <2>4, <2>5, MadeMore
  <2> QED BY <2>6, <2>7, Zenon DEF Evidence, t, n
<1>2. CASE UNCHANGED <<report, raced, timeline>>
  BY <1>2, Zenon DEF EvidenceInv
<1>3. ASSUME NEW n \in Namespaces, NEW arrives \in BOOLEAN, Write(n, arrives) PROVE EvidenceInv'
  BY <1>3, EvidenceWrite
<1>4. \/ Outside \/ UNCHANGED <<report, raced, timeline>>
      \/ \E n \in Namespaces, arrives \in BOOLEAN : Write(n, arrives)
  BY NextCases, GatherLooks, Zenon DEF vars, ReportSync, InformerSync, Restart
<1> QED BY <1>1, <1>2, <1>3, <1>4, Zenon

\* The worlds of the properties are those of the invariant.
LEMMA SameWorlds ==
    ASSUME TimeInv, NEW t
    PROVE  /\ Later(t) = LaterOf(timeline, t)
           /\ OrLost(Since(t), t) = LiveIn(timeline, t)
           /\ OrLost(Ever, t) = CachedIn(timeline, t)
<1>1. DOMAIN timeline = 1 .. Len(timeline)
  BY DEF TimeInv
<1>2. Later(t) = LaterOf(timeline, t)
  BY <1>1, Zenon DEF Later, LaterOf, Latest
<1>3. OrLost(Since(t), t) = LiveIn(timeline, t)
  BY <1>2, Zenon DEF Since, LiveIn
<1>4. OrLost(Ever, t) = CachedIn(timeline, t)
  BY <1>1, Zenon DEF Ever, CachedIn
<1> QED BY <1>2, <1>3, <1>4

\* The ConfigMap that the evidence is about is among those of the report's time.
LEMMA ThereDescribes ==
    ASSUME TimeInv, NEW r, NEW d, ThereAt(timeline, r.namespace, d, LaterOf(timeline, r.observedAt))
    PROVE  d \in DescribedBy(r)
<1>1. Later(r.observedAt) = LaterOf(timeline, r.observedAt)
  BY SameWorlds
<1> QED BY <1>1, Zenon DEF ThereAt, DescribedBy

\* Unless it was written from an outdated copy, no live part of a report is older
\* than the time it carries (the reconcile and upsertReport of
\* localwatch_controller.go): with any number of namespaces, whatever changes or
\* fails between any two of its reads and however far each informer lags, the
\* report is made of things each of which was there at that time or later, or, if
\* an informer showed it, at some time.
THEOREM EvidenceAlwaysCurrent == Spec => []EvidenceCurrent
<1>1. Init => EvidenceInv
  BY Zenon DEF Init, EvidenceInv
<1>2. AgentInv /\ EvidenceInv => EvidenceCurrent
  <2> SUFFICES ASSUME AgentInv, EvidenceInv, report # NoReport, ~raced
               PROVE  \E d \in DescribedBy(report) :
                         Made(report, Description[d], OrLost(Since(report.observedAt), report.observedAt),
                              OrLost(Ever, report.observedAt))
    BY Zenon DEF EvidenceCurrent
  <2>1. PICK d : /\ ThereAt(timeline, report.namespace, d, LaterOf(timeline, report.observedAt))
                 /\ Made(report, Description[d], LiveIn(timeline, report.observedAt),
                         CachedIn(timeline, report.observedAt))
    BY Zenon DEF EvidenceInv, Evidence
  <2>2. TimeInv
    BY DEF AgentInv
  <2>3. d \in DescribedBy(report)
    BY <2>1, <2>2, ThereDescribes
  <2>4. /\ OrLost(Since(report.observedAt), report.observedAt) = LiveIn(timeline, report.observedAt)
        /\ OrLost(Ever, report.observedAt) = CachedIn(timeline, report.observedAt)
    BY <2>2, SameWorlds
  <2> QED BY <2>1, <2>3, <2>4, Zenon
<1> QED BY <1>1, <1>2, AgentInit, AgentStep, EvidenceStep, PTL DEF Spec

\* What the gate on dependencies reads of a report.
LEMMA DependenciesGate ==
    ASSUME NEW r, DependenciesReady({[obs |-> Seen(r)]}) = "True"
    PROVE  \A x \in r.diag.deps : x.ready
<1> DEFINE bad == \E x \in r.diag.deps : ~x.ready
<1>1. Seen(r).depsUnready = bad
  <2> DEFINE h == HealthTest(r.health)
             e == {x.at : x \in r.diag.events}
             f == r.diag.objects \cap FailTypes # {}
             rest == [EmptyObservation EXCEPT !.health = h, !.events = e, !.objectsFail = f,
                                              !.depsUnready = bad]
  <2>1. Seen(r) = PlatformSeen(rest, r.pool, r.obs)
    BY Zenon DEF Seen
  <2> HIDE DEF h, e, f, bad
  <2>2. DOMAIN rest = DOMAIN EmptyObservation /\ rest.depsUnready = bad
    BY DEF EmptyObservation
  <2> HIDE DEF rest
  <2>3. PlatformSeen(rest, r.pool, r.obs).depsUnready = rest.depsUnready
    BY <2>2, SeenParts
  <2> QED BY <2>1, <2>2, <2>3, Zenon
<1> DEFINE R == {[obs |-> Seen(r)]}
<1>2. ~ \E q \in R : q.obs.depsUnready
  <2>1. GateOf(R # {}, \E q \in R : q.obs.depsUnready) = "True"
    BY Zenon DEF DependenciesReady
  <2> HIDE DEF R
  <2>2. ASSUME \E q \in R : q.obs.depsUnready PROVE FALSE
    <3>1. GateOf(R # {}, \E q \in R : q.obs.depsUnready) \in {"Unknown", "False"}
      BY <2>2, Zenon DEF GateOf
    <3> QED BY <2>1, <3>1
  <2> QED BY <2>2, Zenon
<1>3. [obs |-> Seen(r)] \in R /\ [obs |-> Seen(r)].obs = Seen(r)
  BY Zenon
<1>4. ~bad
  BY <1>1, <1>2, <1>3, Zenon
<1> QED BY <1>4, Zenon

\* A read that found a resource found a state of the world with it.
LEMMA ResourceThere ==
    ASSUME NEW worlds, NEW t, NEW w \in OrLost(worlds, t), worlds \subseteq DOMAIN World,
           NEW x \in Workload(w).resources
    PROVE  w \in worlds /\ x \in World[w].workload.resources
<1>1. w # Lost
  <2>1. Workload(Lost) = NoWorkload
    BY Zenon DEF Workload
  <2>2. NoWorkload.resources = {}
    BY DEF NoWorkload
  <2> QED BY <2>1, <2>2, Zenon
<1>2. w \in worlds
  BY <1>1, Zenon DEF OrLost
<1> QED BY <1>1, <1>2, Zenon DEF Workload

\* When the gate on dependencies passes for an application in trouble, each
\* dependency of its description was really there, at the time of the report or
\* later, or at some time if an informer showed it (checkDependencies of
\* localwatch_controller.go): neither a read that failed nor a kind nobody checks
\* makes it pass.
THEOREM DependenciesAlwaysFailClosed == Spec => []DependenciesFailClosed
<1>1. Init => EvidenceInv
  BY Zenon DEF Init, EvidenceInv
<1>2. AgentInv /\ EvidenceInv => DependenciesFailClosed
  <2> SUFFICES ASSUME AgentInv, EvidenceInv, report # NoReport, ~raced, Troubled(report),
                      DependenciesReady({[obs |-> Seen(report)]}) = "True"
               PROVE  \E d \in DescribedBy(report) : \A x \in Description[d].deps :
                         /\ x.kind \in KnownKinds
                         /\ \E w \in IF x.kind \in Cached THEN Ever ELSE Since(report.observedAt) :
                               x \in World[w].workload.resources
    BY Zenon DEF DependenciesFailClosed
  <2> DEFINE t == report.observedAt
             L == LiveIn(timeline, t)
             C == CachedIn(timeline, t)
  <2>1. PICK d : /\ ThereAt(timeline, report.namespace, d, LaterOf(timeline, t))
                 /\ Made(report, Description[d], L, C)
    BY Zenon DEF EvidenceInv, Evidence
  <2>2. TimeInv
    BY DEF AgentInv
  <2>3. d \in DescribedBy(report)
    BY <2>1, <2>2, ThereDescribes
  <2> HIDE DEF L, C, t
  <2>4. Troubled(Description[d]) /\ Diagnosed(report.diag, Description[d], L, C)
    <3>1. Observed(report, Description[d], L) /\ Diagnosed(report.diag, Description[d], L, C)
      BY <2>1, MadeParts, Zenon
    <3>2. report.sync = Description[d].sync /\ report.health = Description[d].health
      BY <3>1, Zenon DEF Observed
    <3> QED BY <3>1, <3>2, Zenon DEF Troubled
  <2>5. PICK in \in [Description[d].deps -> L \cup C] :
           /\ \A x \in Description[d].deps : in[x] \in IF x.kind \in Cached THEN C ELSE L
           /\ report.diag.deps = checkDependencies(Description[d].deps, in)
    BY <2>4, Zenon DEF Diagnosed
  <2>6. \A x \in Description[d].deps : x.kind \in KnownKinds /\ x \in Workload(in[x]).resources
    <3> SUFFICES ASSUME NEW x \in Description[d].deps
                 PROVE  x.kind \in KnownKinds /\ x \in Workload(in[x]).resources
      OBVIOUS
    <3> DEFINE y == [dep |-> x, ready |-> x.kind \in KnownKinds /\ x \in Workload(in[x]).resources]
    <3>1. y \in report.diag.deps
      BY <2>5, Zenon DEF checkDependencies
    <3>2. y.ready = (x.kind \in KnownKinds /\ x \in Workload(in[x]).resources)
      BY Zenon
    <3>3. y.ready
      BY <3>1, DependenciesGate, Zenon
    <3> QED BY <3>2, <3>3, Zenon
  <2>7. L = OrLost(Since(t), t) /\ C = OrLost(Ever, t)
    BY <2>2, SameWorlds DEF L, C
  <2>8. Since(t) \subseteq DOMAIN World /\ Ever \subseteq DOMAIN World
    <3>1. \A i \in DOMAIN timeline : timeline[i].world \in DOMAIN World
      BY <2>2, EntryParts DEF TimeInv
    <3> QED BY <3>1, Zenon DEF Since, Later, Ever
  <2>9. ASSUME NEW x \in Description[d].deps
        PROVE  \E w \in IF x.kind \in Cached THEN Ever ELSE Since(t) : x \in World[w].workload.resources
    <3>1. CASE x.kind \in Cached
      <4>1. in[x] \in OrLost(Ever, t)
        BY <2>5, <2>7, <3>1, Zenon
      <4>2. in[x] \in Ever /\ x \in World[in[x]].workload.resources
        BY <2>6, <2>8, <4>1, ResourceThere, Zenon
      <4> QED BY <3>1, <4>2, Zenon
    <3>2. CASE x.kind \notin Cached
      <4>1. in[x] \in OrLost(Since(t), t)
        BY <2>5, <2>7, <3>2, Zenon
      <4>2. in[x] \in Since(t) /\ x \in World[in[x]].workload.resources
        BY <2>6, <2>8, <4>1, ResourceThere, Zenon
      <4> QED BY <3>2, <4>2, Zenon
    <3> QED BY <3>1, <3>2
  <2> QED BY <2>3, <2>6, <2>9, Zenon DEF t
<1> QED BY <1>1, <1>2, AgentInit, AgentStep, EvidenceStep, PTL DEF Spec

=============================================================================
