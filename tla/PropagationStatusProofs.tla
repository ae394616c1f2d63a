----------------------- MODULE PropagationStatusProofs -----------------------
(***************************************************************************)
(* Proofs about the PropagationStatus controller, for every set of         *)
(* clusters and revisions, every threshold and target list, and any edits, *)
(* deletions, restarts and lost patches.                                   *)
(***************************************************************************)
EXTENDS PropagationStatus, FiniteSetTheorems, TLAPS

-----------------------------------------------------------------------------
(* The operators of a reconcile.                                           *)

\* The phases a roll-up can give; no phase before the first stored status.
Phases == {"Diverged", "Stale", "Propagating", "Synced"}

\* A list of clusters is empty exactly when no row is in a state it collects.
LEMMA ListEmpty ==
    ASSUME NEW rows, NEW n \in Nat, DOMAIN rows = 1 .. n, NEW S, ClustersIn(rows, S) = <<>>
    PROVE  \A i \in DOMAIN rows : rows[i].state \notin S
<1> DEFINE at == {i \in DOMAIN rows : rows[i].state \in S}
<1>1. IsFiniteSet(at)
  <2>1. IsFiniteSet(1 .. n) /\ at \subseteq 1 .. n
    BY FS_Interval
  <2> QED BY <2>1, FS_Subset
<1>2. Cardinality(at) \in Nat /\ (Cardinality(at) = 0 <=> at = {})
  BY <1>1, FS_CardinalityType, FS_EmptySet
<1>3. DOMAIN ClustersIn(rows, S) = 1 .. Cardinality(at)
  BY Zenon DEF ClustersIn
<1> HIDE DEF at
<1>4. 1 .. Cardinality(at) = {}
  BY <1>3
<1>5. at = {}
  BY <1>2, <1>4
<1> QED BY <1>5 DEF at

StatusFields == {"rows", "lists", "phase", "condition", "lastExpectedRevision", "since",
                 "observedGeneration"}
ObjectFields == {"life", "expected", "targets", "generation", "status"}

\* A row names its cluster and is in one of the six states.
LEMMA RowTyped ==
    ASSUME NEW c, NEW listed, NEW expected, NEW since
    PROVE  LET row == ClusterRow(c, listed, expected, since)
           IN  row.state \in States /\ row.cluster = c
BY DEF ClusterRow, RowState, States

\* What a reconcile computes from the version it read.
LEMMA StatusComputed ==
    ASSUME NEW view, NEW listed
    PROVE  LET n == NewStatus(view, listed)
           IN  /\ DOMAIN n = StatusFields
               /\ n.rows = [i \in DOMAIN view.targets |->
                              ClusterRow(view.targets[i], listed, view.expected, LagClock(view))]
               /\ n.lists = ListsOf(n.rows)
               /\ n.phase = rollUpPhase(n.lists) /\ n.phase \in Phases
               /\ n.condition = setCondition(n.phase)
               /\ n.lastExpectedRevision = view.expected
               /\ n.since = LagClock(view)
               /\ n.observedGeneration = view.generation
<1> DEFINE rows == [i \in DOMAIN view.targets |->
                      ClusterRow(view.targets[i], listed, view.expected, LagClock(view))]
           lists == ListsOf(rows)
           n == NewStatus(view, listed)
<1>1. n = [ rows |-> rows, lists |-> lists, phase |-> rollUpPhase(lists),
            condition |-> setCondition(rollUpPhase(lists)), lastExpectedRevision |-> view.expected,
            since |-> LagClock(view), observedGeneration |-> view.generation ]
  BY DEF NewStatus
<1> HIDE DEF rows, lists, n
<1>2. rollUpPhase(lists) \in Phases
  BY DEF rollUpPhase, Phases
<1>3. /\ DOMAIN n = StatusFields
      /\ n.rows = rows /\ n.lists = lists /\ n.phase = rollUpPhase(lists)
      /\ n.condition = setCondition(rollUpPhase(lists)) /\ n.lastExpectedRevision = view.expected
      /\ n.since = LagClock(view) /\ n.observedGeneration = view.generation
  BY <1>1 DEF StatusFields
<1> QED BY <1>2, <1>3, Zenon DEF rows, lists, n

\* A patch takes each field from the computed status where that differs from the
\* version read, and from the stored one where it does not.
LEMMA MergeFieldwise ==
    ASSUME NEW new, DOMAIN new = StatusFields, NEW old, NEW current,
           NEW m, m = MergeFrom(new, old, current)
    PROVE  /\ DOMAIN m = StatusFields
           /\ m.rows = Pick(new.rows, old.rows, current.rows)
           /\ m.lists = MergeFields(new.lists, old.lists, current.lists)
           /\ m.phase = Pick(new.phase, old.phase, current.phase)
           /\ m.condition = Pick(new.condition, old.condition, current.condition)
           /\ m.lastExpectedRevision =
                 Pick(new.lastExpectedRevision, old.lastExpectedRevision, current.lastExpectedRevision)
           /\ m.since = Pick(new.since, old.since, current.since)
           /\ m.observedGeneration =
                 Pick(new.observedGeneration, old.observedGeneration, current.observedGeneration)
<1> DEFINE k == MergeFields(new, old, current)
           l == MergeFields(new.lists, old.lists, current.lists)
<1>1. DOMAIN k = StatusFields /\ \A f \in StatusFields : k[f] = Pick(new[f], old[f], current[f])
  BY DEF MergeFields
<1>2. m = [k EXCEPT !.lists = l]
  BY DEF MergeFrom
<1> HIDE DEF k, l
<1>3. /\ DOMAIN m = StatusFields /\ m["lists"] = l
      /\ \A f \in StatusFields \ {"lists"} : m[f] = k[f]
  BY <1>1, <1>2 DEF StatusFields
<1> QED BY <1>1, <1>3 DEF StatusFields, l

-----------------------------------------------------------------------------
(* Types, with a cache that may lag.                                       *)

\* A version of the object: its fields, and what TypeOK says of it.
Typed(v) ==
    /\ DOMAIN v = ObjectFields
    /\ v.life \in {"present", "deleting", "gone"}
    /\ v.targets \in TargetLists /\ v.generation \in Nat
    /\ \A i \in DOMAIN v.status.rows : v.status.rows[i].state \in States
    /\ v.status.phase \in Phases \cup {""}
    /\ v.status.since \in Nat \cup {NoTime}

TypeInv == now \in Nat /\ Typed(object) /\ Typed(cache) /\ metrics \subseteq Clusters

\* The object starts with no status.
LEMMA StartsEmpty == Init => object.status = NoStatus
<1> SUFFICES ASSUME Init PROVE object.status = NoStatus
  OBVIOUS
<1> HIDE DEF NoStatus
<1>1. PICK r \in Revisions, T \in TargetLists :
         object = [life |-> "present", expected |-> r, targets |-> T,
                   generation |-> 1, status |-> NoStatus]
  BY DEF Init
<1> QED BY <1>1

LEMMA TypeInit == Init => TypeInv
<1> SUFFICES ASSUME Init PROVE TypeInv
  OBVIOUS
<1>1. PICK r \in Revisions, T \in TargetLists :
         object = [life |-> "present", expected |-> r, targets |-> T,
                   generation |-> 1, status |-> NoStatus]
  BY DEF Init
<1>2. object.status = NoStatus /\ object.life = "present" /\ object.targets = T
      /\ object.generation = 1 /\ DOMAIN object = ObjectFields
  BY <1>1 DEF ObjectFields
<1>3. NoStatus.rows = <<>> /\ NoStatus.phase = "" /\ NoStatus.since = NoTime
  BY DEF NoStatus
<1>4. \A i \in DOMAIN object.status.rows : object.status.rows[i].state \in States
  <2>1. object.status.rows = <<>>
    BY <1>2, <1>3, Zenon
  <2>2. DOMAIN object.status.rows = {}
    BY <2>1
  <2> QED BY <2>2, Zenon
<1>5. object.status.phase \in Phases \cup {""}
  BY <1>2, <1>3, Zenon
<1>6. Typed(object)
  <2>1. object.generation \in Nat
    BY <1>2
  <2> QED BY <1>2, <1>3, <1>4, <1>5, <2>1, Zenon DEF Typed
<1> QED BY <1>6 DEF TypeInv, Init

\* Lists of clusters name clusters.
LEMMA TargetsAreClusters ==
    ASSUME NEW T \in TargetLists
    PROVE  ClustersOf(T) \subseteq Clusters
BY PropagationAssumption DEF ClustersOf

\* What Reconcile stores, when its patch succeeds and the object is still there.
Stored(listed) == MergeFrom(NewStatus(cache, listed), cache.status, object.status)

LEMMA StoredTyped ==
    ASSUME TypeInv, NEW listed
    PROVE  Typed([object EXCEPT !.status = Stored(listed)])
<1> DEFINE new == NewStatus(cache, listed)
           s == Stored(listed)
           o == [object EXCEPT !.status = s]
<1>1. /\ DOMAIN new = StatusFields /\ new.phase \in Phases /\ new.since = LagClock(cache)
      /\ new.rows = [i \in DOMAIN cache.targets |->
                       ClusterRow(cache.targets[i], listed, cache.expected, LagClock(cache))]
  BY StatusComputed
<1>2. /\ s.rows = Pick(new.rows, cache.status.rows, object.status.rows)
      /\ s.phase = Pick(new.phase, cache.status.phase, object.status.phase)
      /\ s.since = Pick(new.since, cache.status.since, object.status.since)
  <2> HIDE DEF new
  <2> QED BY <1>1, MergeFieldwise DEF Stored, new
<1> HIDE DEF new, s
<1>3. \A i \in DOMAIN s.rows : s.rows[i].state \in States
  <2>1. \A i \in DOMAIN new.rows : new.rows[i].state \in States
    BY <1>1, RowTyped
  <2> QED BY <1>2, <2>1 DEF Pick, TypeInv, Typed
<1>4. s.phase \in Phases \cup {""}
  BY <1>1, <1>2 DEF Pick, TypeInv, Typed
<1>5. s.since \in Nat \cup {NoTime}
  BY <1>1, <1>2 DEF Pick, LagClock, TypeInv, Typed
<1>6. /\ DOMAIN o = ObjectFields /\ o.status = s /\ o.life = object.life
      /\ o.targets = object.targets /\ o.generation = object.generation
  BY DEF TypeInv, Typed, ObjectFields
<1> QED BY <1>3, <1>4, <1>5, <1>6 DEF TypeInv, Typed, s

\* After a write the cache has its old version or the new one.
LEMMA CacheTyped ==
    ASSUME Typed(cache), Typed(object)', CacheAfterWrite
    PROVE  Typed(cache)'
<1>1. cache' = cache \/ cache' = object'
  BY DEF CacheAfterWrite
<1> QED BY <1>1 DEF Typed

\* A write of the spec or of the life of an object keeps its status.
LEMMA EditTyped ==
    ASSUME TypeInv, NEW r, NEW T \in TargetLists
    PROVE  Typed([object EXCEPT !.expected = r, !.targets = T, !.generation = @ + 1])
<1> DEFINE o == [object EXCEPT !.expected = r, !.targets = T, !.generation = @ + 1]
<1>1. /\ DOMAIN o = ObjectFields /\ o.status = object.status /\ o.life = object.life
      /\ o.targets = T /\ o.generation \in Nat
  <2>1. DOMAIN object = ObjectFields /\ object.generation \in Nat
    BY Zenon DEF TypeInv, Typed
  <2> QED BY <2>1 DEF ObjectFields
<1> HIDE DEF o
<1>2. Typed(o)
  BY <1>1 DEF TypeInv, Typed
<1> QED BY <1>2 DEF o

LEMMA LifeTyped ==
    ASSUME TypeInv, NEW l \in {"present", "deleting", "gone"}
    PROVE  Typed([object EXCEPT !.life = l])
<1> DEFINE o == [object EXCEPT !.life = l]
<1>1. /\ DOMAIN o = ObjectFields /\ o.status = object.status /\ o.life = l
      /\ o.targets = object.targets /\ o.generation = object.generation
  BY DEF TypeInv, Typed, ObjectFields
<1> HIDE DEF o
<1>2. Typed(o)
  BY <1>1 DEF TypeInv, Typed
<1> QED BY <1>2 DEF o

\* The series after a reconcile are old ones or of targets.
LEMMA MetricsTyped ==
    ASSUME TypeInv
    PROVE  MetricsAfter(cache) \subseteq Clusters
<1>1. ClustersOf(cache.targets) \subseteq Clusters
  BY TargetsAreClusters DEF TypeInv, Typed
<1> QED BY <1>1 DEF MetricsAfter, TypeInv

\* The object a reconcile leaves: the one with the patched status, or the old one.
LEMMA ReconcileStores ==
    ASSUME NEW patched, Reconcile(patched)
    PROVE  \E listed \in Listings :
              /\ \/ object' = object
                 \/ patched /\ object.life # "gone"
                    /\ object' = [object EXCEPT !.status = Stored(listed)]
              /\ announced' = emitTransitionEvent(cache, NewStatus(cache, listed).phase)
              /\ history' = IF ~patched THEN [history EXCEPT !.lost = @ \cup ClustersOf(cache.targets)]
                            ELSE [ history EXCEPT !.evaluatedAt = now,
                                      !.otherAt = IF cache.expected = object.status.lastExpectedRevision
                                                  THEN @ ELSE history.evaluatedAt ]
              /\ (patched /\ object.life # "gone" =>
                    object' = [object EXCEPT !.status = Stored(listed)])
<1>1. PICK listed \in Listings : \E new \in {NewStatus(cache, listed)} :
          /\ metrics' = MetricsAfter(cache)
          /\ announced' = emitTransitionEvent(cache, new.phase)
          /\ object' = IF patched /\ object.life # "gone"
                       THEN [object EXCEPT !.status = MergeFrom(new, cache.status, @)] ELSE object
          /\ history' = IF ~patched THEN [history EXCEPT !.lost = @ \cup ClustersOf(cache.targets)]
                        ELSE [ history EXCEPT !.evaluatedAt = now,
                                              !.otherAt = IF cache.expected = object.status.lastExpectedRevision
                                                          THEN @ ELSE history.evaluatedAt ]
  BY DEF Reconcile
<1>2. [object EXCEPT !.status = MergeFrom(NewStatus(cache, listed), cache.status, @)]
        = [object EXCEPT !.status = Stored(listed)]
  BY DEF Stored
<1> QED BY <1>1, <1>2, Zenon

LEMMA TypeStep == TypeInv /\ [Next]_vars => TypeInv'
<1> SUFFICES ASSUME TypeInv, [Next]_vars PROVE TypeInv'
  OBVIOUS
<1>0. now \in Nat /\ Typed(object) /\ Typed(cache) /\ metrics \subseteq Clusters
  BY DEF TypeInv
<1> SUFFICES now' \in Nat /\ Typed(object)' /\ Typed(cache)' /\ metrics' \subseteq Clusters
  BY DEF TypeInv
<1>1. CASE Tick
  <2>1. now' \in Nat
    BY <1>0, <1>1 DEF Tick
  <2> QED BY <1>0, <1>1, <2>1, Zenon DEF Tick, Typed
<1>2. ASSUME NEW c \in Clusters, NEW f \in Findings, Report(c, f) PROVE TypeInv'
  BY <1>0, <1>2 DEF Report, TypeInv, Typed
<1>3. ASSUME NEW r \in Revisions, NEW T \in TargetLists, EditSpec(r, T) PROVE TypeInv'
  <2>1. Typed(object)'
    <3>1. object' = [object EXCEPT !.expected = r, !.targets = T, !.generation = @ + 1]
      BY <1>3 DEF EditSpec
    <3>2. Typed(object')
      BY <3>1, EditTyped
    <3> QED BY <3>2 DEF Typed
  <2>2. Typed(cache)'
    BY <1>0, <1>3, <2>1, CacheTyped DEF EditSpec
  <2> QED BY <1>0, <1>3, <2>1, <2>2 DEF EditSpec, TypeInv
<1>4. CASE Delete
  <2>1. Typed(object)'
    <3>1. PICK l \in {"present", "deleting", "gone"} : object' = [object EXCEPT !.life = l]
      BY <1>4 DEF Delete
    <3>2. Typed(object')
      BY <3>1, LifeTyped
    <3> QED BY <3>2 DEF Typed
  <2>2. Typed(cache)'
    BY <1>0, <1>4, <2>1, CacheTyped DEF Delete
  <2> QED BY <1>0, <1>4, <2>1, <2>2 DEF Delete
<1>5. CASE Restart
  BY <1>0, <1>5 DEF Restart, Typed
<1>6. CASE InformerSync
  BY <1>0, <1>6 DEF InformerSync, Typed
<1>7. ASSUME NEW patched, Reconcile(patched) PROVE TypeInv'
  <2>1. Typed(object)'
    <3>1. PICK listed \in Listings :
             object' = object \/ object' = [object EXCEPT !.status = Stored(listed)]
      BY <1>7, ReconcileStores, Zenon
    <3>2. Typed(object')
      BY <1>0, <3>1, StoredTyped
    <3> QED BY <3>2 DEF Typed
  <2>2. Typed(cache)'
    BY <1>0, <1>7, <2>1, CacheTyped DEF Reconcile
  <2>3. now' = now /\ metrics' = MetricsAfter(cache)
    BY <1>7 DEF Reconcile
  <2> QED BY <1>0, <2>1, <2>2, <2>3, MetricsTyped DEF TypeInv
<1>8. CASE ReconcileDeleting
  BY <1>0, <1>8 DEF ReconcileDeleting, Typed
<1>9. CASE UNCHANGED vars
  BY <1>0, <1>9 DEF vars, Typed
<1> QED
  BY <1>1, <1>2, <1>3, <1>4, <1>5, <1>6, <1>7, <1>8, <1>9, Zenon
     DEF Next, Users, Agents, ReconcileOK, TypeInv

\* The rows, lists, phase and clocks of the stored and of the cached object keep
\* their types through every merge patch, however far the cache lags behind.
THEOREM StatusTyped == Spec => []TypeOK
<1>1. TypeInv => TypeOK
  <2> SUFFICES ASSUME TypeInv, NEW v \in {object, cache}
               PROVE  /\ now \in Nat
                      /\ v.life \in {"present", "deleting", "gone"}
                      /\ v.targets \in TargetLists /\ v.generation \in Nat
                      /\ \A i \in DOMAIN v.status.rows : v.status.rows[i].state \in States
                      /\ v.status.phase \in {"", "Diverged", "Stale", "Propagating", "Synced"}
                      /\ v.status.since \in Nat \cup {NoTime}
                      /\ metrics \subseteq Clusters
    BY Zenon DEF TypeOK
  <2>1. Typed(v)
    BY DEF TypeInv
  <2>2. v.status.phase \in {"", "Diverged", "Stale", "Propagating", "Synced"}
    BY <2>1, Zenon DEF Typed, Phases
  <2> QED BY <2>1, <2>2, Zenon DEF Typed, TypeInv
<1> QED BY TypeInit, TypeStep, <1>1, PTL DEF Spec

-----------------------------------------------------------------------------
(* Events, with a cache that may lag.                                      *)

\* Of the steps other than a patched Reconcile none writes the status.
LEMMA StatusWrites ==
    ASSUME TypeInv, Next
    PROVE  \/ object'.status = object.status
           \/ Reconcile(TRUE)
<1>0. DOMAIN object = ObjectFields
  BY Zenon DEF TypeInv, Typed
<1>1. ASSUME NEW r \in Revisions, NEW T \in TargetLists, EditSpec(r, T)
      PROVE  object'.status = object.status
  BY <1>0, <1>1 DEF EditSpec, ObjectFields
<1>2. ASSUME Delete PROVE object'.status = object.status
  <2>1. PICK l \in {"present", "deleting", "gone"} : object' = [object EXCEPT !.life = l]
    BY <1>2 DEF Delete
  <2> QED BY <1>0, <2>1 DEF ObjectFields
<1>3. ASSUME Reconcile(FALSE) PROVE object' = object
  BY <1>3, ReconcileStores
<1>4. ASSUME \/ Tick \/ Restart \/ InformerSync \/ ReconcileDeleting
             \/ \E c \in Clusters, f \in Findings : Report(c, f)
      PROVE  object' = object
  BY <1>4 DEF Tick, Restart, InformerSync, ReconcileDeleting, Report
<1> QED BY <1>1, <1>2, <1>3, <1>4, Zenon DEF Next, Users, Agents, ReconcileOK

\* Whatever version the cache showed to the reconcile that changes the stored
\* phase, that reconcile (or an earlier one whose patch was lost) told of the new
\* phase last: the phase it stores differs from the one it read.
THEOREM PhaseChangeAlwaysAnnounced == Spec => PhaseChangeAnnounced
<1> DEFINE Told == object'.status.phase # object.status.phase => announced' = object'.status.phase
<1>1. TypeInv /\ [Next]_vars => [Told]_vars
  <2> SUFFICES ASSUME TypeInv, Next, Reconcile(TRUE) PROVE Told
    BY StatusWrites
  <2>1. PICK listed \in Listings :
           /\ object' = object \/ object' = [object EXCEPT !.status = Stored(listed)]
           /\ announced' = emitTransitionEvent(cache, NewStatus(cache, listed).phase)
    BY ReconcileStores, Zenon
  <2> DEFINE new == NewStatus(cache, listed)
  <2>2. DOMAIN new = StatusFields
    BY StatusComputed
  <2>3. Stored(listed).phase = Pick(new.phase, cache.status.phase, object.status.phase)
    <3> HIDE DEF new
    <3> QED BY <2>2, MergeFieldwise DEF Stored, new
  <2>4. CASE object' = object
    BY <2>4
  <2>5. CASE object' = [object EXCEPT !.status = Stored(listed)]
    <3>1. DOMAIN object = ObjectFields
      BY Zenon DEF TypeInv, Typed
    <3>2. object'.status = Stored(listed)
      BY <2>5, <3>1 DEF ObjectFields
    <3> HIDE DEF new
    <3>3. announced' = emitTransitionEvent(cache, new.phase)
      BY <2>1 DEF new
    <3> QED BY <2>3, <3>2, <3>3 DEF Pick, emitTransitionEvent
  <2> QED BY <2>1, <2>4, <2>5
<1> HIDE DEF Told
<1>2. Spec => [][Told]_vars
  BY TypeInit, TypeStep, <1>1, PTL DEF Spec
<1> QED BY <1>2 DEF PhaseChangeAnnounced, Told

-----------------------------------------------------------------------------
(* A cache that follows at once.                                           *)

\* The cache shows the stored object.
Fresh == TypeInv /\ cache = object

LEMMA FreshInit == Init => Fresh
BY TypeInit DEF Init, Fresh

LEMMA FreshStep == CacheLag = FALSE /\ Fresh /\ [Next]_vars => Fresh'
<1> SUFFICES ASSUME CacheLag = FALSE, Fresh, [Next]_vars PROVE cache' = object'
  BY TypeStep DEF Fresh
<1>1. CASE CacheAfterWrite
  BY <1>1 DEF CacheAfterWrite
<1>2. CASE cache' \in {cache, object} /\ object' = object
  BY <1>2 DEF Fresh
<1>3. CacheAfterWrite \/ (cache' \in {cache, object} /\ object' = object)
  BY DEF Next, Users, Agents, ReconcileOK, Tick, Report, EditSpec, Delete, Restart, InformerSync,
         Reconcile, ReconcileDeleting, vars
<1> QED BY <1>1, <1>2, <1>3

\* Then what a reconcile stores is what it computed.
LEMMA StoredIsComputed ==
    ASSUME Fresh, NEW listed
    PROVE  LET s == Stored(listed)
               new == NewStatus(object, listed)
           IN  /\ s.rows = new.rows /\ s.lists = new.lists /\ s.phase = new.phase
               /\ s.condition = new.condition /\ s.since = new.since
               /\ s.lastExpectedRevision = new.lastExpectedRevision
               /\ s.observedGeneration = new.observedGeneration
<1> DEFINE s == Stored(listed)
           new == NewStatus(object, listed)
           old == object.status
<1>1. DOMAIN new = StatusFields /\ new.lists = ListsOf(new.rows)
  BY StatusComputed, Zenon
<1>2. s = MergeFrom(new, old, old)
  BY DEF Stored, Fresh
<1>3. \A x, y : Pick(x, y, y) = x
  BY DEF Pick
<1> HIDE DEF s, new, old
<1>4. /\ s.rows = Pick(new.rows, old.rows, old.rows)
      /\ s.lists = MergeFields(new.lists, old.lists, old.lists)
      /\ s.phase = Pick(new.phase, old.phase, old.phase)
      /\ s.condition = Pick(new.condition, old.condition, old.condition)
      /\ s.lastExpectedRevision =
            Pick(new.lastExpectedRevision, old.lastExpectedRevision, old.lastExpectedRevision)
      /\ s.since = Pick(new.since, old.since, old.since)
      /\ s.observedGeneration =
            Pick(new.observedGeneration, old.observedGeneration, old.observedGeneration)
  BY <1>1, <1>2, MergeFieldwise
<1>5. MergeFields(new.lists, old.lists, old.lists) = new.lists
  <2>1. MergeFields(new.lists, old.lists, old.lists) = [f \in DOMAIN new.lists |-> new.lists[f]]
    BY <1>3, Zenon DEF MergeFields
  <2>2. new.lists = [f \in DOMAIN new.lists |-> new.lists[f]]
    BY <1>1 DEF ListsOf
  <2> QED BY <2>1, <2>2
<1> QED BY <1>3, <1>4, <1>5, Zenon DEF s, new

\* A patched Reconcile of an object that is there stores what it computes from it.
LEMMA FreshReconcile ==
    ASSUME Fresh, Reconcile(TRUE)
    PROVE  \E listed \in Listings :
              LET s == object'.status
                  new == NewStatus(object, listed)
              IN  /\ object'.generation = object.generation /\ object'.targets = object.targets
                  /\ object'.expected = object.expected
                  /\ s.rows = new.rows /\ s.lists = new.lists /\ s.phase = new.phase
                  /\ s.condition = new.condition /\ s.since = new.since
                  /\ s.lastExpectedRevision = new.lastExpectedRevision
                  /\ s.observedGeneration = new.observedGeneration
                  /\ history' = [ history EXCEPT !.evaluatedAt = now,
                                     !.otherAt = IF object.expected = object.status.lastExpectedRevision
                                                 THEN @ ELSE history.evaluatedAt ]
<1>1. object.life # "gone" /\ cache = object /\ DOMAIN object = ObjectFields
  BY DEF Reconcile, Fresh, TypeInv, Typed
<1>2. PICK listed \in Listings :
         /\ object' = [object EXCEPT !.status = Stored(listed)]
         /\ history' = [ history EXCEPT !.evaluatedAt = now,
                            !.otherAt = IF object.expected = object.status.lastExpectedRevision
                                        THEN @ ELSE history.evaluatedAt ]
  BY <1>1, ReconcileStores, Zenon
<1>3. /\ object'.status = Stored(listed) /\ object'.targets = object.targets
      /\ object'.generation = object.generation /\ object'.expected = object.expected
  BY <1>1, <1>2 DEF ObjectFields
<1> DEFINE s == object'.status
           new == NewStatus(object, listed)
<1>4. /\ s.rows = new.rows /\ s.lists = new.lists /\ s.phase = new.phase
      /\ s.condition = new.condition /\ s.since = new.since
      /\ s.lastExpectedRevision = new.lastExpectedRevision
      /\ s.observedGeneration = new.observedGeneration
  <2> DEFINE t == Stored(listed)
  <2>1. /\ t.rows = new.rows /\ t.lists = new.lists /\ t.phase = new.phase
        /\ t.condition = new.condition /\ t.since = new.since
        /\ t.lastExpectedRevision = new.lastExpectedRevision
        /\ t.observedGeneration = new.observedGeneration
    BY StoredIsComputed, Zenon
  <2>2. s = t
    BY <1>3, Zenon
  <2> HIDE DEF s, t, new
  <2> QED BY <2>1, <2>2
<1> QED BY <1>2, <1>3, <1>4, Zenon

-----------------------------------------------------------------------------
(* The lag clock.                                                          *)

\* The row of a cluster is Lagging only when the lag clock ran long enough, and
\* InSync only with a listed report of the expected revision.
LEMMA RowMeans ==
    ASSUME NEW c, NEW listed, NEW expected, NEW since
    PROVE  LET row == ClusterRow(c, listed, expected, since)
           IN  /\ row.state = "Lagging" => now - since > LagThreshold
               /\ row.state = "InSync" => row.report.revision = expected
BY DEF ClusterRow, RowState

\* The last evaluation for another revision was stored before the lag clock
\* started, and no evaluation is in the future.
LagInv ==
    /\ Fresh
    /\ DOMAIN history = {"evaluatedAt", "otherAt", "lost"}
    /\ history.evaluatedAt \in Int /\ history.evaluatedAt <= now
    /\ history.otherAt \in Int /\ history.otherAt <= object.status.since
    /\ NeverLaggingEarly

LEMMA LagInit == Init => LagInv
<1> SUFFICES ASSUME Init PROVE LagInv
  OBVIOUS
<1>1. object.status = NoStatus
  BY StartsEmpty
<1>2. object.status.since = NoTime /\ object.status.rows = <<>>
  <2>1. NoStatus.since = NoTime /\ NoStatus.rows = <<>>
    BY DEF NoStatus
  <2> QED BY <1>1, <2>1
<1>3. DOMAIN object.status.rows = {}
  BY <1>2
<1>4. /\ DOMAIN history = {"evaluatedAt", "otherAt", "lost"}
      /\ history.evaluatedAt = NoTime /\ history.otherAt = NoTime
  BY DEF Init
<1>5. NeverLaggingEarly
  BY <1>3, Zenon DEF NeverLaggingEarly
<1>6. history.evaluatedAt <= now
  <2>1. now = 0
    BY DEF Init
  <2> QED BY <1>4, <2>1 DEF NoTime
<1>7. history.evaluatedAt \in Int /\ history.otherAt \in Int /\ history.otherAt <= object.status.since
  BY <1>2, <1>4 DEF NoTime
<1> QED BY FreshInit, <1>4, <1>5, <1>6, <1>7 DEF LagInv

LEMMA LagStep == CacheLag = FALSE /\ LagInv /\ [Next]_vars => LagInv'
<1> SUFFICES ASSUME CacheLag = FALSE, LagInv, [Next]_vars PROVE LagInv'
  OBVIOUS
<1>0. Fresh /\ Fresh' /\ now \in Nat /\ object.status.since \in Int
  <2>1. Fresh /\ now \in Nat /\ object.status.since \in Nat \cup {NoTime}
    BY Zenon DEF LagInv, Fresh, TypeInv, Typed
  <2> QED BY <2>1, FreshStep DEF LagInv, NoTime
<1>1. CASE Reconcile(TRUE)
  <2>1. PICK listed \in Listings :
           /\ object'.status.rows = NewStatus(object, listed).rows
           /\ object'.status.since = NewStatus(object, listed).since
           /\ history' = [ history EXCEPT !.evaluatedAt = now,
                              !.otherAt = IF object.expected = object.status.lastExpectedRevision
                                          THEN @ ELSE history.evaluatedAt ]
    BY <1>0, <1>1, FreshReconcile, Zenon
  <2>2. /\ object'.status.rows =
              [i \in DOMAIN object.targets |->
                 ClusterRow(object.targets[i], listed, object.expected, LagClock(object))]
        /\ object'.status.since = LagClock(object)
    BY <2>1, StatusComputed, Zenon
  <2>3. now' = now
    BY <1>1 DEF Reconcile
  <2>4. /\ DOMAIN history' = {"evaluatedAt", "otherAt", "lost"}
        /\ history'.evaluatedAt = now
        /\ history'.otherAt = IF object.expected = object.status.lastExpectedRevision
                              THEN history.otherAt ELSE history.evaluatedAt
    BY <2>1 DEF LagInv
  <2>5. LagClock(object) = IF object.status.lastExpectedRevision # object.expected
                           THEN now ELSE object.status.since
    BY DEF LagClock
  <2>6. history'.otherAt \in Int /\ LagClock(object) \in Int /\ history'.otherAt <= LagClock(object)
    BY <1>0, <2>4, <2>5 DEF LagInv
  <2>7. NeverLaggingEarly'
    <3> SUFFICES ASSUME NEW i \in DOMAIN object'.status.rows,
                        object'.status.rows[i].state = "Lagging"
                 PROVE  history'.evaluatedAt - history'.otherAt > LagThreshold
      BY Zenon DEF NeverLaggingEarly
    <3>1. now - LagClock(object) > LagThreshold
      BY <2>2, RowMeans
    <3> QED BY <1>0, <2>4, <2>6, <3>1, PropagationAssumption
  <2> QED BY <1>0, <2>2, <2>3, <2>4, <2>6, <2>7 DEF LagInv
<1>2. CASE Reconcile(FALSE)
  <2>1. object' = object /\ history' = [history EXCEPT !.lost = @ \cup ClustersOf(cache.targets)]
    BY <1>2, ReconcileStores
  <2>2. /\ DOMAIN history' = {"evaluatedAt", "otherAt", "lost"}
        /\ history'.evaluatedAt = history.evaluatedAt /\ history'.otherAt = history.otherAt
    BY <2>1 DEF LagInv
  <2>3. now' = now
    BY <1>2 DEF Reconcile
  <2> QED BY <1>0, <2>1, <2>2, <2>3 DEF LagInv, NeverLaggingEarly
<1>3. CASE /\ ~Reconcile(TRUE) /\ ~Reconcile(FALSE)
  <2>1. object'.status = object.status
    <3>1. CASE Next
      BY <1>0, <1>3, <3>1, StatusWrites DEF Fresh
    <3>2. CASE UNCHANGED vars
      BY <3>2 DEF vars
    <3> QED BY <3>1, <3>2
  <2>2. history' = history /\ now' \in Int /\ now <= now'
    <3>1. history' = history /\ (now' = now \/ now' = now + 1)
      BY <1>3, Zenon DEF Next, Users, Agents, ReconcileOK, Tick, Report, EditSpec, Delete, Restart,
                         InformerSync, ReconcileDeleting, vars
    <3> QED BY <1>0, <3>1
  <2>3. history'.evaluatedAt <= now'
    BY <1>0, <2>2 DEF LagInv
  <2> QED BY <1>0, <2>1, <2>2, <2>3 DEF LagInv, NeverLaggingEarly
<1> QED BY <1>1, <1>2, <1>3

\* With a cache that follows at once, no cluster is ever stored as Lagging before
\* the lag threshold has passed since the last stored evaluation for another
\* revision: neither edits nor lost patches nor restarts shorten its time.
THEOREM NeverLaggingTooEarly == CacheLag = FALSE /\ Spec => []NeverLaggingEarly
<1>1. LagInv => NeverLaggingEarly
  BY DEF LagInv
<1> DEFINE NoLag == CacheLag = FALSE
<1>2. NoLag /\ LagInv /\ [Next]_vars => LagInv'
  BY LagStep
<1>3. NoLag => NoLag'
  OBVIOUS
<1> HIDE DEF NoLag
<1>4. NoLag /\ Spec => []NeverLaggingEarly
  BY LagInit, <1>1, <1>2, <1>3, PTL DEF Spec
<1> QED BY <1>4 DEF NoLag

-----------------------------------------------------------------------------
(* A status of one piece.                                                  *)

\* What Agrees says of a status s, apart from the spec it is compared with.
OnePiece(s) ==
    /\ s.lists = ListsOf(s.rows)
    /\ s.phase = rollUpPhase(s.lists) /\ s.condition = setCondition(s.phase)
    /\ s.phase = "Synced" => \A i \in DOMAIN s.rows :
          s.rows[i].state = "InSync" /\ s.rows[i].report.revision = s.lastExpectedRevision

\* The rows of s are those of a target list and its revision is the expected one.
OfSpec(s, targets, expected) ==
    /\ Len(s.rows) = Len(targets)
    /\ \A i \in DOMAIN s.rows : s.rows[i].cluster = targets[i]
    /\ s.lastExpectedRevision = expected

\* A computed status is of one piece.
LEMMA ComputedOnePiece ==
    ASSUME NEW view, view.targets \in TargetLists, NEW listed
    PROVE  OnePiece(NewStatus(view, listed))
<1> DEFINE s == NewStatus(view, listed)
<1>1. /\ s.rows = [i \in DOMAIN view.targets |->
                     ClusterRow(view.targets[i], listed, view.expected, LagClock(view))]
      /\ s.lists = ListsOf(s.rows) /\ s.phase = rollUpPhase(s.lists)
      /\ s.condition = setCondition(s.phase) /\ s.lastExpectedRevision = view.expected
  BY StatusComputed, ZenonT(40)
<1> HIDE DEF s
<1>2. ASSUME s.phase = "Synced", NEW i \in DOMAIN s.rows
      PROVE  s.rows[i].state = "InSync" /\ s.rows[i].report.revision = s.lastExpectedRevision
  <2>1. /\ s.lists.diverged = <<>> /\ s.lists.stale = <<>>
        /\ s.lists.missing = <<>> /\ s.lists.lagging = <<>>
    BY <1>1, <1>2 DEF rollUpPhase
  <2>2. PICK n \in Nat : DOMAIN s.rows = 1 .. n
    BY <1>1, PropagationAssumption
  <2>3. /\ s.lists.diverged = ClustersIn(s.rows, {"Diverged"})
        /\ s.lists.lagging = ClustersIn(s.rows, {"Lagging", "Propagating"})
        /\ s.lists.stale = ClustersIn(s.rows, {"Stale"})
        /\ s.lists.missing = ClustersIn(s.rows, {"Missing"})
    BY <1>1 DEF ListsOf
  <2>4. /\ s.rows[i].state \notin {"Diverged"} /\ s.rows[i].state \notin {"Lagging", "Propagating"}
        /\ s.rows[i].state \notin {"Stale"} /\ s.rows[i].state \notin {"Missing"}
    BY <1>2, <2>1, <2>2, <2>3, ListEmpty
  <2>5. s.rows[i] = ClusterRow(view.targets[i], listed, view.expected, LagClock(view))
    BY <1>1, <1>2
  <2>6. s.rows[i].state \in States
    BY <2>5, RowTyped
  <2>7. s.rows[i].state = "InSync"
    BY <2>4, <2>6 DEF States
  <2> QED BY <1>1, <2>5, <2>7, RowMeans
<1>3. OnePiece(s)
  BY <1>1, <1>2, Zenon DEF OnePiece
<1> QED BY <1>3 DEF s

\* A computed status is of the spec it was computed from.
LEMMA ComputedOfSpec ==
    ASSUME NEW view, view.targets \in TargetLists, NEW listed
    PROVE  OfSpec(NewStatus(view, listed), view.targets, view.expected)
<1> DEFINE s == NewStatus(view, listed)
<1>1. /\ s.rows = [i \in DOMAIN view.targets |->
                     ClusterRow(view.targets[i], listed, view.expected, LagClock(view))]
      /\ s.lastExpectedRevision = view.expected
  BY StatusComputed, Zenon
<1> HIDE DEF s
<1>2. DOMAIN view.targets = 1 .. Len(view.targets) /\ Len(view.targets) \in Nat
  BY PropagationAssumption
<1>3. Len(s.rows) = Len(view.targets)
  BY <1>1, <1>2
<1>4. \A i \in DOMAIN s.rows : s.rows[i].cluster = view.targets[i]
  BY <1>1, RowTyped
<1>5. OfSpec(s, view.targets, view.expected)
  BY <1>1, <1>3, <1>4 DEF OfSpec
<1> QED BY <1>5 DEF s

\* Agrees, and no status is of a generation that is still to come.
AgreesInv ==
    /\ Fresh
    /\ object.status.observedGeneration \in Nat
    /\ object.status.observedGeneration <= object.generation
    /\ object.status.phase # "" =>
          /\ OnePiece(object.status)
          /\ object.status.observedGeneration = object.generation =>
                OfSpec(object.status, object.targets, object.expected)

LEMMA AgreesStep == CacheLag = FALSE /\ AgreesInv /\ [Next]_vars => AgreesInv'
<1> SUFFICES ASSUME CacheLag = FALSE, AgreesInv, [Next]_vars PROVE AgreesInv'
  OBVIOUS
<1>0. /\ Fresh /\ Fresh' /\ object.generation \in Nat /\ object.targets \in TargetLists
      /\ DOMAIN object = ObjectFields
  <2>1. Fresh'
    BY FreshStep DEF AgreesInv
  <2> QED BY <2>1, Zenon DEF AgreesInv, Fresh, TypeInv, Typed
<1>1. CASE Reconcile(TRUE)
  <2>1. PICK listed \in Listings :
           LET s == object'.status
               new == NewStatus(object, listed)
           IN  /\ object'.generation = object.generation /\ object'.targets = object.targets
               /\ object'.expected = object.expected
               /\ s.rows = new.rows /\ s.lists = new.lists /\ s.phase = new.phase
               /\ s.condition = new.condition
               /\ s.lastExpectedRevision = new.lastExpectedRevision
               /\ s.observedGeneration = new.observedGeneration
    BY <1>0, <1>1, FreshReconcile, Zenon
  <2> DEFINE new == NewStatus(object, listed)
  <2>2. OnePiece(new) /\ OfSpec(new, object.targets, object.expected)
    BY <1>0, ComputedOnePiece, ComputedOfSpec, Zenon
  <2>3. new.observedGeneration = object.generation
    BY StatusComputed, Zenon
  <2> HIDE DEF new
  <2>4. OnePiece(object'.status)
    BY <2>1, <2>2, Zenon DEF OnePiece, new
  <2>5. OfSpec(object'.status, object'.targets, object'.expected)
    BY <2>1, <2>2, Zenon DEF OfSpec, new
  <2>6. object'.status.observedGeneration = object.generation /\ object'.generation = object.generation
    BY <2>1, <2>3, Zenon DEF new
  <2>7. object'.status.observedGeneration \in Nat
        /\ object'.status.observedGeneration <= object'.generation
    BY <1>0, <2>6
  <2> QED BY <1>0, <2>4, <2>5, <2>7, Zenon DEF AgreesInv
<1>2. ASSUME NEW r \in Revisions, NEW T \in TargetLists, EditSpec(r, T) PROVE AgreesInv'
  <2>1. object' = [object EXCEPT !.expected = r, !.targets = T, !.generation = @ + 1]
    BY <1>2 DEF EditSpec
  <2>2. object'.status = object.status /\ object'.generation = object.generation + 1
    BY <1>0, <2>1 DEF ObjectFields
  <2>3. /\ object'.status.observedGeneration \in Nat
        /\ object'.status.observedGeneration <= object'.generation
        /\ object'.status.observedGeneration # object'.generation
    <3>1. /\ object.status.observedGeneration \in Nat
          /\ object.status.observedGeneration <= object.generation
      BY Zenon DEF AgreesInv
    <3> QED BY <1>0, <2>2, <3>1
  <2> QED BY <1>0, <2>2, <2>3, Zenon DEF AgreesInv
<1>3. CASE object' = object
  BY <1>0, <1>3, Zenon DEF AgreesInv
<1>4. CASE Delete
  <2>1. PICK l \in {"present", "deleting", "gone"} : object' = [object EXCEPT !.life = l]
    BY <1>4 DEF Delete
  <2>2. /\ object'.status = object.status /\ object'.generation = object.generation
        /\ object'.targets = object.targets /\ object'.expected = object.expected
    BY <1>0, <2>1 DEF ObjectFields
  <2> QED BY <1>0, <2>2, Zenon DEF AgreesInv
<1>5. ASSUME Reconcile(FALSE) PROVE object' = object
  BY <1>5, ReconcileStores
<1>6. ASSUME \/ Tick \/ Restart \/ InformerSync \/ ReconcileDeleting \/ UNCHANGED vars
             \/ \E c \in Clusters, f \in Findings : Report(c, f)
      PROVE  object' = object
  BY <1>6 DEF Tick, Restart, InformerSync, ReconcileDeleting, Report, vars
<1> QED BY <1>1, <1>2, <1>3, <1>4, <1>5, <1>6, Zenon DEF Next, Users, Agents, ReconcileOK

LEMMA AgreesInit == Init => AgreesInv
<1> SUFFICES ASSUME Init PROVE AgreesInv
  OBVIOUS
<1>1. NoStatus.phase = "" /\ NoStatus.observedGeneration = 0
  BY DEF NoStatus
<1>2. object.status.phase = ""
  BY <1>1, StartsEmpty, Zenon
<1>3. Fresh /\ object.generation \in Nat
  BY FreshInit, Zenon DEF Fresh, TypeInv, Typed
<1>4. object.status.observedGeneration \in Nat /\ object.status.observedGeneration <= object.generation
  <2>1. object.status.observedGeneration = 0
    BY <1>1, StartsEmpty, Zenon
  <2> QED BY <1>3, <2>1
<1> QED BY <1>2, <1>3, <1>4, Zenon DEF AgreesInv

\* With a cache that follows at once, the merge patches never mix two evaluations:
\* lists, phase and condition are those of the stored rows, a status that claims
\* the current generation has exactly the rows of the spec, and Synced means that
\* every row is in sync on the expected revision.
THEOREM StatusAlwaysAgrees == CacheLag = FALSE /\ Spec => []Agrees
<1>1. AgreesInv => Agrees
  BY Zenon DEF AgreesInv, OnePiece, OfSpec, Agrees
<1> DEFINE NoLag == CacheLag = FALSE
<1>2. NoLag /\ AgreesInv /\ [Next]_vars => AgreesInv'
  BY AgreesStep
<1>3. NoLag => NoLag'
  OBVIOUS
<1> HIDE DEF NoLag
<1>4. NoLag /\ Spec => []Agrees
  BY AgreesInit, <1>1, <1>2, <1>3, PTL DEF Spec
<1> QED BY <1>4 DEF NoLag

-----------------------------------------------------------------------------
(* Metric series.                                                          *)

SeriesInv ==
    /\ Fresh
    /\ DOMAIN history = {"evaluatedAt", "otherAt", "lost"}
    /\ SeriesRemembered

LEMMA SeriesStep == CacheLag = FALSE /\ SeriesInv /\ [Next]_vars => SeriesInv'
<1> SUFFICES ASSUME CacheLag = FALSE, SeriesInv, [Next]_vars PROVE SeriesInv'
  OBVIOUS
<1>0. /\ Fresh /\ Fresh' /\ cache = object /\ DOMAIN object = ObjectFields
      /\ object.targets \in TargetLists
      /\ DOMAIN history = {"evaluatedAt", "otherAt", "lost"} /\ SeriesRemembered
  <2>1. Fresh'
    BY FreshStep DEF SeriesInv
  <2> QED BY <2>1, Zenon DEF SeriesInv, Fresh, TypeInv, Typed
<1> SUFFICES DOMAIN history' = {"evaluatedAt", "otherAt", "lost"} /\ SeriesRemembered'
  BY <1>0 DEF SeriesInv
<1>1. ASSUME NEW patched \in BOOLEAN, Reconcile(patched)
      PROVE  /\ object.life = "present" /\ metrics' = MetricsAfter(object)
             /\ metrics \subseteq RowClusters(object.status) \cup history.lost
  BY <1>0, <1>1 DEF Reconcile, SeriesRemembered
<1>2. CASE Reconcile(TRUE)
  <2>1. PICK listed \in Listings :
           /\ object'.status.rows = NewStatus(object, listed).rows
           /\ history' = [ history EXCEPT !.evaluatedAt = now,
                              !.otherAt = IF object.expected = object.status.lastExpectedRevision
                                          THEN @ ELSE history.evaluatedAt ]
    BY <1>0, <1>2, FreshReconcile, Zenon
  <2>2. object'.status.rows =
           [i \in DOMAIN object.targets |->
              ClusterRow(object.targets[i], listed, object.expected, LagClock(object))]
    BY <2>1, StatusComputed, Zenon
  <2>3. RowClusters(object'.status) = ClustersOf(object.targets)
    BY <2>2, RowTyped DEF RowClusters, ClustersOf
  <2>4. DOMAIN history' = {"evaluatedAt", "otherAt", "lost"} /\ history'.lost = history.lost
    BY <1>0, <2>1
  <2>5. /\ metrics' = (metrics \ (RowClusters(object.status) \ ClustersOf(object.targets)))
                         \cup ClustersOf(object.targets)
        /\ metrics \subseteq RowClusters(object.status) \cup history.lost
    BY <1>1, <1>2, Zenon DEF MetricsAfter
  <2>6. metrics' \subseteq ClustersOf(object.targets) \cup history.lost
    BY <2>5
  <2>7. SeriesRemembered'
    BY <2>3, <2>4, <2>6, Zenon DEF SeriesRemembered
  <2> QED BY <2>4, <2>7
<1>3. CASE Reconcile(FALSE)
  <2>1. object' = object /\ history' = [history EXCEPT !.lost = @ \cup ClustersOf(object.targets)]
    BY <1>0, <1>3, ReconcileStores
  <2>2. /\ DOMAIN history' = {"evaluatedAt", "otherAt", "lost"}
        /\ history'.lost = history.lost \cup ClustersOf(object.targets)
    BY <1>0, <2>1
  <2> QED BY <1>1, <1>3, <2>1, <2>2 DEF MetricsAfter, SeriesRemembered
<1>4. ASSUME NEW r \in Revisions, NEW T \in TargetLists, EditSpec(r, T)
      PROVE  DOMAIN history' = {"evaluatedAt", "otherAt", "lost"} /\ SeriesRemembered'
  <2>1. object'.status = object.status /\ object.life = "present"
    BY <1>0, <1>4 DEF EditSpec, ObjectFields
  <2>2. history' = history /\ metrics' = metrics
    BY <1>4 DEF EditSpec
  <2> QED BY <1>0, <2>1, <2>2, Zenon DEF SeriesRemembered
<1>5. CASE Delete
  <2>1. PICK l \in {"deleting", "gone"} : object' = [object EXCEPT !.life = l]
    BY <1>5 DEF Delete
  <2>2. object'.life # "present"
    BY <1>0, <2>1 DEF ObjectFields
  <2>3. history' = history
    BY <1>5 DEF Delete
  <2> QED BY <1>0, <2>2, <2>3, Zenon DEF SeriesRemembered
<1>6. CASE \/ Tick \/ InformerSync \/ UNCHANGED vars \/ Restart \/ ReconcileDeleting
           \/ \E c \in Clusters, f \in Findings : Report(c, f)
  <2>1. object' = object /\ history' = history
    BY <1>6 DEF Tick, Restart, InformerSync, ReconcileDeleting, Report, vars
  <2>2. metrics' \subseteq metrics
    BY <1>6 DEF Tick, Restart, InformerSync, ReconcileDeleting, Report, vars
  <2> QED BY <1>0, <2>1, <2>2 DEF SeriesRemembered
<1> QED BY <1>2, <1>3, <1>4, <1>5, <1>6, Zenon DEF Next, Users, Agents, ReconcileOK

\* With a cache that follows at once, no metric series of a removed cluster is
\* forgotten: through edits and restarts the stored rows name every cluster that
\* has one, except those a lost patch failed to record.
THEOREM SeriesAlwaysRemembered == CacheLag = FALSE /\ Spec => []SeriesRemembered
<1>1. Init => SeriesInv
  BY FreshInit DEF Init, SeriesInv, SeriesRemembered
<1>2. SeriesInv => SeriesRemembered
  BY DEF SeriesInv
<1> DEFINE NoLag == CacheLag = FALSE
<1>3. NoLag /\ SeriesInv /\ [Next]_vars => SeriesInv'
  BY SeriesStep
<1>4. NoLag => NoLag'
  OBVIOUS
<1> HIDE DEF NoLag
<1>5. NoLag /\ Spec => []SeriesRemembered
  BY <1>1, <1>2, <1>3, <1>4, PTL DEF Spec
<1> QED BY <1>5 DEF NoLag

=============================================================================
