-------------------------- MODULE DriftSystemProofs --------------------------
(***************************************************************************)
(* Proofs about the two controllers together: the PropagationStatus        *)
(* controller is an environment the ChangeWindow controller was specified  *)
(* for, and a window is not declared Succeeded against the reports.        *)
(***************************************************************************)
EXTENDS DriftSystem, FiniteSetTheorems, TLAPS

ObjectFields == {"life", "expected", "targets", "generation", "status"}
StatusFields == {"rows", "lists", "phase", "condition", "lastExpectedRevision", "since",
                 "observedGeneration"}

-----------------------------------------------------------------------------
(* What a reconcile of the PropagationStatus stores.                       *)

LEMMA NoReportTime == P!NoReport.observedAt = -1
BY Zenon DEF P!NoReport, P!NoTime

\* A row: missing, or of a report that was listed.
RowOf(row, c, listed, expected) ==
    /\ row.cluster = c
    /\ \/ c \notin listed /\ row.state = "Missing" /\ row.report = P!NoReport
       \/ /\ c \in listed /\ row.report = reports[c]
          /\ row.state \in RowStates \ {"Missing"}
          /\ row.state = "InSync" => reports[c].revision = expected /\ reports[c].sync # "OutOfSync"

LEMMA RowComputed ==
    ASSUME NEW c, NEW listed, NEW expected, NEW since
    PROVE  RowOf(P!ClusterRow(c, listed, expected, since), c, listed, expected)
<1> DEFINE row == P!ClusterRow(c, listed, expected, since)
           state == P!RowState(reports[c], expected, since)
<1>1. state \in RowStates \ {"Missing"}
  BY DEF P!RowState, RowStates
<1>2. state = "InSync" => reports[c].revision = expected /\ reports[c].sync # "OutOfSync"
  BY DEF P!RowState
<1> HIDE DEF state
<1>3. CASE c \in listed
  <2>1. row = [cluster |-> c, state |-> state, report |-> reports[c]]
    BY <1>3, Zenon DEF P!ClusterRow, state
  <2> QED BY <1>1, <1>2, <1>3, <2>1 DEF RowOf
<1>4. CASE c \notin listed
  <2>1. row = [cluster |-> c, state |-> "Missing", report |-> P!NoReport]
    BY <1>4, Zenon DEF P!ClusterRow
  <2> QED BY <1>4, <2>1 DEF RowOf
<1> QED BY <1>3, <1>4

\* What is computed for a version of the object.
LEMMA StatusComputed ==
    ASSUME NEW view, NEW listed
    PROVE  LET n == P!NewStatus(view, listed)
           IN  /\ DOMAIN n = StatusFields
               /\ n.rows = [i \in DOMAIN view.targets |->
                              P!ClusterRow(view.targets[i], listed, view.expected, P!LagClock(view))]
               /\ n.lastExpectedRevision = view.expected /\ n.observedGeneration = view.generation
<1> DEFINE n == P!NewStatus(view, listed)
           rows == [i \in DOMAIN view.targets |->
                      P!ClusterRow(view.targets[i], listed, view.expected, P!LagClock(view))]
           lists == P!ListsOf(rows)
           phase == P!rollUpPhase(lists)
           condition == P!setCondition(phase)
           since == P!LagClock(view)
<1>1. n = [ rows |-> rows, lists |-> lists, phase |-> phase, condition |-> condition,
            lastExpectedRevision |-> view.expected, since |-> since,
            observedGeneration |-> view.generation ]
  BY Zenon DEF P!NewStatus
<1> HIDE DEF n, rows, lists, phase, condition, since
<1>2. /\ DOMAIN n = StatusFields /\ n.rows = rows
      /\ n.lastExpectedRevision = view.expected /\ n.observedGeneration = view.generation
  BY <1>1 DEF StatusFields
<1> QED BY <1>2, Zenon DEF n, rows

\* A patch against the version the API server has stores what was computed.
LEMMA MergeSame ==
    ASSUME NEW new, DOMAIN new = StatusFields, NEW old
    PROVE  LET m == P!MergeFrom(new, old, old)
           IN  /\ m.rows = new.rows /\ m.lastExpectedRevision = new.lastExpectedRevision
               /\ m.observedGeneration = new.observedGeneration
<1> DEFINE f == P!MergeFields(new, old, old)
           l == P!MergeFields(new.lists, old.lists, old.lists)
           m == P!MergeFrom(new, old, old)
<1>1. \A x, y : P!Pick(x, y, y) = x
  BY DEF P!Pick
<1>2. f = [k \in StatusFields |-> P!Pick(new[k], old[k], old[k])]
  BY Zenon DEF P!MergeFields
<1>3. m = [f EXCEPT !.lists = l]
  BY Zenon DEF P!MergeFrom
<1> HIDE DEF f, l, m
<1>4. DOMAIN f = StatusFields /\ \A k \in StatusFields : f[k] = new[k]
  BY <1>1, <1>2
<1>5. /\ m.rows = new.rows /\ m.lastExpectedRevision = new.lastExpectedRevision
      /\ m.observedGeneration = new.observedGeneration
  BY <1>3, <1>4 DEF StatusFields
<1> QED BY <1>5, Zenon DEF m

-----------------------------------------------------------------------------
(* The inductive invariant.                                                *)

\* A row of the stored status says no more than the reports: it is missing, or it
\* was made from a report its cluster sent, perhaps not the last one.
RowOK(last, row, c, revision) ==
    /\ row.cluster = c
    /\ \/ row.state = "Missing" /\ row.report = P!NoReport
       \/ /\ row.state \in RowStates \ {"Missing"}
          /\ row.report.observedAt \in Nat
          /\ row.report.observedAt <= last[c].observedAt
          /\ row.state = "InSync" =>
                row.report.revision = revision /\ row.report.sync # "OutOfSync"

ReportsOK ==
    /\ now \in Nat /\ now <= MaxTime
    /\ DOMAIN reports = Reporters
    /\ \A c \in Reporters : \/ reports[c] = P!NoReport
                            \/ (reports[c].observedAt \in Nat /\ reports[c].observedAt <= now)

ObjectOK ==
    /\ DOMAIN object = ObjectFields
    /\ object.targets = Targets
    /\ object.generation \in Nat
    /\ object.status.observedGeneration \in Nat
    /\ object.status.observedGeneration <= object.generation

\* The rows are none yet, or one for each target.
RowsOK ==
    \/ object.status.rows = <<>>
    \/ /\ DOMAIN object.status.rows = DOMAIN Targets
       /\ \A i \in DOMAIN Targets :
             RowOK(reports, object.status.rows[i], Targets[i],
                   object.status.lastExpectedRevision)

\* A status that claims the current generation is of the current spec.
GenerationOK ==
    object.status.observedGeneration = object.generation =>
        /\ DOMAIN object.status.rows = DOMAIN Targets
        /\ object.status.lastExpectedRevision = object.expected

SysInv ==
    /\ ReportsOK
    /\ ObjectOK
    /\ RowsOK
    /\ GenerationOK
    /\ psCache = object
    /\ cwCache = status

-----------------------------------------------------------------------------
(* Steps of the PropagationStatus side.                                    *)

LEMMA TargetsReport ==
    /\ DOMAIN Targets = 1 .. Len(Targets) /\ Len(Targets) \in Nat
    /\ \A i \in DOMAIN Targets : Targets[i] \in Reporters
BY SystemAssumption

\* Only clusters that reported are listed.
LEMMA ListedReported ==
    ASSUME NEW listed \in P!Listings
    PROVE  \A c \in listed : c \in Reporters /\ reports[c] # P!NoReport
<1>1. listed \subseteq P!Reported
  BY Zenon DEF P!Listings, P!kSubset
<1> QED BY <1>1, Zenon DEF P!Reported

\* The rows computed from a set of listed reports are of the reports as they are.
RowNow(row, c) ==
    \/ row.state = "Missing" /\ row.report = P!NoReport
    \/ /\ row.state \in RowStates \ {"Missing"}
       /\ row.report = reports[c] /\ reports[c] # P!NoReport

StoresRows ==
    /\ DOMAIN object' = ObjectFields
    /\ \A f \in ObjectFields \ {"status"} : object'[f] = object[f]
    /\ object'.status.observedGeneration = object.generation
    /\ object'.status.lastExpectedRevision = object.expected
    /\ DOMAIN object'.status.rows = DOMAIN Targets
    /\ \A i \in DOMAIN Targets :
          /\ RowNow(object'.status.rows[i], Targets[i])
          /\ object'.status.rows[i].cluster = Targets[i]
          /\ object'.status.rows[i].state = "InSync" =>
                /\ object'.status.rows[i].report.revision = object.expected
                /\ object'.status.rows[i].report.sync # "OutOfSync"

\* A reconcile of the PropagationStatus leaves the object as it is, or stores one
\* row for each target, made from the reports as they are.
LEMMA PropagateStores ==
    ASSUME NEW patched \in BOOLEAN, P!Reconcile(patched),
           psCache = object, DOMAIN object = ObjectFields, object.targets = Targets
    PROVE  /\ object.life = "present" /\ now' = now /\ reports' = reports
           /\ psCache' = object'
           /\ object' = object \/ StoresRows
<1>1. /\ object.life = "present" /\ now' = now /\ reports' = reports
      /\ psCache' = object'
  BY Zenon DEF P!Reconcile, P!CacheAfterWrite
<1>2. PICK listed \in P!Listings :
        object' = IF patched /\ object.life # "gone"
                  THEN [object EXCEPT !.status =
                          P!MergeFrom(P!NewStatus(object, listed), object.status, object.status)]
                  ELSE object
  BY Zenon DEF P!Reconcile
<1>3. CASE ~patched
  BY <1>1, <1>2, <1>3, Zenon
<1>4. CASE patched
  <2> DEFINE n == P!NewStatus(object, listed)
             m == P!MergeFrom(n, object.status, object.status)
             row(i) == P!ClusterRow(Targets[i], listed, object.expected, P!LagClock(object))
  <2>1. object' = [object EXCEPT !.status = m]
    <3>1. object.life # "gone"
      BY <1>1
    <3> QED BY <1>2, <1>4, <3>1, Zenon
  <2>2. /\ DOMAIN n = StatusFields /\ n.rows = [i \in DOMAIN Targets |-> row(i)]
        /\ n.lastExpectedRevision = object.expected /\ n.observedGeneration = object.generation
    <3> DEFINE old(i) == P!ClusterRow(object.targets[i], listed, object.expected, P!LagClock(object))
    <3>1. /\ DOMAIN n = StatusFields /\ n.rows = [i \in DOMAIN object.targets |-> old(i)]
          /\ n.lastExpectedRevision = object.expected /\ n.observedGeneration = object.generation
      BY StatusComputed, Zenon
    <3>2. [i \in DOMAIN object.targets |-> old(i)] = [i \in DOMAIN Targets |-> row(i)]
      BY Zenon
    <3> QED BY <3>1, <3>2, Zenon
  <2>3. /\ m.rows = n.rows /\ m.lastExpectedRevision = n.lastExpectedRevision
        /\ m.observedGeneration = n.observedGeneration
    <3> HIDE DEF n
    <3> QED BY <2>2, MergeSame, Zenon
  <2>4. \A i \in DOMAIN Targets :
          /\ row(i).cluster = Targets[i]
          /\ RowNow(row(i), Targets[i])
          /\ row(i).state = "InSync" => /\ row(i).report.revision = object.expected
                                        /\ row(i).report.sync # "OutOfSync"
    <3> SUFFICES ASSUME NEW i \in DOMAIN Targets
                 PROVE  /\ row(i).cluster = Targets[i]
                        /\ RowNow(row(i), Targets[i])
                        /\ row(i).state = "InSync" => /\ row(i).report.revision = object.expected
                                                      /\ row(i).report.sync # "OutOfSync"
      OBVIOUS
    <3>1. /\ row(i).cluster = Targets[i]
          /\ \/ Targets[i] \notin listed /\ row(i).state = "Missing" /\ row(i).report = P!NoReport
             \/ /\ Targets[i] \in listed /\ row(i).report = reports[Targets[i]]
                /\ row(i).state \in RowStates \ {"Missing"}
                /\ row(i).state = "InSync" => /\ reports[Targets[i]].revision = object.expected
                                              /\ reports[Targets[i]].sync # "OutOfSync"
      <4>1. RowOf(row(i), Targets[i], listed, object.expected)
        BY RowComputed, Zenon
      <4> QED BY <4>1, Zenon DEF RowOf
    <3>2. Targets[i] \in listed => reports[Targets[i]] # P!NoReport
      BY ListedReported, Zenon
    <3> HIDE DEF row
    <3>3. RowNow(row(i), Targets[i])
      BY <3>1, <3>2, Zenon DEF RowNow
    <3>4. row(i).state = "InSync" => row(i).state # "Missing"
      OBVIOUS
    <3> QED BY <3>1, <3>3, <3>4, Zenon
  <2> HIDE DEF n, m, row
  <2>5. /\ DOMAIN object' = ObjectFields
        /\ \A f \in ObjectFields \ {"status"} : object'[f] = object[f]
        /\ object'.status = m
    BY <2>1 DEF ObjectFields
  <2>6. DOMAIN m.rows = DOMAIN Targets /\ \A i \in DOMAIN Targets : m.rows[i] = row(i)
    BY <2>2, <2>3
  <2>7. /\ object'.status.observedGeneration = object.generation
        /\ object'.status.lastExpectedRevision = object.expected
        /\ DOMAIN object'.status.rows = DOMAIN Targets
        /\ \A i \in DOMAIN Targets : object'.status.rows[i] = row(i)
    BY <2>2, <2>3, <2>5, <2>6, Zenon
  <2>8. \A i \in DOMAIN Targets :
          /\ RowNow(object'.status.rows[i], Targets[i])
          /\ object'.status.rows[i].cluster = Targets[i]
          /\ object'.status.rows[i].state = "InSync" =>
                /\ object'.status.rows[i].report.revision = object.expected
                /\ object'.status.rows[i].report.sync # "OutOfSync"
    <3> SUFFICES ASSUME NEW i \in DOMAIN Targets
                 PROVE  /\ RowNow(object'.status.rows[i], Targets[i])
                        /\ object'.status.rows[i].cluster = Targets[i]
                        /\ object'.status.rows[i].state = "InSync" =>
                              /\ object'.status.rows[i].report.revision = object.expected
                              /\ object'.status.rows[i].report.sync # "OutOfSync"
      OBVIOUS
    <3>1. object'.status.rows[i] = row(i)
      BY <2>7, Zenon
    <3> QED BY <2>4, <3>1, Zenon
  <2>9. StoresRows
    BY <2>5, <2>7, <2>8, Zenon DEF StoresRows
  <2> QED BY <1>1, <2>9
<1> QED BY <1>3, <1>4

-----------------------------------------------------------------------------
(* The invariant is inductive.                                             *)

LEMMA SysInit == Init => SysInv
<1> SUFFICES ASSUME Init PROVE SysInv
  OBVIOUS
<1>1. PICK r \in Revisions :
        object = [ life |-> "present", expected |-> r, targets |-> Targets,
                   generation |-> 1, status |-> P!NoStatus ]
  BY Zenon DEF Init, P!Init
<1>2. P!NoStatus.rows = <<>> /\ P!NoStatus.observedGeneration = 0
  BY Zenon DEF P!NoStatus
<1>3. ReportsOK
  <2>1. now = 0 /\ reports = [c \in Reporters |-> P!NoReport]
    BY Zenon DEF Init, P!Init
  <2>2. DOMAIN reports = Reporters /\ \A c \in Reporters : reports[c] = P!NoReport
    BY <2>1, Zenon
  <2> QED BY <2>1, <2>2, SystemAssumption DEF ReportsOK
<1>4. /\ DOMAIN object = ObjectFields /\ object.targets = Targets /\ object.generation = 1
      /\ object.status = P!NoStatus
  BY <1>1 DEF ObjectFields
<1>5. ObjectOK /\ RowsOK /\ GenerationOK
  BY <1>2, <1>4 DEF ObjectOK, RowsOK, GenerationOK
<1>6. psCache = object /\ cwCache = status
  BY Zenon DEF Init, P!Init, W!Init
<1> QED BY <1>3, <1>5, <1>6 DEF SysInv

\* The ChangeWindow side has an informer that keeps up.
LEMMA EvaluateFresh ==
    ASSUME W!ReconcileAny, cwCache = status
    PROVE  now' = now /\ cwCache' = status'
<1>1. now' = now /\ W!CacheAfterWrite
  BY Zenon DEF W!ReconcileAny, W!ReconcileScheduled, W!Reconcile
<1>2. ~(Len(<<>>) < 0)
  OBVIOUS
<1>3. cwCache' = status' \/ (status' = status /\ cwCache' = cwCache)
  BY <1>1, <1>2, Zenon DEF W!CacheAfterWrite
<1> QED BY <1>1, <1>3

\* An edit of the spec moves the generation away from the status.
LEMMA EditSteps ==
    ASSUME P!Users, psCache = object, ObjectOK
    PROVE  /\ now' = now /\ reports' = reports /\ psCache' = object'
           /\ DOMAIN object' = ObjectFields /\ object'.targets = Targets
           /\ object'.status = object.status
           /\ \/ /\ object'.generation = object.generation + 1
                 /\ object'.life = object.life /\ object.life = "present"
              \/ /\ object'.generation = object.generation
                 /\ object'.expected = object.expected
                 /\ object.life # "gone" /\ object'.life \in {"deleting", "gone"}
<1>1. CASE P!Delete
  <2>1. PICK l \in {"deleting", "gone"} : /\ object' = [object EXCEPT !.life = l]
                                          /\ object.life # "gone"
    BY <1>1 DEF P!Delete
  <2>2. now' = now /\ reports' = reports /\ psCache' = object'
    BY <1>1, Zenon DEF P!Delete, P!CacheAfterWrite
  <2> QED BY <2>1, <2>2 DEF ObjectOK, ObjectFields
<1>2. ASSUME NEW r \in Revisions, NEW T \in {Targets}, P!EditSpec(r, T)
      PROVE  /\ now' = now /\ reports' = reports /\ psCache' = object'
             /\ DOMAIN object' = ObjectFields /\ object'.targets = Targets
             /\ object'.status = object.status
             /\ object'.generation = object.generation + 1
             /\ object'.life = object.life /\ object.life = "present"
  <2>1. /\ now' = now /\ reports' = reports /\ psCache' = object'
        /\ object.life = "present"
        /\ object' = [object EXCEPT !.expected = r, !.targets = Targets, !.generation = @ + 1]
    BY <1>2, Zenon DEF P!EditSpec, P!CacheAfterWrite
  <2> QED BY <2>1 DEF ObjectOK, ObjectFields
<1> QED BY <1>1, <1>2, Zenon DEF P!Users

\* A report replaces an older one of its cluster.
LEMMA ReportSteps ==
    ASSUME P!Agents, ReportsOK
    PROVE  /\ now' = now /\ object' = object /\ psCache' = psCache
           /\ DOMAIN reports' = Reporters
           /\ \A c \in Reporters : \/ reports'[c] = reports[c]
                                   \/ reports'[c].observedAt = now
<1>1. PICK c \in Reporters, f \in Findings : P!Report(c, f)
  BY Zenon DEF P!Agents
<1>2. /\ now' = now /\ object' = object /\ psCache' = psCache
      /\ reports' = [reports EXCEPT ![c] =
                       [revision |-> f.revision, sync |-> f.sync, observedAt |-> now]]
  BY <1>1, Zenon DEF P!Report
<1> QED BY <1>2 DEF ReportsOK

\* Reports only get newer, so that a row of one stays a row of one.
LEMMA RowStays ==
    ASSUME ReportsOK, NEW last, NEW c \in Reporters, NEW row, NEW revision,
           last[c] = reports[c] \/ last[c].observedAt = now,
           RowOK(reports, row, c, revision)
    PROVE  RowOK(last, row, c, revision)
<1>1. CASE row.state = "Missing" /\ row.report = P!NoReport
  BY <1>1, Zenon DEF RowOK
<1>2. CASE /\ row.state \in RowStates \ {"Missing"}
           /\ row.report.observedAt \in Nat
           /\ row.report.observedAt <= reports[c].observedAt
           /\ row.state = "InSync" => row.report.revision = revision /\ row.report.sync # "OutOfSync"
  <2>1. row.report.observedAt <= last[c].observedAt
    <3>1. reports[c] = P!NoReport => reports[c].observedAt = -1
      BY NoReportTime, Zenon
    <3>2. reports[c].observedAt = -1 \/ (reports[c].observedAt \in Nat /\ reports[c].observedAt <= now)
      BY <3>1, Zenon DEF ReportsOK
    <3>3. now \in Nat
      BY DEF ReportsOK
    <3> HIDE DEF ReportsOK
    <3> QED BY <1>2, <3>2, <3>3
  <2> QED BY <1>2, <2>1, Zenon DEF RowOK
<1> QED BY <1>1, <1>2, Zenon DEF RowOK

\* Rows that are not rewritten stay right.
LEMMA RowsStay ==
    ASSUME SysInv, object'.status = object.status,
           \A c \in Reporters : reports'[c] = reports[c] \/ reports'[c].observedAt = now
    PROVE  RowsOK'
<1>1. CASE object.status.rows = <<>>
  BY <1>1 DEF RowsOK
<1>2. CASE /\ DOMAIN object.status.rows = DOMAIN Targets
           /\ \A i \in DOMAIN Targets :
                 RowOK(reports, object.status.rows[i], Targets[i], object.status.lastExpectedRevision)
  <2>1. \A i \in DOMAIN Targets :
          RowOK(reports', object.status.rows[i], Targets[i], object.status.lastExpectedRevision)
    BY <1>2, RowStays, TargetsReport, Zenon DEF SysInv
  <2> QED BY <1>2, <2>1, Zenon DEF RowsOK
<1> QED BY <1>1, <1>2, Zenon DEF SysInv, RowsOK

LEMMA SysStep == SysInv /\ [Next]_vars => SysInv'
<1> SUFFICES ASSUME SysInv, [Next]_vars PROVE SysInv'
  OBVIOUS
<1>0. /\ ReportsOK /\ ObjectOK /\ RowsOK /\ GenerationOK /\ psCache = object /\ cwCache = status
  BY Zenon DEF SysInv
<1>1. ASSUME object' = object, psCache' = psCache, reports' = reports
      PROVE  ObjectOK' /\ RowsOK' /\ GenerationOK' /\ (psCache = object)'
  <2>1. RowsOK'
    BY <1>0, <1>1, Zenon DEF RowsOK
  <2> QED BY <1>0, <1>1, <2>1, Zenon DEF ObjectOK, GenerationOK
<1>2. ASSUME reports' = reports, now' = now
      PROVE  ReportsOK'
  BY <1>0, <1>2 DEF ReportsOK
<1>3. CASE Tick
  <2>1. /\ now < MaxTime /\ now' = now + 1 /\ cwCache' = status'
        /\ object' = object /\ psCache' = psCache /\ reports' = reports
    BY <1>0, <1>3, Zenon DEF Tick, psVars, cwVars
  <2>2. ReportsOK'
    BY <1>0, <2>1, SystemAssumption DEF ReportsOK
  <2> QED BY <1>1, <2>1, <2>2, Zenon DEF SysInv
<1>4. CASE EditOrDelete
  <2>1. /\ now' = now /\ reports' = reports /\ psCache' = object'
        /\ DOMAIN object' = ObjectFields /\ object'.targets = Targets
        /\ object'.status = object.status
        /\ \/ object'.generation = object.generation + 1
           \/ object'.generation = object.generation /\ object'.expected = object.expected
    BY <1>0, <1>4, EditSteps, Zenon DEF EditOrDelete
  <2>2. ObjectOK' /\ GenerationOK'
    BY <1>0, <2>1 DEF ObjectOK, GenerationOK
  <2>3. RowsOK'
    BY <2>1, RowsStay, Zenon
  <2>4. cwCache' = status'
    BY <1>0, <1>4, Zenon DEF EditOrDelete, cwVars
  <2> QED BY <1>2, <2>1, <2>2, <2>3, <2>4, Zenon DEF SysInv
<1>5. CASE Report
  <2>1. /\ now' = now /\ object' = object /\ psCache' = psCache
        /\ DOMAIN reports' = Reporters
        /\ \A c \in Reporters : reports'[c] = reports[c] \/ reports'[c].observedAt = now
    BY <1>0, <1>5, ReportSteps, Zenon DEF Report
  <2>2. ReportsOK'
    <3>1. \A c \in Reporters : \/ reports'[c] = P!NoReport
                               \/ (reports'[c].observedAt \in Nat /\ reports'[c].observedAt <= now)
      BY <1>0, <2>1 DEF ReportsOK
    <3> QED BY <1>0, <2>1, <3>1, Zenon DEF ReportsOK
  <2>3. RowsOK'
    BY <2>1, RowsStay, Zenon
  <2>4. ObjectOK' /\ GenerationOK'
    BY <1>0, <2>1, Zenon DEF ObjectOK, GenerationOK
  <2>5. cwCache' = status' /\ psCache' = object'
    BY <1>0, <1>5, <2>1, Zenon DEF Report, cwVars
  <2> QED BY <2>2, <2>3, <2>4, <2>5, Zenon DEF SysInv
<1>6. ASSUME NEW patched \in BOOLEAN, Propagate(patched)
      PROVE  SysInv'
  <2>1. /\ now' = now /\ reports' = reports /\ psCache' = object'
        /\ object' = object \/ StoresRows
    <3>1. P!Reconcile(patched) /\ DOMAIN object = ObjectFields /\ object.targets = Targets
      BY <1>0, <1>6, Zenon DEF Propagate, ObjectOK
    <3> QED BY <1>0, <3>1, PropagateStores, Zenon
  <2>2. cwCache' = status'
    BY <1>0, <1>6, Zenon DEF Propagate, cwVars
  <2>3. CASE object' = object
    BY <1>0, <1>1, <1>2, <2>1, <2>2, <2>3, Zenon DEF SysInv
  <2>4. CASE StoresRows
    <3>1. /\ DOMAIN object' = ObjectFields
          /\ object'.targets = object.targets /\ object'.generation = object.generation
          /\ object'.expected = object.expected
          /\ object'.status.observedGeneration = object.generation
          /\ object'.status.lastExpectedRevision = object.expected
          /\ DOMAIN object'.status.rows = DOMAIN Targets
      BY <2>4 DEF StoresRows, ObjectFields
    <3>2. ObjectOK' /\ GenerationOK'
      BY <1>0, <3>1 DEF ObjectOK, GenerationOK
    <3>3. \A i \in DOMAIN Targets :
            RowOK(reports, object'.status.rows[i], Targets[i], object.expected)
      <4> SUFFICES ASSUME NEW i \in DOMAIN Targets
                   PROVE  RowOK(reports, object'.status.rows[i], Targets[i], object.expected)
        OBVIOUS
      <4> DEFINE row == object'.status.rows[i]
                 c == Targets[i]
      <4>1. /\ RowNow(row, c) /\ row.cluster = c
            /\ row.state = "InSync" => /\ row.report.revision = object.expected
                                       /\ row.report.sync # "OutOfSync"
        BY <2>4, Zenon DEF StoresRows
      <4>2. reports[c] # P!NoReport => reports[c].observedAt \in Nat
        BY <1>0, TargetsReport, Zenon DEF ReportsOK
      <4> HIDE DEF row, c
      <4>3. reports[c].observedAt \in Nat => reports[c].observedAt <= reports[c].observedAt
        OBVIOUS
      <4>4. RowOK(reports, row, c, object.expected)
        BY <4>1, <4>2, <4>3, Zenon DEF RowNow, RowOK
      <4> QED BY <4>4, Zenon DEF row, c
    <3>4. RowsOK'
      BY <2>1, <3>1, <3>3, Zenon DEF RowsOK
    <3> QED BY <1>2, <2>1, <2>2, <3>2, <3>4, Zenon DEF SysInv
  <2> QED BY <2>1, <2>3, <2>4
<1>7. CASE Forget
  <2>1. /\ now' = now /\ cwCache' = status'
        /\ object' = object /\ psCache' = psCache /\ reports' = reports
    BY <1>0, <1>7, Zenon DEF Forget, P!ReconcileDeleting, cwVars
  <2> QED BY <1>1, <1>2, <2>1, Zenon DEF SysInv
<1>8. CASE Evaluate
  <2>1. object' = object /\ psCache' = psCache /\ reports' = reports
    BY <1>8, Zenon DEF Evaluate, psVars
  <2>2. now' = now /\ cwCache' = status'
    BY <1>8, EvaluateFresh, <1>0, Zenon DEF Evaluate
  <2> QED BY <1>1, <1>2, <2>1, <2>2, Zenon DEF SysInv
<1>9. CASE UNCHANGED vars
  <2>1. /\ now' = now /\ cwCache' = status'
        /\ object' = object /\ psCache' = psCache /\ reports' = reports
    BY <1>0, <1>9, Zenon DEF vars, psVars, cwVars
  <2> QED BY <1>1, <1>2, <2>1, Zenon DEF SysInv
<1> QED BY <1>3, <1>4, <1>5, <1>6, <1>7, <1>8, <1>9, Zenon DEF Next

-----------------------------------------------------------------------------
(* The PropagationStatus side is an environment of the window.             *)

LEMMA OneApp == \E a : Apps = {a}
BY SystemAssumption, GatesAssumption, FS_Singleton, Zenon

FoundRows == [i \in DOMAIN psCache.status.rows |-> CopiedRow(psCache.status.rows[i])]

LEMMA FoundParts ==
    ASSUME NEW a \in Apps
    PROVE  /\ DOMAIN FoundPS = Apps
           /\ psCache.life # "gone" => FoundPS[a] = [known |-> TRUE, rows |-> FoundRows]
           /\ psCache.life = "gone" => FoundPS[a] = W!NotFound
BY Zenon DEF FoundPS, FoundRows, W!NotFound

\* What the window finds depends on the cached rows alone.
LEMMA FoundSame ==
    ASSUME psCache'.status.rows = psCache.status.rows,
           psCache'.life = "gone" <=> psCache.life = "gone"
    PROVE  FoundPS' = FoundPS
BY Zenon DEF FoundPS, CopiedRow

\* A row made from the reports as they are is one the window may find next.
LEMMA RowPossible ==
    ASSUME SysInv, psCache.life # "gone", NEW a \in Apps, NEW j \in DOMAIN Targets,
           NEW row, RowNow(row, Targets[j])
    PROVE  CopiedRow(row) \in W!PossibleRows(a, j)
<1> DEFINE c == Targets[j]
           seen == W!LastSeen(a, j)
           t == row.report.observedAt
<1>1. \/ seen = -1
      \/ /\ DOMAIN object.status.rows = DOMAIN Targets
         /\ seen = object.status.rows[j].report.observedAt
  <2>1. psCache = object
    BY Zenon DEF SysInv
  <2>2. FoundPS[a].rows = FoundRows
    <3>1. FoundPS[a] = [known |-> TRUE, rows |-> FoundRows]
      BY FoundParts, Zenon
    <3> QED BY <3>1
  <2>3. CASE j \in DOMAIN object.status.rows
    <3>1. DOMAIN object.status.rows = DOMAIN Targets
      <4>1. object.status.rows # <<>>
        BY <2>3
      <4> QED BY <4>1, Zenon DEF SysInv, RowsOK
    <3>2. j \in DOMAIN FoundRows /\ FoundRows[j] = CopiedRow(object.status.rows[j])
      BY <2>1, <2>3, Zenon DEF FoundRows
    <3>3. seen = CopiedRow(object.status.rows[j]).observedAt
      BY <2>2, <3>2, Zenon DEF W!LastSeen
    <3> QED BY <3>1, <3>3, Zenon DEF CopiedRow
  <2>4. CASE j \notin DOMAIN object.status.rows
    <3>1. DOMAIN FoundRows = DOMAIN object.status.rows
      BY <2>1, Zenon DEF FoundRows
    <3>2. seen = W!NoTime
      BY <2>2, <2>4, <3>1, Zenon DEF W!LastSeen
    <3> QED BY <3>2, Zenon DEF W!NoTime
  <2> QED BY <2>3, <2>4
<1>2. CASE row.state = "Missing" /\ row.report = P!NoReport
  <2>1. CopiedRow(row) = [state |-> "Missing", observedAt |-> -1, obs |-> EmptyObservation]
    BY <1>2, NoReportTime, Zenon DEF CopiedRow
  <2>2. W!MissingRow = [state |-> "Missing", observedAt |-> -1, obs |-> EmptyObservation]
    BY Zenon DEF W!MissingRow, W!NoTime, W!EmptyObservation, EmptyObservation
  <2>3. W!MissingRow \in W!PossibleRows(a, j)
    BY DEF W!PossibleRows
  <2> QED BY <2>1, <2>2, <2>3, Zenon
<1>3. CASE /\ row.state \in RowStates \ {"Missing"}
           /\ row.report = reports[c] /\ reports[c] # P!NoReport
  <2>1. t = reports[c].observedAt /\ t \in Nat /\ t <= now /\ now \in Nat /\ now <= MaxTime
    BY <1>3, TargetsReport, Zenon DEF SysInv, ReportsOK
  <2>2. t >= seen
    <3>1. CASE seen = -1
      BY <2>1, <3>1
    <3>2. CASE /\ DOMAIN object.status.rows = DOMAIN Targets
               /\ seen = object.status.rows[j].report.observedAt
      <4>1. RowOK(reports, object.status.rows[j], c, object.status.lastExpectedRevision)
        <5>1. object.status.rows # <<>>
          BY <3>2
        <5> QED BY <5>1, Zenon DEF SysInv, RowsOK
      <4>2. seen = -1 \/ (seen \in Nat /\ seen <= reports[c].observedAt)
        BY <3>2, <4>1, NoReportTime, Zenon DEF RowOK
      <4> HIDE DEF seen, t, c
      <4> QED BY <2>1, <4>2
    <3> QED BY <1>1, <3>1, <3>2
  <2>3. t \in {now - d : d \in 0 .. MaxTime}
    <3> HIDE DEF t
    <3>1. now - t \in 0 .. MaxTime /\ t = now - (now - t)
      BY <2>1, SystemAssumption
    <3> QED BY <3>1
  <2>4. t >= 0
    BY <2>1
  <2> DEFINE times == {u \in {seen} \cup {now - d : d \in 0 .. MaxTime} : u >= 0 /\ u >= seen}
             contents == {[state |-> x, obs |-> Observed] : x \in RowStates \ {"Missing"}}
             content == [state |-> row.state, obs |-> Observed]
  <2>5. t \in times
    BY <2>2, <2>3, <2>4, Zenon
  <2>6. content \in contents /\ content.state = row.state /\ content.obs = Observed
    BY <1>3, Zenon
  <2>7. CopiedRow(row) = [state |-> row.state, observedAt |-> t, obs |-> Observed]
    BY <1>3, Zenon DEF CopiedRow
  <2>8. \A x \in contents, u \in times :
           [state |-> x.state, observedAt |-> u, obs |-> x.obs] \in W!PossibleRows(a, j)
    BY DEF W!PossibleRows
  <2> HIDE DEF times, contents, content, t
  <2>9. [state |-> content.state, observedAt |-> t, obs |-> content.obs] \in W!PossibleRows(a, j)
    BY <2>5, <2>6, <2>8, Zenon
  <2> QED BY <2>6, <2>7, <2>9, Zenon
<1> QED BY <1>2, <1>3, Zenon DEF RowNow

LEMMA KnownRow ==
    ASSUME NEW old
    PROVE  LET r == [known |-> TRUE, rows |-> old]
           IN  /\ r.known = TRUE
               /\ \A new : [r EXCEPT !.rows = new] = [known |-> TRUE, rows |-> new]
<1>1. [known |-> TRUE, rows |-> old].known = TRUE
  BY Zenon
<1>2. \A k, new : [[known |-> k, rows |-> old] EXCEPT !.rows = new] = [known |-> k, rows |-> new]
  OBVIOUS
<1> QED BY <1>1, <1>2, Zenon

\* The object vanishes from the window's sight.
LEMMA DeletionAllowed ==
    ASSUME psCache.life # "gone", psCache'.life = "gone", UNCHANGED <<now, cwVars>>
    PROVE  W!Next
<1>1. PICK a : Apps = {a}
  BY OneApp
<1>2. DOMAIN FoundPS = Apps /\ FoundPS[a].known
  <2>1. DOMAIN FoundPS = Apps /\ FoundPS[a] = [known |-> TRUE, rows |-> FoundRows]
    BY <1>1, FoundParts, Zenon
  <2>2. FoundPS[a].known = TRUE
    BY <2>1, KnownRow, Zenon
  <2> QED BY <2>1, <2>2, Zenon
<1>3. FoundPS' = [b \in Apps |-> W!NotFound]
  BY Zenon DEF FoundPS, W!NotFound
<1>4. FoundPS' = [FoundPS EXCEPT ![a] = W!NotFound]
  BY <1>1, <1>2, <1>3
<1>5. W!DeletePS(a)
  BY <1>2, <1>4, Zenon DEF W!DeletePS, cwVars
<1> QED BY <1>1, <1>5, Zenon DEF W!Next, W!Environment

\* New rows come into the window's sight.
LEMMA UpdateAllowed ==
    ASSUME SysInv, object.life = "present", StoresRows, psCache' = object',
           UNCHANGED <<now, cwVars>>
    PROVE  W!Next
<1> DEFINE new == [j \in W!Clusters |-> CopiedRow(object'.status.rows[j])]
<1>1. PICK a : Apps = {a}
  BY OneApp
<1>2. psCache = object /\ psCache.life # "gone"
  <2>1. psCache = object
    BY Zenon DEF SysInv
  <2> QED BY <2>1
<1>3. /\ DOMAIN FoundPS = Apps /\ FoundPS[a].known
      /\ FoundPS[a] = [known |-> TRUE, rows |-> FoundRows]
  <2>1. DOMAIN FoundPS = Apps /\ FoundPS[a] = [known |-> TRUE, rows |-> FoundRows]
    BY <1>1, <1>2, FoundParts, Zenon
  <2>2. FoundPS[a].known = TRUE
    BY <2>1, KnownRow, Zenon
  <2> QED BY <2>1, <2>2, Zenon
<1>4. W!Clusters = DOMAIN Targets
  BY TargetsReport DEF W!Clusters
<1>5. \A j \in W!Clusters : new[j] \in W!PossibleRows(a, j)
  <2>1. \A j \in DOMAIN Targets : RowNow(object'.status.rows[j], Targets[j])
    BY Zenon DEF StoresRows
  <2>2. \A j \in DOMAIN Targets : CopiedRow(object'.status.rows[j]) \in W!PossibleRows(a, j)
    BY <1>1, <1>2, <2>1, RowPossible, Zenon
  <2> QED BY <1>4, <2>2, Zenon
<1>6. FoundPS' = [b \in Apps |-> [known |-> TRUE, rows |-> new]]
  <2>1. object'.life # "gone" /\ DOMAIN object'.status.rows = W!Clusters
    <3>1. object'.life = object.life
      BY DEF StoresRows, ObjectFields
    <3> QED BY <1>4, <3>1 DEF StoresRows
  <2>2. FoundPS' = [b \in Apps |-> [ known |-> TRUE,
                                     rows |-> [i \in DOMAIN object'.status.rows |->
                                                 CopiedRow(object'.status.rows[i])] ]]
    BY <2>1, Zenon DEF FoundPS, CopiedRow
  <2> QED BY <2>1, <2>2, Zenon
<1> HIDE DEF new
<1>7. FoundPS' = [FoundPS EXCEPT ![a].rows = new]
  <2>1. [FoundPS[a] EXCEPT !.rows = new] = [known |-> TRUE, rows |-> new]
    BY <1>3, KnownRow, Zenon
  <2>2. FoundPS' = [b \in Apps |-> IF b = a THEN [FoundPS[a] EXCEPT !.rows = new] ELSE FoundPS[b]]
    BY <1>1, <1>6, <2>1
  <2> QED BY <1>1, <1>3, <2>2
<1>8. new \in [W!Clusters -> UNION {W!PossibleRows(a, j) : j \in W!Clusters}]
  BY <1>5 DEF new
<1>9. W!UpdatePS(a)
  BY <1>3, <1>5, <1>7, <1>8, Zenon DEF W!UpdatePS, cwVars
<1> QED BY <1>1, <1>9, Zenon DEF W!Next, W!Environment

\* Every step of the whole is a step of the window's specification, or changes
\* nothing that the window sees.
LEMMA StepImplemented == SysInv /\ [Next]_vars => [W!Next]_(W!vars)
<1> SUFFICES ASSUME SysInv, [Next]_vars PROVE [W!Next]_(W!vars)
  OBVIOUS
<1>0. ReportsOK /\ ObjectOK /\ psCache = object
  BY Zenon DEF SysInv
<1>1. ASSUME psCache' = psCache PROVE FoundPS' = FoundPS
  BY <1>1, FoundSame, Zenon
<1>2. ASSUME FoundPS' = FoundPS, UNCHANGED <<now, cwVars>> PROVE UNCHANGED W!vars
  BY <1>2, Zenon DEF W!vars, cwVars
<1>3. CASE Tick
  <2>1. FoundPS' = FoundPS
    BY <1>1, <1>3, Zenon DEF Tick, psVars
  <2>2. W!Tick
    BY <1>3, <2>1, Zenon DEF Tick, W!Tick, cwVars
  <2> QED BY <2>2, Zenon DEF W!Next
<1>4. CASE EditOrDelete
  <2>1. UNCHANGED <<now, cwVars>>
    BY <1>0, <1>4, EditSteps, Zenon DEF EditOrDelete
  <2>2. /\ psCache'.status = psCache.status /\ psCache' = object'
        /\ \/ object'.life = object.life /\ object.life = "present"
           \/ object.life # "gone" /\ object'.life \in {"deleting", "gone"}
    BY <1>0, <1>4, EditSteps, Zenon DEF EditOrDelete
  <2>3. CASE psCache'.life = "gone"
    <3>1. psCache.life # "gone"
      BY <1>0, <2>2, <2>3
    <3> QED BY <2>1, <2>3, <3>1, DeletionAllowed, Zenon
  <2>4. CASE psCache'.life # "gone"
    <3>1. psCache.life # "gone"
      BY <1>0, <2>2
    <3>2. FoundPS' = FoundPS
      BY <2>2, <2>4, <3>1, FoundSame, Zenon
    <3> QED BY <1>2, <2>1, <3>2, Zenon
  <2> QED BY <2>3, <2>4
<1>5. CASE Report
  <2>1. UNCHANGED <<now, cwVars>> /\ psCache' = psCache
    BY <1>0, <1>5, ReportSteps, Zenon DEF Report
  <2> QED BY <1>1, <1>2, <2>1, Zenon
<1>6. ASSUME NEW patched \in BOOLEAN, Propagate(patched)
      PROVE  [W!Next]_(W!vars)
  <2>1. P!Reconcile(patched) /\ DOMAIN object = ObjectFields /\ object.targets = Targets
    BY <1>0, <1>6, Zenon DEF Propagate, ObjectOK
  <2>2. /\ object.life = "present" /\ now' = now /\ psCache' = object'
        /\ object' = object \/ StoresRows
    BY <1>0, <2>1, PropagateStores, Zenon
  <2>3. UNCHANGED <<now, cwVars>>
    BY <1>6, <2>2, Zenon DEF Propagate
  <2>4. CASE object' = object
    BY <1>0, <1>1, <1>2, <2>2, <2>3, <2>4, Zenon
  <2>5. CASE StoresRows
    BY <2>2, <2>3, <2>5, UpdateAllowed, Zenon
  <2> QED BY <2>2, <2>4, <2>5
<1>7. CASE Forget
  <2>1. UNCHANGED <<now, cwVars>> /\ psCache' = psCache
    BY <1>7, Zenon DEF Forget, P!ReconcileDeleting
  <2> QED BY <1>1, <1>2, <2>1, Zenon
<1>8. CASE Evaluate
  BY <1>8, Zenon DEF Evaluate, W!Next
<1>9. CASE UNCHANGED vars
  <2>1. UNCHANGED <<now, cwVars>> /\ psCache' = psCache
    BY <1>9, Zenon DEF vars, psVars
  <2> QED BY <1>1, <1>2, <2>1, Zenon
<1> QED BY <1>3, <1>4, <1>5, <1>6, <1>7, <1>8, <1>9, Zenon DEF Next

\* The whole operator implements the specification of the ChangeWindow controller
\* with an environment of its own: whatever the reporters, the users and the
\* PropagationStatus controller do, with its lost patches, is an appearance, a
\* rewriting or a deletion of rows that specification allows.
THEOREM WindowImplemented == Spec => ImplementsWindow
<1>1. Init => W!Init
  BY DEF Init
<1>2. Init => SysInv
  BY SysInit
<1>3. SysInv /\ [Next]_vars => SysInv'
  BY SysStep
<1>4. SysInv /\ [Next]_vars => [W!Next]_(W!vars)
  BY StepImplemented
<1> QED BY <1>1, <1>2, <1>3, <1>4, PTL DEF Spec, ImplementsWindow, W!Spec

-----------------------------------------------------------------------------
(* No success against the reports.                                         *)

\* A verdict that passes saw rows, all of them InSync.
LEMMA PassedInSync ==
    ASSUME NEW appStates, NEW order \in W!Orders, NEW silent,
           W!evaluateGates(appStates, order, silent).passed = TRUE
    PROVE  /\ W!RowsOf(appStates) # {}
           /\ \A a \in Apps : \A j \in DOMAIN appStates[a].rows :
                 appStates[a].rows[j].state = "InSync"
<1> DEFINE gates == W!GateResults(appStates, order)
<1>1. W!AllTrue(gates)
  BY DEF W!evaluateGates
<1>2. W!AllChangesApplied(appStates, order) = "True"
  <2>1. /\ "AllChangesApplied" \in DOMAIN gates
        /\ gates["AllChangesApplied"] = W!AllChangesApplied(appStates, order)
    BY DEF W!GateResults
  <2> HIDE DEF gates
  <2> QED BY <1>1, <2>1 DEF W!AllTrue
<1>3. W!RowsOf(appStates) # {}
  BY <1>2, Zenon DEF W!AllChangesApplied
<1>4. ASSUME NEW a \in Apps, NEW j \in DOMAIN appStates[a].rows
      PROVE  appStates[a].rows[j].state = "InSync"
  <2>1. PICK i \in DOMAIN order : order[i] = a
    BY DEF W!Orders
  <2>2. ~W!NotInSync(appStates[order[i]])
    BY <1>2, Zenon DEF W!AllChangesApplied
  <2> QED BY <2>1, <2>2, Zenon DEF W!NotInSync
<1> QED BY <1>3, <1>4, Zenon

\* Only a verdict that passes is decided to be a success.
LEMMA SuccessPassed ==
    ASSUME NEW previous, NEW passed \in BOOLEAN, NEW startedAt,
           W!Decide(previous, passed, startedAt).phase = "Succeeded"
    PROVE  passed = TRUE
<1> SUFFICES ASSUME passed = FALSE PROVE FALSE
  OBVIOUS
<1> DEFINE d == W!Decide(previous, FALSE, startedAt)
<1>1. d = IF now > EndTime
          THEN [phase |-> "TimedOut", overall |-> "Degraded", startedAt |-> W!NoTime]
          ELSE [ phase |-> IF previous \in {"", "Scheduled", "BaselineCaptured"}
                           THEN "WaitingForChange" ELSE "Executing",
                 overall |-> "InProgress", startedAt |-> W!NoTime ]
  BY Zenon DEF W!Decide
<1>2. d.phase = IF now > EndTime THEN "TimedOut"
                ELSE IF previous \in {"", "Scheduled", "BaselineCaptured"}
                THEN "WaitingForChange" ELSE "Executing"
  <2> HIDE DEF d
  <2> QED BY <1>1, Zenon
<1>3. d.phase \in {"TimedOut", "WaitingForChange", "Executing"}
  <2> HIDE DEF d
  <2> QED BY <1>2, Zenon
<1>4. d.phase = "Succeeded"
  BY Zenon
<1> HIDE DEF d
<1> QED BY <1>3, <1>4

\* A stored evaluation that ends in Succeeded passed on what the window found.
LEMMA StoredSuccess ==
    ASSUME cwCache = status, NEW order \in W!Orders, NEW delivery, NEW patched \in BOOLEAN,
           W!Reconcile(order, delivery, patched), evaluated' # evaluated,
           status'.phase = "Succeeded"
    PROVE  LET appStates == W!FetchAppStates(status)
           IN  W!evaluateGates(appStates, order, W!SilentClusters(appStates, now)).passed = TRUE
<1> DEFINE appStates  == W!FetchAppStates(status)
           silent     == W!SilentClusters(appStates, now)
           validation == W!evaluateGates(appStates, order, silent)
           d          == W!Decide(W!PreviousPhase(status), validation.passed,
                                  status.stabilizationStartedAt)
           due        == W!ReportDue(W!PreviousPhase(status), d.phase, status.validation,
                                     validation, status.lastReportedAt)
           new        == W!NewStatus(status, order, appStates, silent, validation, d,
                                     due /\ delivery = "acked")
           failedAt   == IF validation.passed THEN evaluated.failedAt ELSE now
<1>1. /\ status' = IF patched THEN W!MergeFrom(new, status, status) ELSE status
      /\ evaluated' = IF ~patched THEN evaluated ELSE [at |-> now, failedAt |-> failedAt]
  BY DEF W!Reconcile
<1>2. validation.passed \in BOOLEAN
  BY DEF W!evaluateGates
<1>3. new.phase = d.phase
  BY DEF W!NewStatus
<1>4. \A n, s : W!MergeFrom(n, s, s).phase = n.phase
  BY DEF W!MergeFrom, W!Pick
<1>5. d.phase = "Succeeded" => validation.passed = TRUE
  <2> HIDE DEF validation
  <2> QED BY <1>2, SuccessPassed, Zenon
<1> HIDE DEF appStates, silent, validation, d, due, new, failedAt
<1>6. status'.phase = new.phase
  BY <1>1, <1>4, Zenon
<1>7. validation.passed = TRUE
  BY <1>3, <1>5, <1>6, Zenon
<1> QED BY <1>7, Zenon DEF validation, silent, appStates

\* When every row the window finds is in sync and the rows are those of the
\* reports as they are now, so are the reports.
LEMMA RowsTellReports ==
    ASSUME SysInv, RowsUpToDate, object.life # "gone", NEW a \in Apps,
           FoundPS[a].rows # <<>>,
           \A j \in DOMAIN FoundPS[a].rows : FoundPS[a].rows[j].state = "InSync"
    PROVE  InSyncNow
<1> DEFINE rows == object.status.rows
<1>1. psCache = object
  BY Zenon DEF SysInv
<1>2. FoundPS[a].rows = FoundRows
  <2>1. FoundPS[a] = [known |-> TRUE, rows |-> FoundRows]
    BY <1>1, FoundParts, Zenon
  <2> QED BY <2>1
<1>3. DOMAIN FoundRows = DOMAIN rows /\ \A i \in DOMAIN rows : FoundRows[i].state = rows[i].state
  <2>1. FoundRows = [i \in DOMAIN rows |-> CopiedRow(rows[i])]
    BY <1>1, Zenon DEF FoundRows
  <2>2. \A r : CopiedRow(r).state = r.state
    BY Zenon DEF CopiedRow
  <2> HIDE DEF rows
  <2> QED BY <2>1, <2>2, Zenon
<1>4. DOMAIN rows = DOMAIN Targets /\ object.status.lastExpectedRevision = object.expected
  BY Zenon DEF SysInv, GenerationOK, RowsUpToDate
<1>5. rows # <<>>
  <2>1. rows = <<>> => FoundRows = <<>>
    BY <1>1 DEF FoundRows
  <2> QED BY <1>2, <2>1, Zenon
<1>6. ASSUME NEW i \in DOMAIN Targets
      PROVE  reports[Targets[i]].revision = object.expected /\ reports[Targets[i]].sync # "OutOfSync"
  <2>1. RowOK(reports, rows[i], Targets[i], object.expected)
    BY <1>4, <1>5, Zenon DEF SysInv, RowsOK
  <2>2. rows[i].state = "InSync"
    BY <1>2, <1>3, <1>4, Zenon
  <2>3. rows[i].state # "Missing"
    BY <2>2
  <2>4. rows[i].cluster = Targets[i] /\ rows[i].report = reports[Targets[i]]
    BY <1>4, <2>1, Zenon DEF RowsUpToDate, RowOK
  <2> HIDE DEF rows
  <2> QED BY <2>1, <2>2, <2>3, <2>4, Zenon DEF RowOK
<1> QED BY <1>6, Zenon DEF InSyncNow

\* A window is not declared Succeeded against the reports: the ChangeWindow
\* controller copies rows another controller made, without a look at their
\* generation; still, whenever these rows are of the current spec and reports,
\* a stored Succeeded means that every target reported the expected revision.
THEOREM SuccessNeverFalse == Spec => NoFalseSuccess
<1> DEFINE Claim ==
        evaluated' # evaluated /\ status'.phase = "Succeeded" /\ object.life # "gone" /\ RowsUpToDate
            => InSyncNow
<1>1. SysInv /\ [Next]_vars => [Claim]_vars
  <2> SUFFICES ASSUME SysInv, [Next]_vars,
                      evaluated' # evaluated, status'.phase = "Succeeded",
                      object.life # "gone", RowsUpToDate
               PROVE  InSyncNow
    BY Zenon
  <2>1. Evaluate
    BY Zenon DEF Next, vars, cwVars, Tick, EditOrDelete, Report, Propagate, Forget
  <2>2. PICK order \in W!Orders, delivery \in W!Deliveries, patched \in BOOLEAN :
          W!Reconcile(order, delivery, patched)
    BY <2>1, Zenon DEF Evaluate, W!ReconcileAny, W!ReconcileScheduled
  <2> DEFINE appStates == W!FetchAppStates(status)
  <2>3. cwCache = status /\ psCache = object
    BY Zenon DEF SysInv
  <2>4. W!evaluateGates(appStates, order, W!SilentClusters(appStates, now)).passed = TRUE
    BY <2>2, <2>3, StoredSuccess, Zenon
  <2>5. /\ W!RowsOf(appStates) # {}
        /\ \A a \in Apps : \A j \in DOMAIN appStates[a].rows : appStates[a].rows[j].state = "InSync"
    <3> HIDE DEF appStates
    <3> QED BY <2>4, PassedInSync, Zenon
  <2>6. PICK a : Apps = {a}
    BY OneApp
  <2>7. appStates[a] = FoundPS[a]
    <3>1. FoundPS[a].known = TRUE
      BY <2>3, <2>6, FoundParts, KnownRow, Zenon
    <3> QED BY <2>6, <3>1, Zenon DEF W!FetchAppStates
  <2>8. FoundPS[a].rows # <<>>
    <3> HIDE DEF appStates
    <3>1. PICK j : j \in DOMAIN appStates[a].rows
      BY <2>5, <2>6 DEF W!RowsOf
    <3> QED BY <2>7, <3>1
  <2>9. \A j \in DOMAIN FoundPS[a].rows : FoundPS[a].rows[j].state = "InSync"
    <3> HIDE DEF appStates
    <3> QED BY <2>5, <2>6, <2>7, Zenon
  <2> QED BY <2>6, <2>8, <2>9, RowsTellReports, Zenon
<1> HIDE DEF Claim
<1>2. Spec => [][Claim]_vars
  BY <1>1, SysInit, SysStep, PTL DEF Spec
<1> QED BY <1>2 DEF Claim, NoFalseSuccess

=============================================================================
