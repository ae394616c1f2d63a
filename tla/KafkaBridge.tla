----------------------------- MODULE KafkaBridge -----------------------------
(***************************************************************************)
(* The ingest side of the Kafka bridge: KafkaBridge.Start of every         *)
(* operator, reading CHG events from a topic as members of consumer        *)
(* groups, and creating a ChangeWindow in its own cluster for each event   *)
(* that targets it.  Which controllers run beside the bridge is decided    *)
(* once, when the operator starts: a window is only evaluated where the    *)
(* ChangeWindow controller was registered.                                 *)
(*                                                                         *)
(* Start runs on the elected leader of a cluster; after a leadership       *)
(* change the old leader may still be in its loop, so a cluster may have   *)
(* several members.  A topic partition is read by one member of each group *)
(* at a time; a rebalance, a crash or a leadership change moves it, and    *)
(* the new reader starts at the group's committed offset.  Kafka and the   *)
(* API servers are external.                                               *)
(***************************************************************************)
EXTENDS Naturals, Sequences, FiniteSets

CONSTANTS
    Members,        \* the operator processes
    ClusterOf,      \* ClusterOf[m]: the cluster m runs in
    Group,          \* Group[m]: the consumer group of m's reader
    ClusterName,    \* ClusterName[c]: CLUSTER_NAME of c's operators, "" when unset
    Partitions,     \* partitions of the ingest topic
    Topic,          \* Topic[p]: the sequence of events in partition p
    NameOf,         \* NameOf[chg]: the CHG number in lower case
    MaxDisruptions  \* bound on crashes, rebalances and failed commits

Clusters == {ClusterOf[m] : m \in Members}
Groups == {Group[m] : m \in Members}
Events == UNION {{Topic[p][i] : i \in DOMAIN Topic[p]} : p \in Partitions}

\* An event is malformed, has no CHG number, or announces a change window for a
\* set of clusters ({} when the list is absent, "*" for all of them); rejected
\* tells that an API server refuses the object for good (an invalid name, say).
ASSUME BridgeAssumption ==
    /\ DOMAIN ClusterName = Clusters
    /\ MaxDisruptions \in Nat
    /\ \A p \in Partitions : Topic[p] \in Seq(Events)
    /\ \A e \in Events : /\ e.kind \in {"malformed", "noNumber", "chg"}
                         /\ IsFiniteSet(e.targets)
                         /\ e.rejected \in BOOLEAN
                         /\ e.chg \in DOMAIN NameOf

VARIABLES
    reader,       \* reader[g][p]: the member of group g that reads partition p
    position,     \* position[g][p]: number of events that reader has fetched
    committed,    \* committed[g][p]: number of events committed by the group
    pc,           \* pc[m]: where m is in the loop of Start
    msg,          \* msg[m]: partition and offset of the event m handles
    windows,      \* windows[c]: the ChangeWindows of cluster c, by name
    validated,    \* validated[c]: names of the windows of c that were evaluated
    disruptions   \* number of disruptions so far

vars == <<reader, position, committed, pc, msg, windows, validated, disruptions>>

NoEvent == [kind |-> "none"]
Names == {NameOf[chg] : chg \in DOMAIN NameOf}
NoMsg == <<>>

Init ==
    /\ reader \in [Groups -> [Partitions -> Members]]
    /\ \A g \in Groups, p \in Partitions : Group[reader[g][p]] = g
    /\ position = [g \in Groups |-> [p \in Partitions |-> 0]]
    /\ committed = [g \in Groups |-> [p \in Partitions |-> 0]]
    /\ pc = [m \in Members |-> "fetch"]
    /\ msg = [m \in Members |-> NoMsg]
    /\ windows = [c \in Clusters |-> [n \in Names |-> NoEvent]]
    /\ validated = [c \in Clusters |-> {}]
    /\ disruptions = 0

isClusterTargeted(c, targets) ==
    \/ ClusterName[c] \in {"", "hub"}
    \/ targets = {}
    \/ "*" \in targets
    \/ ClusterName[c] \in targets

\* SetupAllControllers: a named cluster runs the agent and nothing else.
SetupAllControllers(c) ==
    IF ClusterName[c] # "" THEN {"LocalAppWatch"} ELSE {"PropagationStatus", "ChangeWindow"}

\* The event leads to a Create; every other event is committed and skipped.
Wanted(c, e) == e.kind = "chg" /\ isClusterTargeted(c, e.targets)

EventOf(m) == Topic[msg[m][1]][msg[m][2]]

\* Mutants: the offset of the event before; the target list not looked at.
FetchOldOffset(m, p) ==
    LET g == Group[m]
        n == position[g][p]
    IN  /\ pc[m] = "fetch" /\ reader[g][p] = m /\ n < Len(Topic[p])
        /\ position' = [position EXCEPT ![g][p] = n + 1]
        /\ msg' = [msg EXCEPT ![m] = <<p, n>>]
        /\ pc' = [pc EXCEPT ![m] = "commit"]
        /\ UNCHANGED <<reader, committed, windows, validated, disruptions>>
FetchUntargeted(m, p) ==
    LET g == Group[m]
        n == position[g][p] + 1
    IN  /\ pc[m] = "fetch" /\ reader[g][p] = m /\ n <= Len(Topic[p])
        /\ position' = [position EXCEPT ![g][p] = n]
        /\ msg' = [msg EXCEPT ![m] = <<p, n>>]
        /\ pc' = [pc EXCEPT ![m] = IF Topic[p][n].kind = "chg" THEN "create" ELSE "commit"]
        /\ UNCHANGED <<reader, committed, windows, validated, disruptions>>

\* FetchMessage, the checks of the payload and of the target list.
Fetch(m, p) ==
    LET g == Group[m]
        n == position[g][p] + 1
    IN  /\ pc[m] = "fetch"
        /\ reader[g][p] = m
        /\ n <= Len(Topic[p])
        /\ position' = [position EXCEPT ![g][p] = n]
        /\ msg' = [msg EXCEPT ![m] = <<p, n>>]
        /\ pc' = [pc EXCEPT ![m] = IF Wanted(ClusterOf[m], Topic[p][n]) THEN "create" ELSE "commit"]
        /\ UNCHANGED <<reader, committed, windows, validated, disruptions>>

\* Mutants: an error ends the attempts; an existing window is overwritten.
CreateOnce(m) ==
    /\ pc[m] = "create"
    /\ \E w \in {NoEvent, EventOf(m)} :
          windows' = [windows EXCEPT ![ClusterOf[m]][NameOf[EventOf(m).chg]] = IF @ = NoEvent THEN w ELSE @]
    /\ pc' = [pc EXCEPT ![m] = "commit"]
    /\ UNCHANGED <<reader, position, committed, msg, validated, disruptions>>
CreateOrUpdate(m) ==
    /\ pc[m] = "create"
    /\ windows' = [windows EXCEPT ![ClusterOf[m]][NameOf[EventOf(m).chg]] = EventOf(m)]
    /\ pc' = [pc EXCEPT ![m] = "commit"]
    /\ UNCHANGED <<reader, position, committed, msg, validated, disruptions>>

\* Client.Create succeeds, or finds the window there already; any other error
\* is retried, which is a step that changes nothing.
Create(m) ==
    LET e == EventOf(m)
        n == NameOf[e.chg]
    IN  /\ pc[m] = "create"
        /\ ~e.rejected
        /\ windows' = [windows EXCEPT ![ClusterOf[m]][n] = IF @ = NoEvent THEN e ELSE @]
        /\ pc' = [pc EXCEPT ![m] = "commit"]
        /\ UNCHANGED <<reader, position, committed, msg, validated, disruptions>>

\* CommitMessages; the group only takes it from the partition's reader.  An
\* error is logged and the loop goes on.
Commit(m, ok) ==
    LET g == Group[m]
        p == msg[m][1]
    IN  /\ pc[m] = "commit"
        /\ ok \/ reader[g][p] # m \/ disruptions < MaxDisruptions
        /\ disruptions' = IF ok \/ reader[g][p] # m THEN disruptions ELSE disruptions + 1
        /\ committed' = IF ok /\ reader[g][p] = m
                        THEN [committed EXCEPT ![g][p] = msg[m][2]] ELSE committed
        /\ pc' = [pc EXCEPT ![m] = "fetch"]
        /\ msg' = [msg EXCEPT ![m] = NoMsg]
        /\ UNCHANGED <<reader, position, windows, validated>>

\* The partition moves to another reader of the group, or the group restarts
\* it: fetching resumes at the committed offset.
Rebalance(g, p, m) ==
    /\ disruptions < MaxDisruptions
    /\ Group[m] = g
    /\ reader' = [reader EXCEPT ![g][p] = m]
    /\ position' = [position EXCEPT ![g][p] = committed[g][p]]
    /\ disruptions' = disruptions + 1
    /\ UNCHANGED <<committed, pc, msg, windows, validated>>

\* The operator stops, in whatever step, and starts again: its reader rejoins.
Crash(m) ==
    LET g == Group[m]
    IN  /\ disruptions < MaxDisruptions
        /\ position' = [position EXCEPT ![g] =
                          [p \in Partitions |-> IF reader[g][p] = m THEN committed[g][p] ELSE @[p]]]
        /\ pc' = [pc EXCEPT ![m] = "fetch"]
        /\ msg' = [msg EXCEPT ![m] = NoMsg]
        /\ disruptions' = disruptions + 1
        /\ UNCHANGED <<reader, committed, windows, validated>>

\* The ChangeWindow controller, where it runs, evaluates a window of its cluster
\* (module ChangeWindow).
Validate(c) ==
    /\ "ChangeWindow" \in SetupAllControllers(c)
    /\ \E n \in Names \ validated[c] :
          /\ windows[c][n] # NoEvent
          /\ validated' = [validated EXCEPT ![c] = @ \cup {n}]
    /\ UNCHANGED <<reader, position, committed, pc, msg, windows, disruptions>>

Step(m) == (\E p \in Partitions : Fetch(m, p)) \/ Create(m) \/ Commit(m, TRUE)

Next ==
    \/ \E c \in Clusters : Validate(c)
    \/ \E m \in Members : Step(m) \/ Commit(m, FALSE) \/ Crash(m)
    \/ \E g \in Groups, p \in Partitions, m \in Members : Rebalance(g, p, m)

Spec == Init /\ [][Next]_vars

\* Fetch, create and commit are retried for ever and errors do not last.
\* A controller that runs gets round to every window.
FairSpec ==
    /\ Spec
    /\ \A m \in Members : WF_vars(Step(m))
    /\ \A c \in Clusters : WF_vars(Validate(c))

-----------------------------------------------------------------------------
(***************************************************************************)
(* Properties.                                                             *)
(***************************************************************************)

\* Offsets stay within the topic and every member handles an event of its own.
TypeOK ==
    /\ reader \in [Groups -> [Partitions -> Members]]
    /\ position \in [Groups -> [Partitions -> Nat]]
    /\ committed \in [Groups -> [Partitions -> Nat]]
    /\ pc \in [Members -> {"fetch", "create", "commit"}]
    /\ windows \in [Clusters -> [Names -> Events \cup {NoEvent}]]
    /\ validated \in [Clusters -> SUBSET Names]
    /\ disruptions \in Nat
    /\ \A m \in Members : pc[m] # "fetch" =>
          /\ msg[m] \in Partitions \X (Nat \ {0})
          /\ msg[m][2] <= Len(Topic[msg[m][1]])

\* Cluster c has seen to event e.
Handled(c, e) == Wanted(c, e) => windows[c][NameOf[e.chg]] # NoEvent

\* No event is lost by a crash, a rebalance or a lost commit: an event a group
\* has committed was handled in the cluster of a member of that group, whose
\* window it created (or found) if the event was for that cluster.
CommittedIsHandled ==
    \A g \in Groups, p \in Partitions : \A i \in 1 .. committed[g][p] :
        \E m \in Members : Group[m] = g /\ Handled(ClusterOf[m], Topic[p][i])

\* A window always comes from an event for its cluster and carries the event's name.
WindowsFromEvents ==
    \A c \in Clusters, n \in Names : windows[c][n] # NoEvent =>
        Wanted(c, windows[c][n]) /\ NameOf[windows[c][n].chg] = n

\* Where a cluster has its groups to itself, its window is the one that the first
\* event for it announced in the partition: no leadership change, crash or lost
\* commit lets a change that is announced again, or in another case, get ahead of
\* the announcement before it.
HasOwnGroups(c) == \A k, m \in Members : ClusterOf[k] = c /\ Group[m] = Group[k] => ClusterOf[m] = c
Announces(e, c, n) == Wanted(c, e) /\ NameOf[e.chg] = n
FirstEventWins ==
    \A c \in Clusters, n \in Names : HasOwnGroups(c) /\ windows[c][n] # NoEvent =>
        \E p \in Partitions : \E i \in DOMAIN Topic[p] :
            /\ Topic[p][i] = windows[c][n]
            /\ \A j \in 1 .. i - 1 : ~Announces(Topic[p][j], c, n)

\* Every event of the topic is handled in the end in the cluster of a member of
\* each group, as long as no event is refused for good by the API server.
AllHandled ==
    (\A e \in Events : ~e.rejected) =>
        <>(\A g \in Groups, e \in Events :
              \E m \in Members : Group[m] = g /\ Handled(ClusterOf[m], e))

-----------------------------------------------------------------------------
(* What the documents say and the code does not do.                        *)

\* README: "Targeted clusters create local ChangeWindow CRs and validate 8 safety
\* gates locally".  So every cluster an event is for ends up with a window for
\* it that was evaluated there.
TargetedClustersValidate ==
    \A c \in Clusters : \A e \in Events :
        Wanted(c, e) => <>(NameOf[e.chg] \in validated[c])
=============================================================================
