-------------------------- MODULE KafkaBridgeProofs --------------------------
(***************************************************************************)
(* Proofs about the ingest side of the Kafka bridge, for every topic, any  *)
(* number of operators, clusters, groups and partitions, and any number of *)
(* crashes, rebalances and failed commits.                                 *)
(***************************************************************************)
EXTENDS KafkaBridge, TLAPS

-----------------------------------------------------------------------------
(* Facts about the constants.                                              *)

\* An entry of the topic is an event, and no event is mistaken for "no window".
LEMMA TopicEvents ==
    ASSUME NEW p \in Partitions, NEW n \in Nat \ {0}, n <= Len(Topic[p])
    PROVE  Topic[p][n] \in Events /\ Topic[p][n] # NoEvent
<1>1. Topic[p] \in Seq(Events)
  BY BridgeAssumption
<1>2. Topic[p][n] \in Events
  BY <1>1
<1>3. Topic[p][n].kind # "none"
  BY <1>2, BridgeAssumption
<1> QED BY <1>2, <1>3 DEF NoEvent

\* The name of an event's window is a name.
LEMMA EventNames ==
    ASSUME NEW e \in Events
    PROVE  NameOf[e.chg] \in Names
BY BridgeAssumption DEF Names

-----------------------------------------------------------------------------
(* Types.                                                                  *)

\* The inductive invariant: TypeOK, a slot for the message of every member, and
\* the reader of a partition belongs to the group it reads for, because only such
\* a member takes over.
TypeInv ==
    /\ TypeOK
    /\ DOMAIN msg = Members
    /\ \A g \in Groups, p \in Partitions : Group[reader[g][p]] = g

LEMMA TypeInit == Init => TypeInv
<1> SUFFICES ASSUME Init PROVE TypeInv
  OBVIOUS
<1>1. windows \in [Clusters -> [Names -> Events \cup {NoEvent}]]
  BY DEF Init
<1>2. position \in [Groups -> [Partitions -> Nat]] /\ committed \in [Groups -> [Partitions -> Nat]]
  BY DEF Init
<1>3. validated \in [Clusters -> SUBSET Names]
  BY DEF Init
<1>4. pc \in [Members -> {"fetch", "create", "commit"}] /\ \A m \in Members : pc[m] = "fetch"
  BY DEF Init
<1> QED BY <1>1, <1>2, <1>3, <1>4 DEF TypeInv, TypeOK, Init

LEMMA TypeFetch ==
    ASSUME TypeInv, NEW m \in Members, NEW p \in Partitions, Fetch(m, p)
    PROVE  TypeInv'
<1> DEFINE g == Group[m]
           n == position[g][p] + 1
<1>1. g \in Groups
  BY DEF Groups
<1>2. position[g][p] \in Nat /\ n \in Nat \ {0} /\ n <= Len(Topic[p])
  BY <1>1 DEF TypeInv, TypeOK, Fetch
<1>3. position' \in [Groups -> [Partitions -> Nat]]
  BY <1>1, <1>2 DEF TypeInv, TypeOK, Fetch
<1>4. pc' \in [Members -> {"fetch", "create", "commit"}]
  BY DEF TypeInv, TypeOK, Fetch
<1>5. ASSUME NEW k \in Members, pc'[k] # "fetch"
      PROVE  msg'[k] \in Partitions \X (Nat \ {0}) /\ msg'[k][2] <= Len(Topic[msg'[k][1]])
  <2>1. msg' = [msg EXCEPT ![m] = <<p, n>>] /\ DOMAIN msg = Members
    BY DEF Fetch, TypeInv
  <2>2. CASE k = m
    <3>1. msg'[k] = <<p, n>>
      BY <2>1, <2>2
    <3> HIDE DEF n
    <3> QED BY <1>2, <3>1
  <2>3. CASE k # m
    <3>1. msg'[k] = msg[k]
      BY <2>1, <2>3
    <3>2. pc'[k] = pc[k]
      BY <2>3 DEF Fetch, TypeInv, TypeOK
    <3> QED BY <1>5, <3>1, <3>2 DEF TypeInv, TypeOK
  <2> QED BY <2>2, <2>3
<1> QED BY <1>3, <1>4, <1>5 DEF TypeInv, TypeOK, Fetch

\* The event in hand of a member that is not fetching.
LEMMA InHand ==
    ASSUME TypeInv, NEW m \in Members, pc[m] # "fetch"
    PROVE  /\ msg[m][1] \in Partitions /\ msg[m][2] \in Nat \ {0}
           /\ msg[m][2] <= Len(Topic[msg[m][1]])
           /\ EventOf(m) \in Events /\ EventOf(m) # NoEvent
<1>1. msg[m] \in Partitions \X (Nat \ {0}) /\ msg[m][2] <= Len(Topic[msg[m][1]])
  BY DEF TypeInv, TypeOK
<1>2. msg[m][1] \in Partitions /\ msg[m][2] \in Nat \ {0}
  BY <1>1
<1> QED BY <1>1, <1>2, TopicEvents DEF EventOf

\* What Create writes: the event, in an empty slot of the member's own cluster;
\* every other slot, and a slot that is taken, keeps its window.
LEMMA CreateWrites ==
    ASSUME TypeInv, NEW m \in Members, Create(m)
    PROVE  /\ windows' \in [Clusters -> [Names -> Events \cup {NoEvent}]]
           /\ windows'[ClusterOf[m]][NameOf[EventOf(m).chg]] # NoEvent
           /\ \A c \in Clusters, n \in Names :
                 \/ windows'[c][n] = windows[c][n]
                 \/ /\ windows[c][n] = NoEvent /\ windows'[c][n] = EventOf(m)
                    /\ c = ClusterOf[m] /\ n = NameOf[EventOf(m).chg]
<1> DEFINE e == EventOf(m)
           d == NameOf[e.chg]
           b == ClusterOf[m]
<1>1. e \in Events /\ e # NoEvent
  BY InHand DEF Create
<1>2. d \in Names /\ b \in Clusters
  BY <1>1, EventNames DEF Clusters
<1>3. windows' = [windows EXCEPT ![b][d] = IF @ = NoEvent THEN e ELSE @]
  BY DEF Create
<1>4. windows \in [Clusters -> [Names -> Events \cup {NoEvent}]]
  BY DEF TypeInv, TypeOK
<1> HIDE DEF e, d, b
<1>5. windows' \in [Clusters -> [Names -> Events \cup {NoEvent}]]
  BY <1>1, <1>2, <1>3, <1>4
<1>6. windows'[b][d] = IF windows[b][d] = NoEvent THEN e ELSE windows[b][d]
  BY <1>2, <1>3, <1>4
<1>7. ASSUME NEW c \in Clusters, NEW n \in Names, ~(c = b /\ n = d)
      PROVE  windows'[c][n] = windows[c][n]
  BY <1>3, <1>4, <1>7
<1>8. windows'[b][d] # NoEvent
  BY <1>1, <1>6
<1> QED BY <1>5, <1>6, <1>7, <1>8 DEF e, d, b

LEMMA TypeCreate ==
    ASSUME TypeInv, NEW m \in Members, Create(m)
    PROVE  TypeInv'
<1>1. pc' = [pc EXCEPT ![m] = "commit"] /\ pc[m] = "create" /\ UNCHANGED msg
  BY DEF Create
<1>2. \A k \in Members : pc'[k] # "fetch" => pc[k] # "fetch"
  BY <1>1 DEF TypeInv, TypeOK
<1>3. windows' \in [Clusters -> [Names -> Events \cup {NoEvent}]]
  BY CreateWrites
<1>4. pc' \in [Members -> {"fetch", "create", "commit"}]
  BY <1>1 DEF TypeInv, TypeOK
<1>5. UNCHANGED <<reader, position, committed, msg, validated, disruptions>>
  BY DEF Create
<1> QED BY <1>2, <1>3, <1>4, <1>5 DEF TypeInv, TypeOK

LEMMA TypeCommit ==
    ASSUME TypeInv, NEW m \in Members, NEW ok \in BOOLEAN, Commit(m, ok)
    PROVE  TypeInv'
<1> DEFINE g == Group[m]
           p == msg[m][1]
<1>1. pc[m] = "commit" /\ pc' = [pc EXCEPT ![m] = "fetch"] /\ msg' = [msg EXCEPT ![m] = NoMsg]
  BY DEF Commit
<1>2. g \in Groups /\ p \in Partitions /\ msg[m][2] \in Nat
  BY <1>1, InHand DEF Groups
<1>3. committed' \in [Groups -> [Partitions -> Nat]]
  <2>1. committed' = [committed EXCEPT ![g][p] = msg[m][2]] \/ committed' = committed
    BY DEF Commit
  <2>2. committed \in [Groups -> [Partitions -> Nat]]
    BY DEF TypeInv, TypeOK
  <2> HIDE DEF g, p
  <2> QED BY <1>2, <2>1, <2>2
<1>4. disruptions' \in Nat
  BY DEF Commit, TypeInv, TypeOK
<1>5. \A k \in Members : pc'[k] # "fetch" => pc[k] # "fetch" /\ msg'[k] = msg[k]
  BY <1>1 DEF TypeInv, TypeOK
<1>6. UNCHANGED <<reader, position, windows, validated>>
  BY DEF Commit
<1> QED BY <1>1, <1>3, <1>4, <1>5, <1>6 DEF TypeInv, TypeOK

LEMMA TypeRebalance ==
    ASSUME TypeInv, NEW g \in Groups, NEW p \in Partitions, NEW m \in Members, Rebalance(g, p, m)
    PROVE  TypeInv'
<1>1. reader' = [reader EXCEPT ![g][p] = m] /\ Group[m] = g
  BY DEF Rebalance
<1>2. reader' \in [Groups -> [Partitions -> Members]]
  BY <1>1 DEF TypeInv, TypeOK
<1>3. \A h \in Groups, q \in Partitions : Group[reader'[h][q]] = h
  BY <1>1 DEF TypeInv, TypeOK
<1>4. position' \in [Groups -> [Partitions -> Nat]]
  BY DEF Rebalance, TypeInv, TypeOK
<1> QED BY <1>2, <1>3, <1>4 DEF Rebalance, TypeInv, TypeOK

LEMMA TypeCrash ==
    ASSUME TypeInv, NEW m \in Members, Crash(m)
    PROVE  TypeInv'
<1> DEFINE g == Group[m]
<1>1. g \in Groups
  BY DEF Groups
<1>2. position' \in [Groups -> [Partitions -> Nat]]
  BY <1>1 DEF Crash, TypeInv, TypeOK
<1>3. \A k \in Members : pc'[k] # "fetch" => pc[k] # "fetch" /\ msg'[k] = msg[k]
  BY DEF Crash, TypeInv, TypeOK
<1> QED BY <1>2, <1>3 DEF Crash, TypeInv, TypeOK

LEMMA TypeStep == TypeInv /\ [Next]_vars => TypeInv'
<1> SUFFICES ASSUME TypeInv, [Next]_vars PROVE TypeInv'
  OBVIOUS
<1>1. ASSUME NEW c \in Clusters, Validate(c) PROVE TypeInv'
  <2>1. validated' \in [Clusters -> SUBSET Names]
    BY <1>1 DEF Validate, TypeInv, TypeOK
  <2> QED BY <1>1, <2>1 DEF Validate, TypeInv, TypeOK
<1>2. CASE UNCHANGED vars
  BY <1>2 DEF vars, TypeInv, TypeOK
<1> QED BY <1>1, <1>2, TypeFetch, TypeCreate, TypeCommit, TypeRebalance, TypeCrash DEF Next, Step

\* The offsets of the group, the message in hand of every member and the windows
\* keep their types: a message in hand is an entry of the topic.
THEOREM BridgeTyped == Spec => []TypeOK
<1>1. TypeInv => TypeOK
  BY DEF TypeInv
<1> QED BY <1>1, TypeInit, TypeStep, PTL DEF Spec

-----------------------------------------------------------------------------
(* What a step is to one member.                                           *)

\* A step is one of a member's own, or leaves it where it is in its loop.
LEMMA MemberSteps ==
    ASSUME TypeInv, [Next]_vars, NEW k \in Members
    PROVE  \/ \E p \in Partitions : Fetch(k, p)
           \/ Create(k)
           \/ \E ok \in BOOLEAN : Commit(k, ok)
           \/ Crash(k)
           \/ pc'[k] = pc[k] /\ msg'[k] = msg[k]
<1>0. DOMAIN pc = Members /\ DOMAIN msg = Members
  BY DEF TypeInv, TypeOK
<1>1. ASSUME NEW m \in Members, m # k, Step(m) \/ Commit(m, FALSE) \/ Crash(m)
      PROVE  pc'[k] = pc[k] /\ msg'[k] = msg[k]
  <2>1. CASE \E p \in Partitions : Fetch(m, p)
    BY <1>0, <1>1, <2>1 DEF Fetch
  <2>2. CASE Create(m)
    BY <1>0, <1>1, <2>2 DEF Create
  <2>3. CASE Commit(m, TRUE) \/ Commit(m, FALSE)
    BY <1>0, <1>1, <2>3 DEF Commit
  <2>4. CASE Crash(m)
    BY <1>0, <1>1, <2>4 DEF Crash
  <2> QED BY <1>1, <2>1, <2>2, <2>3, <2>4 DEF Step
<1>2. CASE UNCHANGED <<pc, msg>>
  BY <1>2
<1>3. (\E m \in Members : Step(m) \/ Commit(m, FALSE) \/ Crash(m)) \/ UNCHANGED <<pc, msg>>
  BY DEF Next, Validate, Rebalance, vars
<1> QED BY <1>1, <1>2, <1>3 DEF Step

-----------------------------------------------------------------------------
(* Windows.                                                                *)

\* The windows a step may write: none, but for Create.
LEMMA OnlyCreateWrites ==
    ASSUME [Next]_vars, ~\E m \in Members : Create(m)
    PROVE  windows' = windows
BY DEF Next, Step, Validate, Fetch, Commit, Crash, Rebalance, vars

\* Events that reach a member in "create" are for its cluster.
WindowInv ==
    /\ TypeInv
    /\ WindowsFromEvents
    /\ \A m \in Members : pc[m] = "create" => Wanted(ClusterOf[m], EventOf(m))

LEMMA WindowStep == WindowInv /\ [Next]_vars => WindowInv'
<1> SUFFICES ASSUME WindowInv, [Next]_vars PROVE WindowInv'
  OBVIOUS
<1>0. TypeInv /\ TypeInv'
  BY TypeStep DEF WindowInv
<1>1. WindowsFromEvents'
  <2>1. ASSUME NEW m \in Members, Create(m) PROVE WindowsFromEvents'
    <3>1. Wanted(ClusterOf[m], EventOf(m))
      BY <2>1 DEF WindowInv, Create
    <3>2. \A c \in Clusters, n \in Names :
             \/ windows'[c][n] = windows[c][n]
             \/ /\ windows'[c][n] = EventOf(m)
                /\ c = ClusterOf[m] /\ n = NameOf[EventOf(m).chg]
      BY <1>0, <2>1, CreateWrites
    <3>3. ASSUME NEW c \in Clusters, NEW n \in Names, windows'[c][n] # NoEvent
          PROVE  Wanted(c, windows'[c][n]) /\ NameOf[windows'[c][n].chg] = n
      <4>1. CASE windows'[c][n] = windows[c][n]
        BY <3>3, <4>1 DEF WindowInv, WindowsFromEvents
      <4>2. CASE windows'[c][n] # windows[c][n]
        BY <3>1, <3>2, <4>2
      <4> QED BY <4>1, <4>2
    <3> QED BY <3>3 DEF WindowsFromEvents, Wanted, isClusterTargeted
  <2>2. CASE windows' = windows
    BY <2>2 DEF WindowInv, WindowsFromEvents, Wanted, isClusterTargeted
  <2> QED BY <2>1, <2>2, OnlyCreateWrites
<1>2. ASSUME NEW k \in Members, pc'[k] = "create"
      PROVE  Wanted(ClusterOf[k], Topic[msg'[k][1]][msg'[k][2]])
  <2>1. CASE pc[k] = "create" /\ msg'[k] = msg[k]
    BY <2>1 DEF WindowInv, EventOf
  <2>2. ASSUME NEW p \in Partitions, Fetch(k, p)
        PROVE  Wanted(ClusterOf[k], Topic[msg'[k][1]][msg'[k][2]])
    <3> DEFINE n == position[Group[k]][p] + 1
    <3>1. /\ msg' = [msg EXCEPT ![k] = <<p, n>>]
          /\ pc' = [pc EXCEPT ![k] = IF Wanted(ClusterOf[k], Topic[p][n]) THEN "create" ELSE "commit"]
      BY <2>2 DEF Fetch
    <3> HIDE DEF n
    <3>2. msg'[k] = <<p, n>>
      BY <1>0, <3>1 DEF TypeInv
    <3>3. pc'[k] = IF Wanted(ClusterOf[k], Topic[p][n]) THEN "create" ELSE "commit"
      BY <1>0, <3>1 DEF TypeInv, TypeOK
    <3> QED BY <1>2, <3>2, <3>3
  <2>3. (\E p \in Partitions : Fetch(k, p)) \/ (pc[k] = "create" /\ msg'[k] = msg[k])
    <3>0. DOMAIN pc = Members
      BY <1>0 DEF TypeInv, TypeOK
    <3>1. ~Create(k)
      BY <1>2, <3>0 DEF Create
    <3>2. ~Crash(k)
      BY <1>2, <3>0 DEF Crash
    <3>3. ~\E ok \in BOOLEAN : Commit(k, ok)
      BY <1>2, <3>0 DEF Commit
    <3>4. pc'[k] = pc[k] /\ msg'[k] = msg[k] => pc[k] = "create" /\ msg'[k] = msg[k]
      BY <1>2
    <3> QED BY <1>0, <3>1, <3>2, <3>3, <3>4, MemberSteps, Zenon
  <2> QED BY <2>1, <2>2, <2>3
<1> QED BY <1>0, <1>1, <1>2 DEF WindowInv, EventOf, Wanted, isClusterTargeted

LEMMA WindowInit == Init => WindowInv
<1> SUFFICES ASSUME Init PROVE WindowInv
  OBVIOUS
<1>1. \A c \in Clusters, n \in Names : windows[c][n] = NoEvent
  BY DEF Init
<1>2. \A m \in Members : pc[m] = "fetch"
  BY DEF Init
<1> QED BY <1>1, <1>2, TypeInit DEF WindowInv, WindowsFromEvents

\* isClusterTargeted and the name of the object: every window of every cluster
\* comes from an event that is for this cluster, and carries its name.
THEOREM WindowsAlwaysFromEvents == Spec => []WindowsFromEvents
<1>1. WindowInv => WindowsFromEvents
  BY DEF WindowInv
<1> QED BY <1>1, WindowInit, WindowStep, PTL DEF Spec

\* The reason why no later step takes a window back.
LEMMA WindowsStay ==
    ASSUME TypeInv, [Next]_vars, NEW c \in Clusters, NEW n \in Names, windows[c][n] # NoEvent
    PROVE  windows'[c][n] = windows[c][n]
BY CreateWrites, OnlyCreateWrites

-----------------------------------------------------------------------------
(* Delivery.                                                               *)

\* With windows w, event e needs no more work in cluster c; event i of partition
\* p was seen to in the cluster of a member of group g; so were all up to n.
Done(w, c, e) == Wanted(c, e) => w[c][NameOf[e.chg]] # NoEvent
SeenTo(w, g, p, i) == \E m \in Members : Group[m] = g /\ Done(w, ClusterOf[m], Topic[p][i])
SeenUpTo(w, g, p, n) == n <= Len(Topic[p]) /\ \A i \in 1 .. n : SeenTo(w, g, p, i)

\* The inductive invariant: what is committed was seen to; so was everything
\* before an event in hand, and that event itself once its member is about to
\* commit; and what the reader of a partition has fetched was seen to, but for
\* the event it has in hand.  A member that lost a partition may get it back with
\* an old event still in hand, so nothing orders position and committed.
CommittedSeen == \A g \in Groups, p \in Partitions : SeenUpTo(windows, g, p, committed[g][p])
BeforeHandSeen ==
    \A m \in Members : pc[m] # "fetch" => SeenUpTo(windows, Group[m], msg[m][1], msg[m][2] - 1)
HandDone == \A m \in Members : pc[m] = "commit" => Done(windows, ClusterOf[m], EventOf(m))
FetchedSeen ==
    \A g \in Groups, p \in Partitions :
        \/ SeenUpTo(windows, g, p, position[g][p])
        \/ pc[reader[g][p]] # "fetch" /\ msg[reader[g][p]] = <<p, position[g][p]>>
DeliveryInv == TypeInv /\ CommittedSeen /\ BeforeHandSeen /\ HandDone /\ FetchedSeen

LEMMA DeliveryInit == Init => DeliveryInv
<1> SUFFICES ASSUME Init PROVE DeliveryInv
  OBVIOUS
<1>1. \A m \in Members : pc[m] = "fetch"
  BY DEF Init
<1>2. \A p \in Partitions : Len(Topic[p]) \in Nat
  BY BridgeAssumption
<1>3. \A g \in Groups, p \in Partitions : committed[g][p] = 0 /\ position[g][p] = 0
  BY DEF Init
<1>4. \A g \in Groups, p \in Partitions : SeenUpTo(windows, g, p, 0)
  BY <1>2 DEF SeenUpTo
<1> QED BY <1>1, <1>3, <1>4, TypeInit
        DEF DeliveryInv, CommittedSeen, BeforeHandSeen, HandDone, FetchedSeen

\* No step undoes what was done: windows stay.
LEMMA DoneStays ==
    ASSUME TypeInv, [Next]_vars, NEW c \in Clusters, NEW e \in Events, Done(windows, c, e)
    PROVE  Done(windows', c, e)
BY EventNames, WindowsStay DEF Done

LEMMA SeenStays ==
    ASSUME TypeInv, [Next]_vars, NEW g, NEW p \in Partitions, NEW n \in Nat,
           SeenUpTo(windows, g, p, n)
    PROVE  SeenUpTo(windows', g, p, n)
<1> SUFFICES ASSUME NEW i \in 1 .. n
             PROVE  SeenTo(windows', g, p, i)
  BY DEF SeenUpTo
<1>1. i \in Nat \ {0} /\ i <= Len(Topic[p]) /\ Len(Topic[p]) \in Nat
  BY BridgeAssumption DEF SeenUpTo
<1>2. PICK m \in Members : Group[m] = g /\ Done(windows, ClusterOf[m], Topic[p][i])
  BY DEF SeenUpTo, SeenTo
<1>3. ClusterOf[m] \in Clusters /\ Topic[p][i] \in Events
  BY <1>1, TopicEvents DEF Clusters
<1> QED BY <1>2, <1>3, DoneStays DEF SeenTo

\* A member that saw to the event in hand has seen to all up to it.
LEMMA SeenHand ==
    ASSUME DeliveryInv, NEW m \in Members, pc[m] = "commit"
    PROVE  SeenUpTo(windows, Group[m], msg[m][1], msg[m][2])
<1> DEFINE p == msg[m][1]
           n == msg[m][2]
<1>1. p \in Partitions /\ n \in Nat \ {0} /\ n <= Len(Topic[p]) /\ pc[m] # "fetch"
  BY InHand DEF DeliveryInv
<1>2. Done(windows, ClusterOf[m], Topic[p][n])
  BY DEF DeliveryInv, HandDone, EventOf
<1>3. SeenUpTo(windows, Group[m], p, n - 1)
  BY <1>1 DEF DeliveryInv, BeforeHandSeen
<1> HIDE DEF p, n
<1>4. ASSUME NEW i \in 1 .. n PROVE SeenTo(windows, Group[m], p, i)
  <2>1. CASE i = n
    BY <1>2, <2>1 DEF SeenTo
  <2>2. CASE i # n
    <3>1. i \in 1 .. (n - 1)
      BY <1>1, <2>2
    <3> QED BY <1>3, <3>1 DEF SeenUpTo
  <2> QED BY <2>1, <2>2
<1> QED BY <1>1, <1>4 DEF SeenUpTo, p, n

\* A partition whose reader is fetching was seen to up to the reader's position.
LEMMA SeenFetched ==
    ASSUME DeliveryInv, NEW g \in Groups, NEW p \in Partitions, pc[reader[g][p]] = "fetch"
    PROVE  SeenUpTo(windows, g, p, position[g][p])
BY DEF DeliveryInv, FetchedSeen

LEMMA CommittedSeenStep == DeliveryInv /\ [Next]_vars => CommittedSeen'
<1> SUFFICES ASSUME DeliveryInv, [Next]_vars, NEW g \in Groups, NEW p \in Partitions
             PROVE  SeenUpTo(windows', g, p, committed'[g][p])
  BY DEF CommittedSeen
<1>0. TypeInv /\ committed \in [Groups -> [Partitions -> Nat]] /\ committed[g][p] \in Nat
  BY DEF DeliveryInv, TypeInv, TypeOK
<1>1. CASE committed'[g][p] = committed[g][p]
  <2>1. SeenUpTo(windows, g, p, committed[g][p])
    BY DEF DeliveryInv, CommittedSeen
  <2> QED BY <1>0, <1>1, <2>1, SeenStays
<1>2. ASSUME NEW m \in Members, NEW ok \in BOOLEAN, Commit(m, ok),
             committed'[g][p] # committed[g][p]
      PROVE  SeenUpTo(windows', g, p, committed'[g][p])
  <2>1. pc[m] = "commit" /\ committed' = [committed EXCEPT ![Group[m]][msg[m][1]] = msg[m][2]]
    BY <1>2 DEF Commit
  <2>2. g = Group[m] /\ p = msg[m][1] /\ committed'[g][p] = msg[m][2]
    BY <1>0, <1>2, <2>1
  <2>3. SeenUpTo(windows, g, p, msg[m][2]) /\ msg[m][2] \in Nat
    BY <1>0, <2>1, <2>2, SeenHand, InHand
  <2> QED BY <1>0, <2>2, <2>3, SeenStays
<1>3. committed' = committed \/ \E m \in Members, ok \in BOOLEAN : Commit(m, ok)
  BY DEF Next, Step, Validate, Fetch, Create, Crash, Rebalance, vars
<1> QED BY <1>1, <1>2, <1>3

LEMMA BeforeHandStep == DeliveryInv /\ [Next]_vars => BeforeHandSeen' /\ HandDone'
<1> SUFFICES ASSUME DeliveryInv, [Next]_vars, NEW m \in Members
             PROVE  /\ pc'[m] # "fetch" =>
                          SeenUpTo(windows', Group[m], msg'[m][1], msg'[m][2] - 1)
                    /\ pc'[m] = "commit" =>
                          Done(windows', ClusterOf[m], Topic[msg'[m][1]][msg'[m][2]])
  BY DEF BeforeHandSeen, HandDone, EventOf
<1>0. TypeInv /\ DOMAIN msg = Members /\ DOMAIN pc = Members
  BY DEF DeliveryInv, TypeInv, TypeOK
<1>a. ASSUME pc[m] # "fetch", msg'[m] = msg[m]
      PROVE  SeenUpTo(windows', Group[m], msg'[m][1], msg'[m][2] - 1)
  <2>1. msg[m][1] \in Partitions /\ msg[m][2] - 1 \in Nat
    BY <1>0, <1>a, InHand
  <2>2. SeenUpTo(windows, Group[m], msg[m][1], msg[m][2] - 1)
    BY <1>a DEF DeliveryInv, BeforeHandSeen
  <2> QED BY <1>0, <1>a, <2>1, <2>2, SeenStays
<1>1. CASE pc'[m] = pc[m] /\ msg'[m] = msg[m]
  <2>1. pc[m] = "commit" => Done(windows', ClusterOf[m], EventOf(m))
    <3>1. ClusterOf[m] \in Clusters
      BY DEF Clusters
    <3> QED BY <1>0, <3>1, InHand, DoneStays DEF DeliveryInv, HandDone
  <2> QED BY <1>1, <1>a, <2>1 DEF EventOf
<1>2. CASE Create(m)
  <2>1. pc[m] = "create" /\ UNCHANGED msg
    BY <1>2 DEF Create
  <2>2. Done(windows', ClusterOf[m], EventOf(m))
    BY <1>0, <1>2, CreateWrites DEF Done
  <2> QED BY <1>a, <2>1, <2>2 DEF EventOf
<1>3. CASE (\E ok \in BOOLEAN : Commit(m, ok)) \/ Crash(m)
  <2>1. pc'[m] = "fetch"
    BY <1>0, <1>3 DEF Commit, Crash
  <2> QED BY <2>1
<1>4. ASSUME NEW p \in Partitions, Fetch(m, p)
      PROVE  /\ SeenUpTo(windows', Group[m], msg'[m][1], msg'[m][2] - 1)
             /\ pc'[m] = "commit" => Done(windows', ClusterOf[m], Topic[msg'[m][1]][msg'[m][2]])
  <2> DEFINE g == Group[m]
             n == position[g][p] + 1
  <2>1. /\ g \in Groups /\ position[g][p] \in Nat /\ pc[reader[g][p]] = "fetch"
        /\ msg' = [msg EXCEPT ![m] = <<p, n>>]
        /\ pc' = [pc EXCEPT ![m] = IF Wanted(ClusterOf[m], Topic[p][n]) THEN "create" ELSE "commit"]
    BY <1>0, <1>4 DEF Fetch, Groups, TypeInv, TypeOK
  <2>2. SeenUpTo(windows, g, p, n - 1) /\ n - 1 \in Nat
    BY <2>1, SeenFetched
  <2> HIDE DEF g, n
  <2>3. msg'[m][1] = p /\ msg'[m][2] = n
    BY <1>0, <2>1
  <2>4. pc'[m] = "commit" => ~Wanted(ClusterOf[m], Topic[p][n])
    BY <1>0, <2>1
  <2>5. SeenUpTo(windows', g, p, n - 1)
    BY <1>0, <2>2, SeenStays
  <2> QED BY <2>3, <2>4, <2>5 DEF Done, g
<1> QED BY <1>0, <1>1, <1>2, <1>3, <1>4, MemberSteps

LEMMA FetchedSeenStep == DeliveryInv /\ [Next]_vars => FetchedSeen'
<1> SUFFICES ASSUME DeliveryInv, [Next]_vars, NEW g \in Groups, NEW p \in Partitions
             PROVE  \/ SeenUpTo(windows', g, p, position'[g][p])
                    \/ /\ pc'[reader'[g][p]] # "fetch"
                       /\ msg'[reader'[g][p]] = <<p, position'[g][p]>>
  BY DEF FetchedSeen
<1> DEFINE m == reader[g][p]
<1>0. /\ TypeInv /\ m \in Members /\ Group[m] = g
      /\ position[g][p] \in Nat /\ committed[g][p] \in Nat
      /\ position \in [Groups -> [Partitions -> Nat]]
      /\ reader \in [Groups -> [Partitions -> Members]]
      /\ DOMAIN msg = Members /\ DOMAIN pc = Members
  BY DEF DeliveryInv, TypeInv, TypeOK
<1> HIDE DEF m
\* The partition starts again at the committed offset.
<1>1. CASE position'[g][p] = committed[g][p]
  <2>1. SeenUpTo(windows, g, p, committed[g][p])
    BY DEF DeliveryInv, CommittedSeen
  <2> QED BY <1>0, <1>1, <2>1, SeenStays
\* What was seen to stays so.
<1>2. CASE position'[g][p] = position[g][p] /\ SeenUpTo(windows, g, p, position[g][p])
  BY <1>0, <1>2, SeenStays
\* The reader takes a step of its own while the last event is in hand.
<1>3. CASE /\ position'[g][p] = position[g][p] /\ reader'[g][p] = m
           /\ pc[m] # "fetch" /\ msg[m] = <<p, position[g][p]>>
  <2>1. CASE pc'[m] # "fetch" /\ msg'[m] = msg[m]
    BY <1>3, <2>1
  <2>2. CASE \E ok \in BOOLEAN : Commit(m, ok)
    <3>1. pc[m] = "commit"
      BY <2>2 DEF Commit
    <3>2. SeenUpTo(windows, g, p, position[g][p])
      BY <1>0, <1>3, <3>1, SeenHand
    <3> QED BY <1>2, <1>3, <3>2
  <2>3. CASE Crash(m)
    <3>1. position' = [position EXCEPT ![g] =
                          [q \in Partitions |-> IF reader[g][q] = m THEN committed[g][q] ELSE @[q]]]
      BY <1>0, <2>3 DEF Crash
    <3>2. position'[g][p] = committed[g][p]
      BY <1>0, <3>1 DEF m
    <3> QED BY <1>1, <3>2
  <2>4. CASE Create(m)
    BY <1>0, <1>3, <2>4 DEF Create
  <2>5. ~\E q \in Partitions : Fetch(m, q)
    BY <1>3 DEF Fetch
  <2> QED BY <1>0, <1>3, <2>1, <2>2, <2>3, <2>4, <2>5, MemberSteps
\* The reader fetches the next event.
<1>4. CASE Fetch(m, p)
  <2>1. /\ position' = [position EXCEPT ![g][p] = position[g][p] + 1]
        /\ msg' = [msg EXCEPT ![m] = <<p, position[g][p] + 1>>]
        /\ pc'[m] # "fetch" /\ reader' = reader
    BY <1>0, <1>4 DEF Fetch
  <2>2. position'[g][p] = position[g][p] + 1 /\ msg'[m] = <<p, position[g][p] + 1>>
    BY <1>0, <2>1
  <2> QED BY <2>1, <2>2 DEF m
<1>5. \/ position'[g][p] = committed[g][p]
      \/ Fetch(m, p)
      \/ position'[g][p] = position[g][p] /\ reader'[g][p] = m
  <2>1. ASSUME NEW k \in Members, NEW q \in Partitions, Fetch(k, q)
        PROVE  Fetch(m, p) \/ (position'[g][p] = position[g][p] /\ reader'[g][p] = m)
    <3>1. /\ position' = [position EXCEPT ![Group[k]][q] = position[Group[k]][q] + 1]
          /\ reader' = reader /\ reader[Group[k]][q] = k
      BY <2>1 DEF Fetch
    <3>2. CASE g = Group[k] /\ p = q
      BY <2>1, <3>1, <3>2 DEF m
    <3>3. CASE ~(g = Group[k] /\ p = q)
      BY <1>0, <3>1, <3>3 DEF m
    <3> QED BY <3>2, <3>3
  <2>2. ASSUME NEW k \in Members, Crash(k)
        PROVE  position'[g][p] = committed[g][p]
               \/ (position'[g][p] = position[g][p] /\ reader'[g][p] = m)
    <3>1. /\ position' = [position EXCEPT ![Group[k]] =
                [r \in Partitions |-> IF reader[Group[k]][r] = k THEN committed[Group[k]][r] ELSE @[r]]]
          /\ reader' = reader
      BY <2>2 DEF Crash
    <3> QED BY <1>0, <3>1 DEF m
  <2>3. ASSUME NEW h \in Groups, NEW q \in Partitions, NEW k \in Members, Rebalance(h, q, k)
        PROVE  position'[g][p] = committed[g][p]
               \/ (position'[g][p] = position[g][p] /\ reader'[g][p] = m)
    BY <1>0, <2>3 DEF Rebalance, m
  <2>4. CASE UNCHANGED <<position, reader>>
    BY <2>4 DEF m
  <2> QED BY <2>1, <2>2, <2>3, <2>4 DEF Next, Step, Validate, Create, Commit, vars
<1> QED BY <1>1, <1>2, <1>3, <1>4, <1>5 DEF DeliveryInv, FetchedSeen, m

LEMMA DeliveryStep == DeliveryInv /\ [Next]_vars => DeliveryInv'
<1>1. DeliveryInv /\ [Next]_vars => TypeInv'
  BY TypeStep DEF DeliveryInv
<1> QED BY <1>1, CommittedSeenStep, BeforeHandStep, FetchedSeenStep DEF DeliveryInv

\* Fetch, create, commit: for every topic and every order of crashes, rebalances,
\* repeated deliveries and failed commits, an event that a group has committed
\* was handled in the cluster of one of its members.
THEOREM CommittedAlwaysHandled == Spec => []CommittedIsHandled
<1>1. DeliveryInv => CommittedIsHandled
  <2> SUFFICES ASSUME DeliveryInv, NEW g \in Groups, NEW p \in Partitions,
                      NEW i \in 1 .. committed[g][p]
               PROVE  \E m \in Members : Group[m] = g /\ Handled(ClusterOf[m], Topic[p][i])
    BY DEF CommittedIsHandled
  <2> QED BY DEF DeliveryInv, CommittedSeen, SeenUpTo, SeenTo, Done, Handled
<1> QED BY <1>1, DeliveryInit, DeliveryStep, PTL DEF Spec

-----------------------------------------------------------------------------
(* The order of events.                                                    *)

\* The first event of partition p that announces name n in cluster c is the i-th.
FirstAt(c, n, p, i) == \A j \in 1 .. i - 1 : ~Announces(Topic[p][j], c, n)
FirstInv == DeliveryInv /\ FirstEventWins

\* What a member creates is the first of its kind in the partition: the earlier
\* ones were seen to in the same cluster, and would have left a window.
LEMMA CreatesFirst ==
    ASSUME DeliveryInv, NEW m \in Members, HasOwnGroups(ClusterOf[m]), Create(m),
           windows[ClusterOf[m]][NameOf[EventOf(m).chg]] = NoEvent
    PROVE  FirstAt(ClusterOf[m], NameOf[EventOf(m).chg], msg[m][1], msg[m][2])
<1> DEFINE p == msg[m][1]
           i == msg[m][2]
           c == ClusterOf[m]
           n == NameOf[EventOf(m).chg]
<1>1. SeenUpTo(windows, Group[m], p, i - 1)
  BY DEF DeliveryInv, BeforeHandSeen, Create
<1>2. ASSUME NEW j \in 1 .. i - 1 PROVE ~Announces(Topic[p][j], c, n)
  <2>1. PICK k \in Members : Group[k] = Group[m] /\ Done(windows, ClusterOf[k], Topic[p][j])
    BY <1>1, <1>2 DEF SeenUpTo, SeenTo
  <2>2. Done(windows, c, Topic[p][j])
    BY <2>1 DEF HasOwnGroups
  <2> QED BY <2>2 DEF Done, Announces
<1> QED BY <1>2 DEF FirstAt

LEMMA FirstStep == FirstInv /\ [Next]_vars => FirstInv'
<1> SUFFICES ASSUME FirstInv, [Next]_vars PROVE FirstInv'
  OBVIOUS
<1>0. DeliveryInv /\ TypeInv /\ DeliveryInv'
  BY DeliveryStep DEF FirstInv, DeliveryInv
<1>1. ASSUME NEW c \in Clusters, NEW n \in Names, HasOwnGroups(c), windows'[c][n] # NoEvent
      PROVE  \E p \in Partitions : \E i \in DOMAIN Topic[p] :
                Topic[p][i] = windows'[c][n] /\ FirstAt(c, n, p, i)
  <2>1. CASE windows'[c][n] = windows[c][n]
    BY <1>1, <2>1 DEF FirstInv, FirstEventWins, FirstAt
  <2>2. ASSUME NEW m \in Members, Create(m), windows'[c][n] # windows[c][n]
        PROVE  \E p \in Partitions : \E i \in DOMAIN Topic[p] :
                  Topic[p][i] = windows'[c][n] /\ FirstAt(c, n, p, i)
    <3>1. /\ windows'[c][n] = EventOf(m) /\ c = ClusterOf[m] /\ n = NameOf[EventOf(m).chg]
          /\ windows[c][n] = NoEvent
      BY <1>0, <2>2, CreateWrites, WindowsStay
    <3>2. msg[m][1] \in Partitions /\ msg[m][2] \in DOMAIN Topic[msg[m][1]]
      <4>1. /\ msg[m][1] \in Partitions /\ msg[m][2] \in Nat \ {0}
            /\ msg[m][2] <= Len(Topic[msg[m][1]])
        BY <1>0, <2>2, InHand DEF Create
      <4> QED BY <4>1, BridgeAssumption
    <3>3. FirstAt(c, n, msg[m][1], msg[m][2])
      BY <1>0, <1>1, <2>2, <3>1, CreatesFirst
    <3> QED BY <3>1, <3>2, <3>3 DEF EventOf
  <2> QED BY <2>1, <2>2, OnlyCreateWrites
<1> QED BY <1>0, <1>1 DEF FirstInv, FirstEventWins, FirstAt

\* Fetch, create, commit: for a cluster that has its groups to itself, for every topic and
\* every order of crashes, rebalances, repeated deliveries and failed commits, the
\* window of a name is the one its first event announced.
THEOREM FirstEventAlwaysWins == Spec => []FirstEventWins
<1>1. Init => FirstInv
  <2> SUFFICES ASSUME Init PROVE FirstInv
    OBVIOUS
  <2>1. \A c \in Clusters, n \in Names : windows[c][n] = NoEvent
    BY DEF Init
  <2> QED BY <2>1, DeliveryInit DEF FirstInv, FirstEventWins
<1>2. FirstInv => FirstEventWins
  BY DEF FirstInv
<1> QED BY <1>1, <1>2, FirstStep, PTL DEF Spec
=============================================================================
