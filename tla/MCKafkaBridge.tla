---------------------------- MODULE MCKafkaBridge ----------------------------
(***************************************************************************)
(* Instances of KafkaBridge for TLC.  Members are strings because target   *)
(* lists mix cluster names with "*".                                       *)
(***************************************************************************)
EXTENDS KafkaBridge, TLC

Chg(n, t)  == [kind |-> "chg", chg |-> n, targets |-> t, rejected |-> FALSE, version |-> 1]
Resent(e)  == [e EXCEPT !.version = 2]
Skipped(k) == [kind |-> k, chg |-> "CHG1", targets |-> {}, rejected |-> FALSE, version |-> 1]

\* "CHG2" and "chg2" differ only in case.
LowerCase == ("CHG1" :> "chg1") @@ ("CHG2" :> "chg2") @@ ("chg2" :> "chg2")

\* Two operators of one cluster, before and after a leadership change, and the
\* operators of a hub and of another cluster.
Operators     == ("e1" :> "east") @@ ("e2" :> "east") @@ ("h1" :> "hub") @@ ("w1" :> "west")

\* One group name is configured for the operators of all clusters; a cluster with
\* brokers of its own has a group of that name to itself.
SharedGroup   == [m \in DOMAIN Operators |-> "drift-operator-group"]
EastApart     == [m \in DOMAIN Operators |-> IF Operators[m] = "east" THEN "group at east" ELSE "group"]

\* An aggregator beside two clusters that are named; two clusters that are named.
Aggregated    == ("east" :> "east") @@ ("hub" :> "") @@ ("west" :> "west")
Peers         == ("east" :> "east") @@ ("west" :> "west")

\* A change for one cluster, announced again in another case for all, and sent again.
MixedTopic ==
    << << Chg("CHG2", {"east"}), Skipped("noNumber"), Chg("chg2", {"*"}), Resent(Chg("CHG2", {"east"})) >> >>

SharedTopic   == << << Chg("CHG1", {"east"}), Chg("CHG2", {"east", "west"}) >> >>
=============================================================================
