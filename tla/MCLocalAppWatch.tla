--------------------------- MODULE MCLocalAppWatch ---------------------------
(***************************************************************************)
(* Instances of LocalAppWatch for TLC.                                     *)
(***************************************************************************)
EXTENDS LocalAppWatch

Names     == <<"master", "worker">>
Preferred == <<"virt-worker", "worker">>

Only(name, v) == [n \in {name} |-> v]
Pool(u) == [machines |-> 2, ready |-> 2, updated |-> u, unavailable |-> 0, degraded |-> 0, aligned |-> TRUE]
Operator == [phase |-> "Deployed", observed |-> "v1"]
Calm ==
    [ pools |-> Only("worker", Pool(2)), operators |-> Only("network", [available |-> TRUE, degraded |-> FALSE]),
      cv |-> [version |-> "v1", desired |-> "v1", progressing |-> FALSE, available |-> TRUE],
      kubevirt |-> Operator, cdi |-> Operator, ssp |-> Operator, maintenance |-> None, hco |-> "ok",
      handlers |-> Only("ds", [desired |-> 2, ready |-> 2]), migrations |-> None, vmis |-> None,
      daemons |-> None, nodes |-> None ]

\* A roll-out that drains a node.
Draining == [Calm EXCEPT !.pools["worker"] = Pool(1), !.handlers["ds"].ready = 1]

Secret  == [kind |-> "Secret", name |-> "s"]
Storage == [kind |-> "StorageClass", name |-> "c"]
Touched(t, named) == [changeType |-> t, named |-> named]
Well == [ revision |-> "r2", sync |-> "Synced", health |-> "Healthy", pool |-> "",
          resources |-> {Touched("updated", TRUE)}, deps |-> {Secret, Storage} ]
Drifted == [Well EXCEPT !.revision = "r1", !.sync = "OutOfSync",
                        !.resources = {Touched("syncfailed", TRUE), Touched("pruned", FALSE)}]
WellOrDrifted == [well |-> Well, drifted |-> Drifted]

Event(k, c, t) == [key |-> k, count |-> c, at |-> t, warning |-> TRUE, fails |-> k = "FailedMount"]
Line(s) == [signal |-> s]
Pod(n, r) == [name |-> n, ready |-> r, containers |-> <<n>>]
Noisy ==
    [ events |-> {Event("BackOff", 3, 0), Event("FailedMount", 2, 0)}, pods |-> {Pod("p", FALSE)},
      logs |-> Only("p", <<Line(FALSE), Line(TRUE)>>), resources |-> {Secret, Storage} ]

CalmOrDraining(workload, less) ==
    [ calm |-> [platform |-> Calm, workload |-> workload], draining |-> [platform |-> Draining, workload |-> less] ]

\* With the drained node go the log, the secret and the storage class.
Rich == CalmOrDraining(Noisy, [Noisy EXCEPT !.logs = None, !.resources = {}])
=============================================================================
