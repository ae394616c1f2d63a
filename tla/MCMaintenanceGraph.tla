-------------------------- MODULE MCMaintenanceGraph --------------------------
(***************************************************************************)
(* An instance of MaintenanceGraph for TLC: one value of every kind is     *)
(* normal, the others are the faults the readers and gates tell apart.     *)
(* A page holds one object, so that some faults are on no page that is     *)
(* read.                                                                   *)
(***************************************************************************)
EXTENDS MaintenanceGraph, TLC

Names     == <<"master", "virt-worker", "worker">>
Preferred == <<"virt-worker", "virt", "worker">>

Pool(m, r, u, un, d) ==
    [machines |-> m, ready |-> r, updated |-> u, unavailable |-> un, degraded |-> d, aligned |-> TRUE]
Settled  == Pool(2, 2, 2, 0, 0)
Unsettled == << Pool(2, 2, 1, 0, 0), Pool(2, 1, 2, 0, 0), Pool(2, 2, 2, 1, 0), Pool(2, 2, 0, 0, 1),
                [Settled EXCEPT !.aligned = FALSE] >>
WorkerOnly(p) == "worker" :> p
TwoPools(v, w) == ("virt-worker" :> v) @@ ("worker" :> w)
PoolValues ==
    <<WorkerOnly(Settled)>> \o [i \in DOMAIN Unsettled |-> WorkerOnly(Unsettled[i])]
        \o <<TwoPools(Settled, Pool(2, 1, 1, 0, 0)), None>>

Op(a, d) == [available |-> a, degraded |-> d]
OperatorValues ==
    << ("network" :> Op(TRUE, FALSE)) @@ ("storage" :> Op(TRUE, FALSE)) @@ ("dns" :> Op(TRUE, FALSE)),
       ("network" :> Op(FALSE, FALSE)) @@ ("storage" :> Op(TRUE, FALSE)),
       ("network" :> Op(TRUE, FALSE)) @@ ("storage" :> Op(TRUE, TRUE)),
       ("network" :> Op(TRUE, FALSE)) @@ ("dns" :> Op(FALSE, TRUE)), None >>

Version(p, a) == [version |-> "v1", desired |-> "v1", progressing |-> p, available |-> a]
VersionValues ==
    << Version(FALSE, TRUE), Version(TRUE, TRUE), Version(FALSE, FALSE),
       [Version(FALSE, FALSE) EXCEPT !.version = ""], None >>

Phase(p) == [phase |-> p, observed |-> "v1"]
Starting == [phase |-> "", observed |-> ""]

Handlers(d, r) == "ds" :> [desired |-> d, ready |-> r]
Migration(p, s) == [phase |-> p, stalled |-> s]
Vmi(m, p) == [migratable |-> m, passthrough |-> p]

AllValues ==
    [ pools |-> PoolValues, operators |-> OperatorValues, cv |-> VersionValues,
      kubevirt |-> <<Phase("Deployed"), Phase("Deploying")>>,
      cdi |-> <<Phase("Deployed"), Starting, None>>, ssp |-> <<Phase("Deployed"), Phase("Deploying")>>,
      maintenance |-> << "n1" :> "Succeeded", "n1" :> "", ("n1" :> "Running") @@ ("n2" :> "Succeeded") >>,
      hco |-> <<"ok", "degraded", "absent">>,
      handlers |-> << Handlers(2, 2), Handlers(2, 1) >>,
      migrations |-> << "m1" :> Migration("Running", FALSE), "m1" :> Migration("Running", TRUE),
                        ("m1" :> Migration("Running", FALSE)) @@ ("m2" :> Migration("", TRUE)) >>,
      vmis |-> << "vm1" :> Vmi(TRUE, FALSE), "vm1" :> Vmi(FALSE, FALSE),
                  ("vm1" :> Vmi(TRUE, TRUE)) @@ ("vm2" :> Vmi(TRUE, FALSE)) >>,
      daemons |-> << "d1" :> "Running", "d1" :> "Pending" >>,
      nodes |-> << "n1" :> TRUE, ("n1" :> TRUE) @@ ("n2" :> FALSE), ("n1" :> FALSE) @@ ("n2" :> FALSE) >> ]

NoneOrPools == {{}, {"pools"}}
=============================================================================
