---------------------------- MODULE MCDriftSystem ----------------------------
(***************************************************************************)
(* Instances of DriftSystem for TLC.                                       *)
(***************************************************************************)
EXTENDS DriftSystem

OneTarget == <<"east">>

EitherRevision == {[revision |-> r, sync |-> "Synced"] : r \in {"v1", "v2"}}

\* A report that passes every gate.
Good == [ health |-> "Healthy", ops |-> "ok", mcp |-> "ok", events |-> {},
          objectsFail |-> FALSE, depsUnready |-> FALSE, hco |-> "Healthy",
          virtHandler |-> TRUE, stalled |-> FALSE, unmigratable |-> FALSE,
          cv |-> "available", platformOps |-> "deployed", versioned |-> TRUE, maintenance |-> FALSE ]
=============================================================================
