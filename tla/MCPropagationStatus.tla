------------------------- MODULE MCPropagationStatus -------------------------
(***************************************************************************)
(* Instances of PropagationStatus for TLC.                                 *)
(***************************************************************************)
EXTENDS PropagationStatus

OneTarget  == {<<"east">>}
EastOrBoth == {<<"east">>, <<"east", "west">>}
Found(r, s) == [revision |-> r, sync |-> s]
SyncedOrNot == {Found("v1", "Synced"), Found("v1", "OutOfSync")}
OnFirst     == {Found("v1", "Synced")}
=============================================================================
