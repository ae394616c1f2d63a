---------------------------- MODULE MCChangeWindow ----------------------------
(***************************************************************************)
(* Instances of ChangeWindow for TLC.                                      *)
(***************************************************************************)
EXTENDS ChangeWindow

\* A row that passes every gate.
Good == [ health |-> "Healthy", ops |-> "ok", mcp |-> "ok", events |-> {},
          objectsFail |-> FALSE, depsUnready |-> FALSE, hco |-> "Healthy",
          virtHandler |-> TRUE, stalled |-> FALSE, unmigratable |-> FALSE,
          cv |-> "available", platformOps |-> "deployed", versioned |-> TRUE, maintenance |-> FALSE ]

InSyncRow    == [state |-> "InSync", obs |-> Good]
DivergedRow  == [state |-> "Diverged", obs |-> Good]
UpgradingRow == [state |-> "InSync", obs |-> [Good EXCEPT !.cv = "progressing"]]

TwoContents     == {InSyncRow, DivergedRow}
GoodContents    == {InSyncRow}
UpgradeContents == {InSyncRow, UpgradingRow}
=============================================================================
