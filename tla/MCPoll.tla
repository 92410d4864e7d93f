------------------------------- MODULE MCPoll -------------------------------
(***************************************************************************)
(* Poll with one trusted id and two that share the slow lane.              *)
(***************************************************************************)
EXTENDS Poll

CONSTANTS rpm, soot, ash

MCParams == {rpm, soot, ash}
MCTrusted == {rpm}
MCSelections == {<<rpm, soot>>, <<soot, ash, rpm>>}
MCBothSlow == {<<soot, ash, rpm>>}
=============================================================================
