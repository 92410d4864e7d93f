----------------------------- MODULE MCDashboard -----------------------------
(***************************************************************************)
(* Dashboard with one parameter on each of the P1 profile's buses, and one *)
(* page or two tabs.                                                       *)
(***************************************************************************)
EXTENDS Dashboard

CONSTANTS hs, ls, rpm, fuel

MCBuses == {hs, ls}
MCKeys == {rpm, fuel}
MCKeysOn(b) == IF b = hs THEN {rpm} ELSE {fuel}
=============================================================================
