------------------------------ MODULE MCBackend ------------------------------
(***************************************************************************)
(* Backend on the P1 profile's two buses: the engine answers on hs, the    *)
(* instrument panel on ls, and the CEM (the configuration module) on both. *)
(***************************************************************************)
EXTENDS Backend

CONSTANTS hs, ls, unknown

MCBuses == {hs, ls}
MCRequested == {hs, ls, unknown}

(* ECM = 1, DIM = 2, CEM = 3, in the order of their group numbers *)
MCModules == 1 .. 3
MCModulesOn(b) == IF b = hs THEN {1, 3} ELSE {2, 3}
=============================================================================
