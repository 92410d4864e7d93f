------------------------------- MODULE MCTrip -------------------------------
(***************************************************************************)
(* Trip with a trusted temperature and two ids that share the slow lane,   *)
(* one of them the regeneration flag under a key of its own.               *)
(***************************************************************************)
EXTENDS Trip

CONSTANTS egt, regen, ash

MCParams == {egt, regen, ash}
MCTrusted == {egt}
MCSelections == {<<egt, regen>>, <<regen, ash, egt>>}
MCRoles == <<"egt", "regen">>
MCExact(r) == IF r = "egt" THEN <<egt>> ELSE <<>>
MCSimilar(r) == IF r = "egt" THEN {egt} ELSE {regen}
=============================================================================
