---------------------------- MODULE MCCommandLine ---------------------------
(* Two modules, and for the ECM one key with both ways to read it and one with *)
(* neither before it.  A parameter list with an identifier twice, for verify. *)
(* On the bus, one sender tells of the door and one counts besides.            *)
EXTENDS CommandLine

CONSTANTS ecm, cem, latch, motor

MCAddresses == <<ecm, cem>>
MCKeys == <<"none", "rpm", "boost">>
MCIdentifiers == <<"F187", "F18A">>
MCBases == <<"00", "20">>
MCGroups == <<ecm, cem>>
MCScanned == <<"a", "b">>
MCParams == <<[module |-> ecm, id |-> "a"], [module |-> ecm, id |-> "a"], [module |-> cem, id |-> "b"]>>
MCBlocks == <<"FB", "FC">>
MCSenders == {latch, motor}
MCWidth(s) == IF s = latch THEN 1 ELSE 2
MCWants == {{latch, motor}, {motor}}
=============================================================================
