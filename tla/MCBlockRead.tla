----------------------------- MODULE MCBlockRead -----------------------------
(* An identity block of three frames and a configuration block of eleven, long *)
(* enough for its marker to come round and for eight frames to go missing.   *)
EXTENDS BlockRead

CONSTANTS fb, fc

MCFinal(b) == IF b = fb THEN 2 ELSE 10

(* docs/config.md: the identity counts 0 .. 7, the configuration 8 .. 15. *)
MCBase(b) == IF b = fb THEN 0 ELSE 8
=============================================================================
