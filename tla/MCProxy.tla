------------------------------ MODULE MCProxy ------------------------------
(* Two threads; a write of two identifiers to one module, and one of a service     *)
(* without identifiers; a driver without the entry point it must have, one   *)
(* without the entry point that writes, and a complete one; a configuration  *)
(* that the environment overrides.  In the logs an identifier is asked of    *)
(* two modules on one channel, and on both channels; a second one is refused.*)
EXTENDS LogAnalysis

CONSTANTS t1, t2, cem, dim

Read(module, item) == [module |-> module, service |-> "read", item |-> item]
Clear == [module |-> dim, service |-> "clear", item |-> 1]

MCAsks == {Read(cem, 1), Read(cem, 2), Read(dim, 1), Clear}
MCWrites == {[channel |-> 1, asks |-> <<Read(cem, 1), Read(cem, 2)>>],
             [channel |-> 2, asks |-> <<Clear>>]}
MCLogged == {[channel |-> 1, ask |-> ask] : ask \in MCAsks \ {Clear}}
              \cup {[channel |-> 2, ask |-> Read(cem, 1)]}
MCSelective == {"read"}
MCAnswers ==
  [ask \in MCAsks |-> IF ask = Read(cem, 1) THEN {"positive", "pending"}
                      ELSE IF ask = Read(cem, 2) THEN {"negative"} ELSE {"positive"}]
MCExports == {{"read"}, {"open", "read"}, {"open", "write", "read", "get_last_error"}}
MCIniFiles ==
  {[logging |-> "off", emptyReads |-> "unset", lastErrors |-> "unset", flushEach |-> "off"]}
=============================================================================
