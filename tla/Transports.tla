----------------------------- MODULE Transports -----------------------------
(***************************************************************************)
(* One command of the toolkit over the transport that --transport names    *)
(* (build_transport in python/volvo_diag/cli.py), and what can be said of  *)
(* its answers whichever it is.                                            *)
(***************************************************************************)
EXTENDS J2534Request, SocketCan, ElmObd

VARIABLE transport

vars == <<vehicle, transport, j2534, socketcan, elm>>

Init ==
  /\ VehicleInit
  /\ transport \in {"j2534", "socketcan", "elm"}
  /\ J2534Init /\ SocketCanInit /\ ElmInit

(* build_transport *)
Build(name, step) ==
  /\ transport = name /\ step
  /\ UNCHANGED transport
  /\ name # "j2534" => UNCHANGED j2534
  /\ name # "socketcan" => UNCHANGED socketcan
  /\ name # "elm" => UNCHANGED elm

Command == (Ask \/ Take) /\ UNCHANGED <<transport, j2534, socketcan, elm>>

Silent == (\E e \in Ecus : Ignore(e)) /\ UNCHANGED <<transport, j2534, socketcan, elm>>

Next ==
  \/ Command \/ Silent
  \/ Build("j2534", J2534Next)
  \/ Build("socketcan", SocketCanNext)
  \/ Build("elm", ElmNext)

(* The program goes on as long as it can; nothing makes a module answer or the  *)
(* transport open.  An ELM327 request ends by the clock alone, however often *)
(* it has been repeated.                                                     *)
TransportFairness ==
  /\ WF_vars(Command)
  /\ WF_vars(Build("j2534", J2534Step))
  /\ WF_vars(Build("socketcan", SocketCanStep))
  /\ WF_vars(Build("elm", ElmStep))
  /\ SF_vars(Build("elm", ElmGiveUp))

Spec == Init /\ [][Next]_vars /\ TransportFairness

-----------------------------------------------------------------------------
(* Properties *)

(* The transport keeps what base.py promises: only what the addressed module has *)
(* said is returned, responsePending never.                                  *)
Contract == INSTANCE RequestReply

ImplementsContract == Contract!Spec

(* What a command shows is what the module it asked has said, and where the      *)
(* answer names its service and identifier it is the one asked for: answers  *)
(* that come late, stay in a queue or belong to another module are never     *)
(* shown as somebody else's.                                                 *)
ShownIsTrue ==
  \A s \in shown :
    /\ s.reply.ecu = s.request.ecu
    /\ s.request.service \notin {"tester", "hex"} =>
         s.reply.kind = "positive" /\ s.reply.service = s.request.service
    /\ s.request.service \in {"did", "label", "pid"} => s.reply.id = s.request.id

(* An answer to an earlier request is taken for this one's only if a request to *)
(* that module has failed before.  (An ELM327 repeats requests, which then   *)
(* are answered twice.)                                                      *)
StaleOnlyAfterFailure ==
  \A s \in shown :
    transport # "elm" /\ s.reply.n # s.request.n => s.request.ecu \in failed

(* Consecutive frames that are lost, first frames of late answers and answers of *)
(* two modules at once never make a message out of parts.  (A lost first     *)
(* frame can, and an ELM327 may be read before its prompt.)                  *)
AnswersWhole == transport # "elm" /\ ~headLost => whole

(* Every command comes to its end, whatever the modules say: silence and endless *)
(* responsePending included.                                                 *)
CommandEnds == (session = "open") ~> (session # "open" \/ pos = Over)
=============================================================================
