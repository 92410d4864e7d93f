---------------------------- MODULE RequestReply ----------------------------
(***************************************************************************)
(* What transport/base.py promises of Transport.request: one payload goes  *)
(* to an address, and what comes back is an answer of that address or an   *)
(* error; "7F xx 78" is waited out and never returned.  It promises        *)
(* nothing about which request the answer is to.                           *)
(***************************************************************************)
CONSTANTS NoCall, Waiting, Failures

VARIABLES
  call,   \* the payload under way, with its address
  answer  \* what the last request returned or raised

vars == <<call, answer>>

Init == call = NoCall /\ answer = Waiting

Ask == call = NoCall /\ answer = Waiting /\ call' # NoCall /\ UNCHANGED answer

MayReturn(reply) == reply.ecu = call.ecu /\ reply.kind # "pending"

Return ==
  /\ call # NoCall /\ answer = Waiting
  /\ call' = NoCall /\ answer' # Waiting
  /\ answer' \in Failures \/ MayReturn(answer')

(* The caller has taken the answer. *)
Take == call = NoCall /\ answer # Waiting /\ answer' = Waiting /\ UNCHANGED call

Next == Ask \/ Return \/ Take

Spec == Init /\ [][Next]_vars
=============================================================================
