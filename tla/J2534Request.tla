--------------------------- MODULE J2534Request ---------------------------
(***************************************************************************)
(* J2534Transport (python/volvo_diag/transport/j2534.py): a request over   *)
(* ISO15765, where the driver assembles the messages.  The driver's        *)
(* channel, its filters and its receive queue are external; the simulator  *)
(* in fake-j2534 is one such driver.                                       *)
(***************************************************************************)
EXTENDS Vehicle

CONSTANT Batch  \* messages asked for in one PassThruReadMsgs, 8

ASSUME BatchAssumption == Batch \in Nat \ {0}

VARIABLES
  filters,  \* _filters: the addresses a filter was started for
  passes,   \* the addresses the driver's channel lets through
  rx        \* the channel's receive queue

j2534 == <<filters, passes, rx>>

(* An item of the queue: the echo of a frame sent, the indication of a first *)
(* frame, or a message.                                                      *)
Item(type, reply) == [type |-> type, ecu |-> reply.ecu, reply |-> reply]

Long(reply) == reply.kind = "positive" /\ reply.service \in {"did", "label"}

J2534Init == filters = {} /\ passes = {} /\ rx = <<>>

-----------------------------------------------------------------------------
(* open: PassThruOpen, PassThruConnect, SET_CONFIG (whose refusal only warns). *)
J2534Open == Opened /\ passes' = {} /\ rx' = <<>> /\ UNCHANGED filters

(* PassThruOpen or PassThruConnect refuses: what was opened is closed again. *)
J2534OpenFails == OpenFails /\ filters' = {} /\ passes' = {} /\ rx' = <<>>

(* mutant: the filters are remembered across a close *)
KeepFilters == filters

DropFilters == {}

(* close: the channel goes with its filters and its queue. *)
J2534Close == Closed /\ filters' = DropFilters /\ passes' = {} /\ rx' = <<>>

(* _ensure_filter and PassThruWriteMsgs.  The adapter confirms what it sent in *)
(* the receive queue; what else is in it stays.                              *)
J2534Write ==
  /\ Busy /\ ~written
  /\ filters' = filters \cup {call.ecu}
  /\ passes' = IF call.ecu \in filters THEN passes ELSE passes \cup {call.ecu}
  /\ rx' = Append(rx, [type |-> "done", ecu |-> call.ecu, reply |-> NoCall])
  /\ Sent(call.ecu)

(* The driver refuses the filter or the message. *)
J2534WriteFails ==
  /\ Busy /\ ~written
  /\ \/ UNCHANGED <<filters, passes>>
     \/ filters' = filters \cup {call.ecu} /\ passes' = passes \cup {call.ecu}
  /\ Fails(Error)
  /\ UNCHANGED rx

(* mutant: the id of a message is not compared *)
UsableAny(item) == item.type = "message"

(* _read_one: not our own frame, not an indication, from the address asked. *)
Usable(item) == item.type = "message" /\ item.ecu = call.ecu

(* One PassThruReadMsgs: of the messages it fetched, the first that is usable is *)
(* taken; the others are gone.                                               *)
J2534Read ==
  /\ Busy /\ written /\ rx # <<>>
  /\ \E n \in 1 .. Batch :
       /\ n <= Len(rx)
       /\ rx' = SubSeq(rx, n + 1, Len(rx))
       /\ LET good == {i \in 1 .. n : Usable(rx[i])}
          IN  IF good = {} THEN Idle
              ELSE Receives(rx[CHOOSE i \in good : \A k \in good : i <= k].reply, TRUE)
  /\ UNCHANGED <<filters, passes>>

J2534ReadFails == Busy /\ written /\ Fails(Error) /\ UNCHANGED j2534

(* The deadline passes, whatever has just come; every responsePending moves it. *)
J2534Timeout == Busy /\ written /\ Fails(Timeout) /\ UNCHANGED j2534

(* A module speaks: through the filters, with an indication before a message of *)
(* several frames.                                                           *)
J2534Hears(e, kind) ==
  /\ Says(e, kind)
  /\ kind = "pending" =>
       Cardinality({i \in DOMAIN rx : rx[i].type = "message" /\ rx[i].reply.kind = kind}) < MaxPending
  /\ LET reply == Reply(due[e][1], kind)
     IN  rx' = IF e \notin passes THEN rx
               ELSE rx \o (IF Long(reply) THEN <<Item("start", reply)>> ELSE <<>>)
                       \o <<Item("message", reply)>>
  /\ UNCHANGED <<filters, passes>>

J2534Step ==
  \/ J2534Write \/ J2534WriteFails \/ J2534Read \/ J2534ReadFails \/ J2534Timeout
  \/ J2534Close

J2534Next ==
  \/ J2534Open \/ J2534OpenFails \/ J2534Step
  \/ \E e \in Ecus, kind \in Kinds : J2534Hears(e, kind)

-----------------------------------------------------------------------------
(* While a request over J2534 waits, the channel lets its answer through: the   *)
(* filters remembered are the filters the open channel has, whatever was     *)
(* closed, reopened or refused before.                                       *)
AnswersPass == session = "open" => filters \subseteq passes
=============================================================================
