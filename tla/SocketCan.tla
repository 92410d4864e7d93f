----------------------------- MODULE SocketCan -----------------------------
(***************************************************************************)
(* SocketCanTransport (python/volvo_diag/transport/socketcan.py): ISO-TP   *)
(* sockets of the kernel where there are any, otherwise a raw CAN socket   *)
(* with the segmentation of IsoTp.  The kernel and the bus are external:   *)
(* frames keep their order and may get lost; a kernel socket returns whole *)
(* messages.                                                               *)
(***************************************************************************)
EXTENDS Vehicle, IsoTp

CONSTANTS
  Frames,   \* consecutive frames of a long payload
  MaxLost   \* bound: frames lost on the raw bus

ASSUME SocketCanAssumption == Frames \in 1 .. IndexMod - 1 /\ MaxLost \in Nat

VARIABLES
  kernel,    \* the kernel has the CAN_ISOTP protocol
  prefer,    \* prefer_kernel_isotp
  sockets,   \* _isotp: the addresses with a kernel socket
  inbox,     \* messages in each kernel socket
  bound,     \* _raw: the raw socket is there
  wire,      \* frames in the raw socket
  asm,       \* the reassembler of the raw request
  awaiting,  \* awaiting_flow_control
  asks,      \* the module that has a first frame and owes a flow control frame
  held,      \* the answer each module waits to send the rest of
  lost,      \* frames lost
  headLost   \* history: a first frame among them

socketcan == <<kernel, prefer, sockets, inbox, bound, wire, asm, awaiting, asks, held, lost, headLost>>

Payload(reply) ==
  Encode(reply, IF reply.kind = "positive" /\ reply.service \in {"did", "label"}
                  THEN Frames ELSE 0)

(* Only read <hex> sends more than seven bytes. *)
RequestFrames == IF call.service = "hex" THEN Frames ELSE 0

OnWire(e, frames) == [i \in DOMAIN frames |-> [ecu |-> e, frame |-> frames[i]]]

SocketCanInit ==
  /\ kernel \in BOOLEAN /\ prefer = TRUE
  /\ sockets = {} /\ inbox = [e \in Ecus |-> <<>>]
  /\ bound = FALSE /\ wire = <<>> /\ asm = Reset /\ awaiting = FALSE /\ asks = {}
  /\ held = [e \in Ecus |-> NoCall] /\ lost = 0 /\ headLost = FALSE

-----------------------------------------------------------------------------
(* open only notes that it was called; close closes the sockets, and what was    *)
(* local to a request is gone.                                               *)
SocketCanOpen ==
  /\ Opened /\ \A e \in Ecus : held[e] = NoCall
  /\ lost' = 0 /\ headLost' = FALSE
  /\ UNCHANGED <<kernel, prefer, sockets, inbox, bound, wire, asm, awaiting, asks, held>>

SocketCanClose ==
  /\ Closed
  /\ sockets' = {} /\ inbox' = [e \in Ecus |-> <<>>]
  /\ bound' = FALSE /\ wire' = <<>>
  /\ asm' = Reset /\ awaiting' = FALSE /\ asks' = {}
  /\ UNCHANGED <<kernel, prefer, held, lost, headLost>>

(* _isotp_socket: without the protocol it is not tried again. *)
FallBack ==
  /\ Busy /\ ~written /\ prefer /\ ~kernel
  /\ prefer' = FALSE
  /\ Idle /\ UNCHANGED <<kernel, sockets, inbox, bound, wire, asm, awaiting, asks, held, lost, headLost>>

(* A socket that cannot be bound, kernel or raw, and an OSError of the socket. *)
BindFails == Busy /\ ~written /\ Fails(Error) /\ UNCHANGED socketcan

SocketFails == Busy /\ Fails(Other) /\ UNCHANGED socketcan

(* _isotp_request: sent through the socket of the address, which may hold the   *)
(* answer to an earlier request.                                             *)
KernelWrite ==
  /\ Busy /\ ~written /\ prefer /\ kernel
  /\ sockets' = sockets \cup {call.ecu}
  /\ Sent(call.ecu)
  /\ UNCHANGED <<kernel, prefer, inbox, bound, wire, asm, awaiting, asks, held, lost, headLost>>

KernelRead ==
  /\ Busy /\ written /\ prefer /\ inbox[call.ecu] # <<>>
  /\ inbox' = [inbox EXCEPT ![call.ecu] = Tail(@)]
  /\ Receives(inbox[call.ecu][1], TRUE)
  /\ UNCHANGED <<kernel, prefer, sockets, bound, wire, asm, awaiting, asks, held, lost, headLost>>

KernelTimeout == Busy /\ written /\ prefer /\ Fails(Timeout) /\ UNCHANGED socketcan

KernelHears(e, kind) ==
  /\ kernel /\ Says(e, kind)
  /\ kind = "pending" =>
       Cardinality({i \in DOMAIN inbox[e] : inbox[e][i].kind = kind}) < MaxPending
  /\ inbox' = IF e \in sockets THEN [inbox EXCEPT ![e] = Append(@, Reply(due[e][1], kind))]
              ELSE inbox
  /\ UNCHANGED <<kernel, prefer, sockets, bound, wire, asm, awaiting, asks, held, lost, headLost>>

-----------------------------------------------------------------------------
(* _raw_request: the first or only frame, and a new reassembler.  Frames of     *)
(* earlier answers are still in the socket.                                  *)
RawWrite ==
  /\ Busy /\ ~written /\ ~prefer
  /\ asm' = Reset /\ bound' = TRUE
  /\ IF RequestFrames = 0
       THEN Sent(call.ecu) /\ awaiting' = FALSE /\ asks' = {}
       ELSE SentUnheard /\ awaiting' = TRUE /\ asks' = {call.ecu}
  /\ UNCHANGED <<kernel, prefer, sockets, inbox, wire, held, lost, headLost>>

(* A module allows the rest of a request: all of it, or some frames and then it *)
(* wants to be asked again.                                                  *)
Grant(e, blockSize) ==
  /\ e \in asks /\ ~kernel
  /\ asks' = {}
  /\ wire' = Append(wire, [ecu |-> e, frame |-> FlowControl(blockSize)])
  /\ Idle /\ UNCHANGED <<kernel, prefer, sockets, inbox, bound, asm, awaiting, held, lost, headLost>>

(* A flow control frame: consecutive frames up to the block size, and no other  *)
(* flow control frame is waited for.                                         *)
RawContinue(f) ==
  /\ IF f.index = 0 \/ f.index >= RequestFrames THEN Sent(call.ecu) ELSE Idle
  /\ awaiting' = FALSE
  /\ UNCHANGED <<asm, held>>

(* What the reassembler makes of a frame.  With a first frame the module is told *)
(* to go on.                                                                 *)
RawFeed(f) ==
  LET fed == Feed(asm, f)
  IN  /\ asm' = fed.asm
      /\ UNCHANGED awaiting
      /\ IF fed.error THEN Fails(Other)
         ELSE IF fed.message # <<>>
           THEN Receives(fed.message[1].payload, IsWhole(fed.message))
           ELSE Idle

Go(e) == held[e] # NoCall

(* The frames a module sends once it may. *)
Rest(e) == OnWire(e, Tail(Payload(held[e])))

RawRead ==
  /\ Busy /\ written /\ ~prefer /\ wire # <<>>
  /\ LET e == wire[1].ecu
         f == wire[1].frame
     IN  IF e # call.ecu
           THEN Idle /\ wire' = Tail(wire) /\ UNCHANGED <<asm, awaiting, held>>
         ELSE IF awaiting /\ f.kind = "flow"
           THEN RawContinue(f) /\ wire' = Tail(wire)
         ELSE /\ RawFeed(f)
              /\ IF Feed(asm, f).flow /\ Go(e)
                   THEN wire' = Tail(wire) \o Rest(e) /\ held' = [held EXCEPT ![e] = NoCall]
                   ELSE wire' = Tail(wire) /\ UNCHANGED held
  /\ UNCHANGED <<kernel, prefer, sockets, inbox, bound, asks, lost, headLost>>

RawTimeout == Busy /\ written /\ ~prefer /\ Fails(Timeout) /\ UNCHANGED socketcan

(* A module speaks: a single frame, or a first frame and then it waits. *)
RawHears(e, kind) ==
  /\ bound /\ held[e] = NoCall /\ Says(e, kind)
  /\ kind = "pending" =>
       Cardinality({i \in DOMAIN wire : wire[i].frame.payload.kind = kind}) < MaxPending
  /\ LET frames == Payload(Reply(due[e][1], kind))
     IN  /\ wire' = wire \o OnWire(e, <<frames[1]>>)
         /\ held' = IF Len(frames) > 1 THEN [held EXCEPT ![e] = Reply(due[e][1], kind)] ELSE held
  /\ UNCHANGED <<kernel, prefer, sockets, inbox, bound, asm, awaiting, asks, lost, headLost>>

(* Nobody told it to go on in time. *)
Abandon(e) ==
  /\ held[e] # NoCall /\ held' = [held EXCEPT ![e] = NoCall]
  /\ Idle /\ UNCHANGED <<kernel, prefer, sockets, inbox, bound, wire, asm, awaiting, asks, lost, headLost>>

LoseFrame ==
  /\ lost < MaxLost /\ lost' = lost + 1
  /\ \E i \in DOMAIN wire :
       /\ wire' = SubSeq(wire, 1, i - 1) \o SubSeq(wire, i + 1, Len(wire))
       /\ headLost' = (headLost \/ wire[i].frame.kind = "first")
  /\ Idle /\ UNCHANGED <<kernel, prefer, sockets, inbox, bound, asm, awaiting, asks, held>>

SocketCanStep ==
  \/ FallBack \/ BindFails \/ SocketFails \/ KernelWrite \/ KernelRead \/ KernelTimeout
  \/ RawWrite \/ RawRead \/ RawTimeout \/ SocketCanClose

SocketCanNext ==
  \/ SocketCanOpen \/ SocketCanStep \/ LoseFrame
  \/ \E e \in Ecus : Abandon(e)
  \/ \E e \in Ecus, kind \in Kinds : KernelHears(e, kind) \/ RawHears(e, kind)
  \/ \E e \in Ecus, blockSize \in 0 .. 1 : Grant(e, blockSize)
=============================================================================
