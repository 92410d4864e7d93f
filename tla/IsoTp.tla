------------------------------- MODULE IsoTp -------------------------------
(***************************************************************************)
(* ISO-TP segmentation (python/volvo_diag/protocol/isotp.py).  A payload   *)
(* stands for its bytes and is as long as its consecutive frames: none for *)
(* a payload of up to seven bytes.                                         *)
(***************************************************************************)
EXTENDS Integers, Sequences

CONSTANT IndexMod  \* consecutive frames count modulo 16

ASSUME IndexAssumption == IndexMod \in Nat \ {0}

Frame(kind, index, payload, total) ==
  [kind |-> kind, index |-> index, payload |-> payload, total |-> total]

(* encode *)
Encode(payload, total) ==
  IF total = 0 THEN <<Frame("single", 0, payload, 0)>>
  ELSE <<Frame("first", 0, payload, total)>>
       \o [i \in 1 .. total |-> Frame("consecutive", i % IndexMod, payload, total)]

FlowControl(blockSize) == Frame("flow", blockSize, [kind |-> "flow"], 0)

-----------------------------------------------------------------------------
(* Reassembler: the consecutive frames still expected (0 without a first frame), *)
(* the index the next one must have, and the frames in the buffer.           *)
Reset == [expected |-> 0, next |-> 1, buffer |-> <<>>]

InOrder(asm, f) == f.index = asm.next % IndexMod

(* feed: the assembler after a frame, the frames of a message completed by it, *)
(* whether a flow control frame is due and whether IsoTpError is raised.     *)
Fed(asm, message, flow, error) ==
  [asm |-> asm, message |-> message, flow |-> flow, error |-> error]

(* mutant: a first frame does not empty the buffer *)
StartKept(asm, f) ==
  [expected |-> f.total, next |-> 1, buffer |-> Append(asm.buffer, f)]

Start(asm, f) == [expected |-> f.total, next |-> 1, buffer |-> <<f>>]

Feed(asm, f) ==
  CASE f.kind = "single" -> Fed(Reset, <<f>>, FALSE, FALSE)
    [] f.kind = "first" -> Fed(Start(asm, f), <<>>, TRUE, FALSE)
    [] f.kind = "consecutive" /\ asm.expected = 0 -> Fed(asm, <<>>, FALSE, FALSE)
    [] f.kind = "consecutive" /\ asm.expected > 0 /\ ~InOrder(asm, f) ->
         Fed(asm, <<>>, FALSE, TRUE)
    [] f.kind = "consecutive" /\ asm.expected > 0 /\ InOrder(asm, f) ->
         LET buffer == Append(asm.buffer, f)
         IN  IF asm.expected = 1 THEN Fed(Reset, buffer, FALSE, FALSE)
             ELSE Fed([expected |-> asm.expected - 1, next |-> asm.next + 1, buffer |-> buffer],
                      <<>>, FALSE, FALSE)
    [] f.kind = "flow" -> Fed(asm, <<>>, FALSE, FALSE)

(* A message is what one sender encoded, and all of it. *)
IsWhole(message) == message = Encode(message[1].payload, message[1].total)
=============================================================================
