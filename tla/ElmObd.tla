------------------------------ MODULE ElmObd ------------------------------
(***************************************************************************)
(* ElmObdTransport (python/volvo_diag/transport/elm_obd.py): an ELM327     *)
(* that assembles ISO-TP, driven by text.  The adapter and the serial line *)
(* are external: the adapter has one header and one receive address,       *)
(* prints what it receives and then a prompt, and gives up what it is      *)
(* doing, with the command that interrupted it, when a character comes in. *)
(***************************************************************************)
EXTENDS Vehicle

CONSTANT MaxRepeats  \* bound: requests a module has to answer when one is repeated

ASSUME ElmAssumption == MaxRepeats \in Nat

VARIABLES
  address,  \* _address: the ECU whose five AT commands were sent
  header,   \* whom the adapter sends to (ATSH)
  accepts,  \* whom it listens to (ATCRA)
  busy,     \* it is still at work on a command nobody waits for
  text,     \* the lines printed for the command
  prompt    \* and the prompt

elm == <<address, header, accepts, busy, text, prompt>>

ElmInit ==
  /\ address = NoCall /\ header = NoCall /\ accepts = NoCall
  /\ busy = FALSE /\ text = <<>> /\ prompt = FALSE

-----------------------------------------------------------------------------
(* open: ATZ and the settings; what they answer is only logged. *)
ElmOpen ==
  /\ Opened
  /\ header' = NoCall /\ accepts' = NoCall /\ busy' = FALSE
  /\ text' = <<>> /\ prompt' = FALSE
  /\ UNCHANGED address

ElmClose ==
  /\ Closed
  /\ address' = NoCall
  /\ UNCHANGED <<header, accepts, busy, text, prompt>>

(* mutant: an address selected once is not selected again *)
SelectedOnce(e) == address # NoCall

Selected(e) == address = e

(* _select: nobody looks at what the five commands answer, and the first is lost *)
(* when it interrupts something.                                             *)
ElmSelect ==
  /\ Busy /\ ~written /\ ~Selected(call.ecu)
  /\ address' = call.ecu
  /\ header' = IF busy THEN header ELSE call.ecu
  /\ accepts' = call.ecu
  /\ busy' = FALSE
  /\ Idle /\ UNCHANGED <<text, prompt>>

(* _command: the input so far is discarded, the payload written.  A busy adapter *)
(* only says STOPPED.                                                        *)
ElmWrite ==
  /\ Busy /\ ~written /\ Selected(call.ecu)
  /\ text' = <<>> /\ prompt' = FALSE
  /\ IF busy THEN Fails(Error) ELSE Sent(header)
  /\ busy' = FALSE
  /\ UNCHANGED <<address, header, accepts>>

(* The adapter prints what it receives from the address it listens to. *)
ElmHears(e, kind) ==
  /\ Says(e, kind)
  /\ kind = "pending" => Len(text) < MaxPending
  /\ text' = IF e = accepts /\ written /\ ~prompt THEN Append(text, Reply(due[e][1], kind))
             ELSE text
  /\ UNCHANGED <<address, header, accepts, busy, prompt>>

(* Its own timeout: the prompt, with NO DATA before it if nothing came. *)
ElmPrompt ==
  /\ written /\ ~prompt /\ prompt' = TRUE
  /\ Idle /\ UNCHANGED <<address, header, accepts, busy, text>>

(* _parse joins the lines: what the first one says decides.  More lines leave   *)
(* their bytes behind it.                                                    *)
ElmAnswer == Returns(text[1], Len(text) = 1 /\ prompt)

(* responsePending: the answer may be in the lines below, but a bare carriage   *)
(* return repeats the command, as long as the deadline has not passed.       *)
ElmRepeat ==
  /\ Busy /\ written /\ prompt /\ text # <<>> /\ text[1].kind = "pending"
  /\ Len(due[header]) < MaxRepeats
  /\ text' = <<>> /\ prompt' = FALSE
  /\ Sent(header)
  /\ UNCHANGED <<address, header, accepts, busy>>

ElmGiveUp ==
  /\ Busy /\ written /\ prompt /\ text # <<>> /\ text[1].kind = "pending"
  /\ Fails(Timeout) /\ UNCHANGED elm

ElmRead ==
  /\ Busy /\ written /\ prompt
  /\ IF text = <<>> THEN Fails(Error)
     ELSE text[1].kind # "pending" /\ ElmAnswer
  /\ UNCHANGED elm

(* The line falls silent, or the time is over, before the prompt: what there is *)
(* is taken for the answer, and repeating the command would stop it.         *)
ElmReadCut ==
  /\ Busy /\ written /\ ~prompt
  /\ IF text = <<>> THEN busy' = TRUE /\ Fails(Timeout)
     ELSE IF text[1].kind = "pending"
       THEN \/ busy' = TRUE /\ Fails(Timeout)
            \/ busy' = FALSE /\ Fails(Error)
     ELSE busy' = TRUE /\ ElmAnswer
  /\ UNCHANGED <<address, header, accepts, text, prompt>>

(* The serial port or the Bluetooth socket is gone. *)
ElmLineFails == Busy /\ Fails(Other) /\ UNCHANGED elm

(* The adapter has finished; what it printed will be discarded. *)
ElmFinishes ==
  /\ busy /\ busy' = FALSE
  /\ Idle /\ UNCHANGED <<address, header, accepts, text, prompt>>

ElmStep ==
  \/ ElmSelect \/ ElmWrite \/ ElmPrompt \/ ElmRepeat \/ ElmGiveUp \/ ElmRead \/ ElmReadCut
  \/ ElmLineFails \/ ElmClose

ElmNext ==
  \/ ElmOpen \/ ElmFinishes \/ ElmStep
  \/ \E e \in Ecus, kind \in Kinds : ElmHears(e, kind)
=============================================================================
