----------------------------- MODULE VolvoSweep -----------------------------
(***************************************************************************)
(* The commands of python/volvo_diag/cli.py that visit the modules of a    *)
(* Volvo bus one after the other: dtc, identify, dump, discover and        *)
(* verify, and of read-mem, which sends one request as it is given:        *)
(* through VolvoEcm (transport/volvo_ecm.py) over a raw-CAN link,          *)
(* J2534CanLink (transport/j2534.py) or ElmCanLink (transport/elm_can.py). *)
(* The link has one request on its way at a time and shows every frame on  *)
(* the bus; what belongs to the request is told from the frames alone.     *)
(* The modules and the adapters are external: modules answer late, refuse  *)
(* or stay silent, and frames get lost.                                    *)
(***************************************************************************)
EXTENDS Integers, Sequences, FiniteSets, SequencesExt

CONSTANTS
  Groups,      \* the modules of the bus, ordered by comm address
  Blocks,      \* the blocks dump reads from the first module
  Scanned,     \* the identifiers discover asks the first module for
  Params,      \* the module and identifier of each parameter verify reads
  Nobody,
  CodeCounts,  \* the codes a module may have when a command begins, {2} or any of 0, 1 and 2
  Chunk,       \* frames in one PassThruReadMsgs, 16
  MaxChatter,  \* bound: frames of other traffic in the receive queue
  MaxLate,     \* bound: how many requests later an answer begins
  MaxDropped   \* bound: frames lost

Members == Range(Groups)

(* The identifiers that are asked for; "-" where there is none. *)
Items ==
  {"-", "identity"} \cup Range(Blocks) \cup Range(Scanned) \cup {p.id : p \in Range(Params)}

(* A profile lists a module once, with a communication address of its own; blocks    *)
(* come from the command line.                                               *)
ASSUME SweepAssumption ==
  /\ Groups # <<>> /\ Groups \in Seq(Members) /\ IsInjective(Groups)
  /\ Blocks # <<>> /\ Blocks \in Seq(Range(Blocks))
  /\ Scanned # <<>> /\ Scanned \in Seq(Range(Scanned))
  /\ Params # <<>> /\ Params \in Seq(Range(Params))
  /\ \A p \in Range(Params) : p.module \in Members
  /\ Nobody \notin Members
  /\ Nobody \notin [module : Members, service : {"list", "clear", "block", "value", "raw"}, id : Items, n : Nat]
  /\ CodeCounts \subseteq 0 .. 2 /\ Chunk \in Nat \ {0}
  /\ MaxChatter \in Nat /\ MaxLate \in Nat /\ MaxDropped \in Nat

VARIABLES
  link,     \* "vxdiag" or "elm"
  command,  \* what is run
  turn,     \* the module, identifier or block it is at; 0 when nothing runs
  step,     \* "list", "clear", "confirm", "block", "value" or "raw"
  asking,   \* the request under way
  sent,     \* requests sent so far
  frames,   \* the frames collected for it
  queue,    \* the driver's receive FIFO, or the lines the ELM327 has printed
  silent,   \* the ELM327 has printed its prompt: no more lines
  raised,   \* the command ended with an exception
  report,   \* what it has printed of the module, identifier or block it is at
  visited,  \* how many of those it has printed something of
  owed,     \* requests each module has heard and not yet answered
  saying,   \* the frames each module is about to send
  stored,   \* the number of codes each module has
  wiped,    \* history: modules that have cleared their codes
  broken    \* history: frames lost, and lines read in two pieces

sweep == <<link, command, turn, step, asking, sent, frames, queue, silent, raised, report, visited>>
cars == <<owed, saying, stored, wiped, broken>>
sweepVars == <<sweep, cars>>

(* read-mem with a payload that reads, and with one that writes: AF 11. *)
Raw == {"read-mem", "write-mem"}

Commands == {"dtc", "clear", "identify", "dump", "discover", "verify"} \cup Raw

Steps == {"list", "clear", "confirm", "block", "value", "raw"}

(* The steps whose answer is all that comes until the time is over. *)
Collecting == {"list", "confirm", "block", "raw"}

-----------------------------------------------------------------------------
(* Requests and frames *)

(* A frame: who sent it, for which service and identifier, the part of a long    *)
(* answer, the request it answers and the number of requests sent when it    *)
(* came in (for the history properties), and whether only a piece of it was  *)
(* read.                                                                     *)
CarFrame(r, part, codes) ==
  [from |-> r.module, service |-> r.service, id |-> r.id, part |-> part, codes |-> codes,
   n |-> r.n, at |-> 0, cut |-> FALSE]

Asked(module, service, id) == [module |-> module, service |-> service, id |-> id, n |-> sent + 1]

(* What the command goes through, one after the other. *)
SweepTurns(c) ==
  CASE c \in {"dtc", "clear", "identify"} -> Len(Groups)
    [] c = "dump" -> Len(Blocks)
    [] c = "discover" -> Len(Scanned)
    [] c = "verify" -> Len(Params)
    [] c \in Raw -> 1

FirstStep(c) ==
  CASE c \in {"dtc", "clear"} -> "list"
    [] c \in {"identify", "dump"} -> "block"
    [] c \in {"discover", "verify"} -> "value"
    [] c \in Raw -> "raw"

(* build_dtc_read *)
ListRequest == Asked(Groups[turn], "list", "-")

(* build_dtc_clear *)
ClearRequest == Asked(Groups[turn], "clear", "-")

(* build_identity *)
BlockRequest ==
  IF command = "dump" THEN Asked(Groups[1], "block", Blocks[turn])
  ELSE Asked(Groups[turn], "block", "identity")

(* build_read *)
ValueRequest ==
  IF command = "discover" THEN Asked(Groups[1], "value", Scanned[turn])
  ELSE Asked(Params[turn].module, "value", Params[turn].id)

(* --raw, or the service and address given; an AF 11 clears whoever sends it. *)
RawRequest == Asked(Groups[1], IF command = "write-mem" THEN "clear" ELSE "raw", "-")

SweepAsks ==
  CASE step \in {"list", "confirm"} -> ListRequest
    [] step = "clear" -> ClearRequest
    [] step = "block" -> BlockRequest
    [] step = "value" -> ValueRequest
    [] step = "raw" -> RawRequest

(* volvo.matches: the positive answer to this identifier of this module. *)
Matches(f, r) == f.service = "value" /\ f.from = r.module /\ f.id = r.id

(* mutant: whatever the module answers acknowledges *)
AckOfAny(f, r) == f.from = r.module

(* volvo.is_clear_ack *)
Acks(f, r) == f.service = "clear" /\ f.from = r.module

(* volvo.is_response_canid: normal traffic is left out, refusals are not. *)
Diagnostic(f) == f.service # "chatter"

IsHead(f, r) == f.part = 1 /\ f.from = r.module /\ f.service = r.service /\ f.id = r.id

(* The frames at these places, in their order. *)
Picked(fs, places) ==
  LET picked[i \in 0 .. Len(fs)] ==
        IF i = 0 THEN <<>>
        ELSE IF i \in places THEN Append(picked[i - 1], fs[i]) ELSE picked[i - 1]
  IN  picked[Len(fs)]

(* mutant: a block begins with any first frame *)
JoinAny(fs, r) == Picked(fs, {i \in DOMAIN fs : fs[i].part # 0 /\ fs[i].from = r.module})

(* volvo.reassemble_block: from the first frame of the answer asked for, all that *)
(* comes on its CAN id, whatever it belongs to.                              *)
Join(fs, r) ==
  LET heads == {i \in DOMAIN fs : IsHead(fs[i], r)}
  IN  IF heads = {} THEN <<>>
      ELSE LET head == CHOOSE i \in heads : \A k \in heads : i <= k
           IN  Picked(fs, {i \in DOMAIN fs : i >= head /\ fs[i].from = r.module})

(* parse_dtc_list: the codes up to the terminator. *)
CodesIn(fs) == FoldSeq(LAMBDA f, total : total + f.codes, 0, fs)

-----------------------------------------------------------------------------
SweepTypeOK ==
  /\ link \in {"vxdiag", "elm"} /\ command \in Commands
  /\ turn \in 0 .. SweepTurns(command) /\ step \in Steps
  /\ asking # Nobody => turn > 0 /\ asking.module \in Members
  /\ frames # <<>> => asking # Nobody
  /\ sent \in Nat /\ visited \in 0 .. SweepTurns(command) /\ silent \in BOOLEAN /\ raised \in BOOLEAN
  /\ \A m \in Members :
       /\ stored[m] \in 0 .. 2
       /\ \A i \in DOMAIN owed[m] : owed[m][i].module = m
       /\ \A i \in DOMAIN saying[m] : saying[m][i].from = m
  /\ wiped \subseteq Members /\ broken \in Nat

SweepInit ==
  /\ link = "vxdiag" /\ command = "verify"
  /\ turn = 0 /\ step = "value"
  /\ asking = Nobody /\ sent = 0 /\ frames = <<>> /\ queue = <<>> /\ silent = FALSE
  /\ raised = FALSE /\ report = {} /\ visited = 0
  /\ owed = [m \in Members |-> <<>>] /\ saying = [m \in Members |-> <<>>]
  /\ stored = [m \in Members |-> 0] /\ wiped = {} /\ broken = 0

(* mutant: --raw sends whatever it is given *)
WritesNone(c) == FALSE

(* _WRITE_SERVICES: read-mem only reads. *)
Writes(c) == c = "write-mem"

(* dump and read-mem need the J2534 link. *)
RunsOver(l, c) == l = "elm" => c \notin {"dump"} \cup Raw

(* open_reader, and a command begins.  The modules have whatever codes they have. *)
(* (Bound: no module still owes a frame to an earlier command.)              *)
Run(l, c) ==
  /\ RunsOver(l, c) /\ ~Writes(c)
  /\ turn = 0 /\ \A m \in Members : owed[m] = <<>> /\ saying[m] = <<>>
  /\ link' = l /\ command' = c /\ turn' = 1 /\ step' = FirstStep(c)
  /\ queue' = <<>> /\ silent' = FALSE
  /\ sent' = 0 /\ raised' = FALSE /\ report' = {} /\ visited' = 0 /\ wiped' = {} /\ broken' = 0
  /\ stored' \in [Members -> CodeCounts]
  /\ UNCHANGED <<asking, frames, owed, saying>>

Running == turn > 0
Listening == Running /\ asking # Nobody

-----------------------------------------------------------------------------
(* The links *)

(* mutant: the receive queue is not cleared before a request *)
Uncleared == queue

Cleared == <<>>

(* send: J2534CanLink drains the driver's FIFO, ElmCanLink the serial buffer,   *)
(* and writes.  (The driver is taken to obey _clear_rx, which ignores an     *)
(* error.  Bound: a module answers at most MaxLate requests later.)          *)
Send ==
  /\ Running /\ asking = Nobody
  /\ asking' = SweepAsks /\ sent' = sent + 1
  /\ queue' = Cleared /\ silent' = FALSE
  /\ owed' = [m \in Members |->
                LET kept == IF owed[m] # <<>> /\ Head(owed[m]).n + MaxLate <= sent
                              THEN Tail(owed[m]) ELSE owed[m]
                IN  IF m = SweepAsks.module THEN Append(kept, SweepAsks) ELSE kept]
  /\ report' = IF step = FirstStep(command) THEN {} ELSE report
  /\ UNCHANGED <<link, command, turn, step, frames, raised, visited, saying, stored, wiped, broken>>

(* One receive: a batch of what is in the FIFO, or all the lines there are. *)
J2534Batch == IF Len(queue) > Chunk THEN Chunk ELSE Len(queue)

ElmLines == Len(queue)

BatchLength == IF link = "vxdiag" THEN J2534Batch ELSE ElmLines

(* A module answers the oldest request it has heard: with a value, an            *)
(* acknowledgement, one frame, two, or a refusal.                            *)
Answered(m) ==
  LET r == owed[m][1]
  IN  CASE r.service \in {"value", "clear"} -> <<CarFrame(r, 0, 0)>>
        [] r.service = "list" ->
             IF stored[m] = 2 THEN <<CarFrame(r, 1, 1), CarFrame(r, 2, 1)>>
             ELSE <<CarFrame(r, 1, stored[m])>>
        [] r.service \in {"block", "raw"} -> <<CarFrame(r, 1, 0), CarFrame(r, 2, 0)>>

Refusal(m) == [CarFrame(owed[m][1], 0, 0) EXCEPT !.service = "refusal"]

(* A frame of the module is on the bus, or lost there.  The ELM327 does not print   *)
(* what comes when it has no request or is done with it.                     *)
Emit(m, f, rest) ==
  /\ saying' = [saying EXCEPT ![m] = rest]
  /\ \/ /\ queue' = IF link = "elm" /\ (silent \/ asking = Nobody) THEN queue
                    ELSE Append(queue, [f EXCEPT !.at = sent])
        /\ UNCHANGED broken
     \/ broken < MaxDropped /\ broken' = broken + 1 /\ UNCHANGED queue
  /\ UNCHANGED <<link, command, turn, step, asking, sent, frames, silent, raised, report, visited>>

(* AF 11 empties the module's memory before it is acknowledged. *)
Speak(m) ==
  /\ owed[m] # <<>> /\ saying[m] = <<>>
  /\ owed' = [owed EXCEPT ![m] = Tail(@)]
  /\ \/ /\ Emit(m, Head(Answered(m)), Tail(Answered(m)))
        /\ IF owed[m][1].service = "clear"
             THEN stored' = [stored EXCEPT ![m] = 0] /\ wiped' = wiped \cup {m}
             ELSE UNCHANGED <<stored, wiped>>
     \/ Emit(m, Refusal(m), <<>>) /\ UNCHANGED <<stored, wiped>>
     \/ UNCHANGED <<sweep, saying, stored, wiped, broken>>

SpeakOn(m) ==
  /\ saying[m] # <<>>
  /\ Emit(m, Head(saying[m]), Tail(saying[m]))
  /\ UNCHANGED <<owed, stored, wiped>>

Chatter ==
  /\ link = "vxdiag" /\ Listening
  /\ Len(SelectSeq(queue, LAMBDA f : ~Diagnostic(f))) < MaxChatter
  /\ queue' = Append(queue, [CarFrame(asking, 0, 0) EXCEPT !.from = Nobody, !.service = "chatter"])
  /\ UNCHANGED <<link, command, turn, step, asking, sent, frames, silent, raised, report, visited, cars>>

(* The ELM327 prints its prompt once nothing has come for a while. *)
Prompt ==
  /\ link = "elm" /\ asking # Nobody /\ ~silent /\ silent' = TRUE
  /\ UNCHANGED <<link, command, turn, step, asking, sent, frames, queue, raised, report, visited, cars>>

-----------------------------------------------------------------------------
(* The commands *)

Tell(entry) ==
  /\ report' = report \cup {entry}
  /\ visited' = IF report = {} THEN visited + 1 ELSE visited

Entry(result, state) ==
  [module |-> asking.module, service |-> asking.service, id |-> asking.id, n |-> asking.n,
   frames |-> result, state |-> state]

Continue ==
  IF turn < SweepTurns(command)
    THEN turn' = turn + 1 /\ step' = FirstStep(command)
    ELSE turn' = 0 /\ UNCHANGED step

Done ==
  /\ asking' = Nobody /\ frames' = <<>>
  /\ UNCHANGED <<link, command, sent, silent>>

(* An exception the loop does not catch ends the command. *)
Raise == turn' = 0 /\ raised' = TRUE /\ UNCHANGED <<step, report, visited>>

(* mutant: a module that does not answer ends the sweep *)
SilentEnds == Tell(Entry(<<>>, "silent")) /\ turn' = 0 /\ UNCHANGED <<step, raised>>

(* except TransportError: continue. *)
NextModule == Tell(Entry(<<>>, "silent")) /\ Continue /\ UNCHANGED raised

(* A TransportError: caught, unless it comes from the clear, from the read that    *)
(* confirms it or from read-mem.                                             *)
TransportFails ==
  /\ IF step \in {"clear", "confirm", "raw"} THEN Raise ELSE NextModule
  /\ Done

(* What a command does with an answer. *)
Told(result) == Tell(Entry(result, "read")) /\ Continue /\ UNCHANGED raised

DtcRead(result) == command = "dtc" /\ Told(result)

(* With --clear the module is cleared and its list read again. *)
ClearRead(result) ==
  /\ command = "clear" /\ UNCHANGED raised
  /\ \/ /\ step = "list" /\ step' = "clear" /\ UNCHANGED turn
        /\ Tell(Entry(result, "read"))
     \/ /\ step = "clear" /\ step' = "confirm" /\ UNCHANGED turn
        /\ Tell(Entry(result, IF result # <<>> THEN "ack" ELSE "no ack"))
     \/ /\ step = "confirm" /\ Continue
        /\ Tell(Entry(result, IF CodesIn(result) = 0 THEN "gone" ELSE "still"))

IdentityRead(result) == command = "identify" /\ Told(result)

DumpRead(result) == command = "dump" /\ Told(result)

DiscoverRead(result) == command = "discover" /\ Told(result)

VerifyRead(result) == command = "verify" /\ Told(result)

(* What came is printed, if anything did. *)
MemoryRead(result) == command \in Raw /\ Told(result)

SweepReturns(result) ==
  /\ \/ DtcRead(result) \/ ClearRead(result) \/ IdentityRead(result)
     \/ DumpRead(result) \/ DiscoverRead(result) \/ VerifyRead(result) \/ MemoryRead(result)
  /\ Done

(* read_identifier and clear_dtcs: the first frame that matches, the rest of the *)
(* batch is gone.                                                            *)
ReceiveOne ==
  /\ Listening /\ step \in {"value", "clear"} /\ queue # <<>>
  /\ queue' = SubSeq(queue, BatchLength + 1, Len(queue))
  /\ LET good == {i \in 1 .. BatchLength : IF step = "value" THEN Matches(queue[i], asking)
                                     ELSE Acks(queue[i], asking)}
     IN  IF good = {}
           THEN UNCHANGED <<link, command, turn, step, asking, sent, frames, silent, raised, report, visited>>
           ELSE SweepReturns(<<queue[CHOOSE i \in good : \A k \in good : i <= k]>>)
  /\ UNCHANGED cars

(* _collect, and the loop of cmd_readmem *)
ReceiveAll ==
  /\ Listening /\ step \in Collecting /\ queue # <<>>
  /\ queue' = SubSeq(queue, BatchLength + 1, Len(queue))
  /\ frames' = frames \o Picked(queue, {i \in 1 .. BatchLength : Diagnostic(queue[i])})
  /\ UNCHANGED <<link, command, turn, step, asking, sent, silent, raised, report, visited, cars>>

(* The deadline passes, or nothing has come for a while: what was collected is   *)
(* joined.                                                                   *)
ValueTimeout == step = "value" /\ TransportFails

ClearTimeout == step = "clear" /\ SweepReturns(<<>>)

CollectEnds ==
  /\ step \in Collecting \ {"raw"}
  /\ IF frames = <<>> THEN TransportFails ELSE SweepReturns(Join(frames, asking))

RawEnds == step = "raw" /\ SweepReturns(frames)

SweepTimeout ==
  /\ Listening
  /\ ValueTimeout \/ ClearTimeout \/ CollectEnds \/ RawEnds
  /\ UNCHANGED <<queue, cars>>

(* The driver refuses a call: a J2534Error.  The serial port fails: an OSError,    *)
(* which no loop catches.                                                    *)
LinkFails ==
  /\ Listening
  /\ IF link = "vxdiag" THEN TransportFails ELSE Raise /\ Done
  /\ UNCHANGED <<queue, cars>>

(* The ELM327 is read in the middle of a line: half a frame is still a frame for *)
(* _collect, though perhaps too short for a head, and no frame at all for    *)
(* payload_of, whose error nobody catches.                                   *)
ReadCut ==
  /\ Listening /\ link = "elm" /\ queue # <<>> /\ broken < MaxDropped
  /\ queue' = Tail(queue) /\ broken' = broken + 1
  /\ IF step \in {"value", "clear"}
       THEN IF queue[1].part = 0 THEN Raise /\ Done
            ELSE UNCHANGED <<link, command, turn, step, asking, sent, frames, silent, raised, report, visited>>
       ELSE /\ \E part \in {queue[1].part, 2}, codes \in 0 .. queue[1].codes :
                 frames' = Append(frames, [queue[1] EXCEPT !.cut = TRUE, !.part = part, !.codes = codes])
            /\ UNCHANGED <<link, command, turn, step, asking, sent, silent, raised, report, visited>>
  /\ UNCHANGED <<owed, saying, stored, wiped>>

SweepStep == Send \/ ReceiveOne \/ ReceiveAll \/ SweepTimeout \/ LinkFails \/ ReadCut

SweepCars ==
  \/ Chatter \/ Prompt
  \/ \E m \in Members : Speak(m) \/ SpeakOn(m)

SweepNext == (\E l \in {"vxdiag", "elm"}, c \in Commands : Run(l, c)) \/ SweepStep \/ SweepCars

(* The program goes on, and its clock with it: other traffic does not extend the  *)
(* collection of an answer.                                                  *)
SweepFairness == WF_sweepVars(SweepStep) /\ WF_sweepVars(SweepTimeout)

SweepSpec == SweepInit /\ [][SweepNext]_sweepVars /\ SweepFairness

-----------------------------------------------------------------------------
(* Properties *)

(* A module said to be cleared has emptied its memory, in this command: the      *)
(* acknowledgement of another module, late or not, does not count.  And no   *)
(* other command empties a memory, whatever is given to read-mem.            *)
ClearedIsWiped ==
  /\ \A e \in report : e.state = "ack" => e.module \in wiped
  /\ wiped # {} => command = "clear"

(* Lists and blocks are made of frames of the module asked, from the first frame  *)
(* of an answer of the kind asked for on; when nothing was lost or cut they  *)
(* are the one answer to this request from its first part, however many      *)
(* answers of several modules share the bus.  (The list that confirms a      *)
(* clear may be the late answer to the list read before it, or both; a block *)
(* that --blocks names twice may be the late answer to the first time.)      *)
ReportsOwn ==
  \A e \in report :
    e.service \in {"list", "block"} /\ e.frames # <<>> =>
      /\ IsHead(e.frames[1], e)
      /\ \A i \in DOMAIN e.frames :
           /\ e.frames[i].from = e.module
           /\ broken = 0 /\ e.state = "read" /\ IsInjective(Blocks) =>
                e.frames[i].part = i /\ e.frames[i].n = e.n

(* Nothing that came in before a request was sent is shown as its answer.  (An    *)
(* answer to an earlier request for the same identifier that comes in after  *)
(* it is.)                                                                   *)
FreshFrames == \A e \in report : \A i \in DOMAIN e.frames : e.frames[i].at = e.n

(* A sweep that ends without an exception has said something of every module,     *)
(* identifier or block, and what --clear begins it ends: a module whose      *)
(* codes were listed is cleared and read again before the next one.          *)
SweepAccounted ==
  /\ turn = 0 /\ ~raised /\ sent > 0 => visited = SweepTurns(command)
  /\ command = "clear" /\ ~raised /\ (turn = 0 \/ step = "list") =>
       \A e \in report : e.state = "read" =>
         /\ \E cleared \in report : cleared.service = "clear"
         /\ \E check \in report : check.state \in {"gone", "still"}

(* Every sweep comes to its end. *)
SweepEnds == turn > 0 ~> turn = 0
=============================================================================
