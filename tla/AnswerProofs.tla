---------------------------- MODULE AnswerProofs ----------------------------
(***************************************************************************)
(* Which answers a command gets, for any modules, keys, batches, frames    *)
(* and bounds: its own unless a request to the module has failed before,   *)
(* and whole ones unless a first frame was lost.                           *)
(***************************************************************************)
EXTENDS CommandLineProofs

-----------------------------------------------------------------------------

(* The answer a command gets is to its own question unless a request to that     *)
(* module has failed: until then nothing that the module says or has to say  *)
(* is of an earlier request, and nothing is left of a request that was       *)
(* answered.  Underway is the one request a module can have heard.           *)
Underway(e) == call # NoCall /\ written /\ call.ecu = e

DueFresh(e) ==
  /\ Len(due[e]) <= 1
  /\ due[e] # <<>> => Underway(e) /\ due[e][1].n = asked

Message(item, e) == item.type = "message" /\ item.ecu = e

RxFresh(e) ==
  \A i \in DOMAIN rx : Message(rx[i], e) =>
    /\ Underway(e) /\ rx[i].reply.n = asked
    /\ rx[i].reply.kind # "pending" =>
         due[e] = <<>> /\ \A j \in DOMAIN rx : j > i => ~Message(rx[j], e)

InboxFresh(e) ==
  \A i \in DOMAIN inbox[e] :
    /\ Underway(e) /\ inbox[e][i].n = asked
    /\ inbox[e][i].kind # "pending" => due[e] = <<>> /\ i = Len(inbox[e])

(* A frame of an answer of e. *)
Part(w, e) == w.ecu = e /\ w.frame.kind # "flow"

Goes(w, e) == w.ecu = e /\ w.frame.kind = "consecutive"

(* Behind a frame of a final answer there is nothing of the module but the      *)
(* consecutive frames that follow it.                                        *)
Leads(q, e, i) ==
  \A j \in DOMAIN q : j > i /\ Part(q[j], e) =>
    Goes(q[i], e) /\ Goes(q[j], e) /\ q[i].frame.index < q[j].frame.index

PartFresh(q, e, i) ==
  /\ Underway(e) /\ ~awaiting /\ q[i].frame.payload.n = asked
  /\ q[i].frame.payload.kind = "pending" => q[i].frame.kind = "single"
  /\ q[i].frame.payload.kind # "pending" =>
       due[e] = <<>> /\ (q[i].frame.kind # "first" => held[e] = NoCall) /\ Leads(q, e, i)

PartsFresh(q, e) == \A i \in DOMAIN q : Part(q[i], e) => PartFresh(q, e, i)

HeldFresh(e) ==
  held[e] # NoCall => /\ Underway(e) /\ ~awaiting /\ held[e].n = asked /\ held[e].kind # "pending"
                      /\ due[e] = <<>>

AsmFresh(e) ==
  Underway(e) =>
    /\ awaiting => due[e] = <<>>
    /\ asm.expected > 0 =>
         /\ ~awaiting /\ due[e] = <<>> /\ held[e] = NoCall
         /\ asm.expected + asm.next = Frames + 1
         /\ asm.buffer # <<>> /\ asm.buffer[1].payload.n = asked

WireFresh(e) == PartsFresh(wire, e) /\ HeldFresh(e) /\ AsmFresh(e)

(* The kernel's sockets or the raw one, never both, and neither when closed. *)
ModeInv ==
  /\ kernel => prefer /\ ~bound /\ \A e \in Ecus : held[e] = NoCall
  /\ ~kernel => sockets = {} /\ \A e \in Ecus : inbox[e] = <<>>
  /\ ~bound => wire = <<>> /\ asks = {}
  /\ session = "closed" => ~bound /\ sockets = {} /\ \A e \in Ecus : inbox[e] = <<>>

Fresh(e) ==
  /\ DueFresh(e)
  /\ transport = "j2534" => RxFresh(e)
  /\ transport = "socketcan" => IF kernel THEN InboxFresh(e) ELSE WireFresh(e)

OwnInv ==
  /\ answer # Waiting /\ answer \notin Failures => answer.ecu \in failed \/ answer.n = asked
  /\ \A s \in shown : s.request.ecu \in failed \/ s.reply.n = s.request.n

StaleInv ==
  transport # "elm" =>
    /\ transport = "socketcan" => ModeInv
    /\ OwnInv
    /\ \A e \in Ecus \ failed : Fresh(e)

-----------------------------------------------------------------------------
(* What a step of the client does to a module that has not failed. *)
Waits == UNCHANGED <<session, asked, call, written, failed>>

Gives == call' = NoCall /\ ~written' /\ UNCHANGED <<session, asked, failed>>

Breaks == call' = NoCall /\ ~written' /\ failed' = failed \cup {call.ecu} /\ UNCHANGED <<session, asked>>

LEMMA AskedFacts ==
  ASSUME VehicleInv, call # NoCall
  PROVE  call \in Requests /\ call.ecu \in Ecus /\ call.n = asked /\ asked \in Nat
BY AsksTyped DEF VehicleInv, CallInv

LEMMA OwnReturns ==
  ASSUME OwnInv, NEW a, NEW complete, Returns(a, complete),
         a \in Failures \/ a.ecu \in failed \/ a.n = asked
  PROVE  OwnInv' /\ due' = due /\ (IF a \in Failures THEN Breaks ELSE Gives)
<1>1. /\ answer' = a /\ call' = NoCall /\ written' = FALSE
      /\ failed' = IF a \in Failures THEN failed \cup {call.ecu} ELSE failed
      /\ UNCHANGED <<session, asked, shown, due>>
  BY DEF Returns, client
<1>2. failed \subseteq failed'
  BY <1>1
<1>3. OwnInv'
  BY <1>1, <1>2 DEF OwnInv
<1>. QED
  BY <1>1, <1>3 DEF Gives, Breaks

LEMMA OwnFails ==
  ASSUME OwnInv, NEW failure \in {Timeout, Error, Other}, Fails(failure)
  PROVE  OwnInv' /\ due' = due /\ Breaks
BY OwnReturns DEF Fails, Failures

LEMMA OwnReceives ==
  ASSUME OwnInv, NEW reply \in Replies, NEW complete, Receives(reply, complete),
         reply.ecu \in failed \/ reply.n = asked
  PROVE  OwnInv' /\ due' = due
         /\ ((Waits /\ reply.kind = "pending") \/ (Gives /\ reply.kind # "pending") \/ Breaks)
<1>1. CASE reply.kind # "pending"
  <2>1. reply \notin Failures
    BY RepliesAreAnswers
  <2>. QED
    BY <1>1, <2>1, OwnReturns DEF Receives
<1>2. CASE reply.kind = "pending" /\ TooMany(seen)
  BY <1>2, OwnFails DEF Receives
<1>3. CASE reply.kind = "pending" /\ ~TooMany(seen)
  <2>1. UNCHANGED <<session, asked, shown, call, written, answer, failed, due>>
    BY <1>3 DEF Receives, client
  <2>2. OwnInv'
    BY <2>1 DEF OwnInv
  <2>. QED
    BY <1>3, <2>1, <2>2 DEF Waits
<1>. QED
  BY <1>1, <1>2, <1>3

LEMMA OwnStays ==
  ASSUME OwnInv, UNCHANGED <<answer, shown, failed, asked>>
  PROVE  OwnInv'
BY DEF OwnInv

LEMMA OwnTakes ==
  ASSUME VehicleInv, OwnInv, Take
  PROVE  OwnInv'
<1>. DEFINE r == Asks(task, pos, asked)
            s == [request |-> r, reply |-> answer]
<1>1. /\ answer # Waiting /\ answer' = Waiting /\ failed' = failed
      /\ shown' = shown \/ (Accepted(r, answer) /\ shown' = shown \cup {s})
  BY DEF Take
<1>2. r.n = asked
  BY <1>1, AsksTyped DEF VehicleInv, CallInv, AnswerInv
<1>3. Accepted(r, answer) => answer \notin Failures /\ answer.ecu = r.ecu
  BY <1>1 DEF Accepted, VehicleInv, AnswerInv
<1>4. s.request = r /\ s.reply = answer
  OBVIOUS
<1>5. Accepted(r, answer) => s.request.ecu \in failed \/ s.reply.n = s.request.n
  <2>. HIDE DEF r, s
  <2>. QED
    BY <1>1, <1>2, <1>3, <1>4 DEF OwnInv
<1>. HIDE DEF s, r
<1>. QED
  BY <1>1, <1>5 DEF OwnInv

(* What a module that is not asked has to say, and has said: nothing. *)
NoMessage(e) == \A i \in DOMAIN rx : ~Message(rx[i], e)

NoPart(q, e) == \A i \in DOMAIN q : ~Part(q[i], e)

Quiet(e) ==
  /\ due[e] = <<>>
  /\ transport = "j2534" => NoMessage(e)
  /\ transport = "socketcan" =>
       IF kernel THEN inbox[e] = <<>> ELSE NoPart(wire, e) /\ held[e] = NoCall

LEMMA NothingIn ==
  ASSUME NEW S, NEW q \in Seq(S), \A i \in DOMAIN q : FALSE
  PROVE  q = <<>>
<1>1. Len(q) \in Nat /\ DOMAIN q = 1 .. Len(q)
  OBVIOUS
<1>2. Len(q) > 0 => 1 \in DOMAIN q
  BY <1>1
<1>3. Len(q) = 0
  BY <1>1, <1>2
<1>. QED
  BY <1>3

LEMMA FreshIsQuiet ==
  ASSUME IInv, NEW e \in Ecus, Fresh(e), ~Underway(e)
  PROVE  Quiet(e)
<1>1. due[e] = <<>>
  BY DEF Fresh, DueFresh
<1>2. transport = "j2534" => NoMessage(e)
  BY DEF Fresh, RxFresh, NoMessage
<1>3. ASSUME transport = "socketcan", kernel PROVE inbox[e] = <<>>
  <2>1. inbox[e] \in Seq(Replies)
    BY <1>3 DEF IInv, SocketCanInv
  <2>2. \A i \in DOMAIN inbox[e] : FALSE
    BY <1>3 DEF Fresh, InboxFresh
  <2>. QED
    BY <2>1, <2>2, NothingIn
<1>4. ASSUME transport = "socketcan", ~kernel PROVE NoPart(wire, e) /\ held[e] = NoCall
  BY <1>4 DEF Fresh, WireFresh, PartsFresh, PartFresh, NoPart, HeldFresh
<1>. QED
  BY <1>1, <1>2, <1>3, <1>4 DEF Quiet

LEMMA QuietIsFresh ==
  ASSUME NEW e, Quiet(e)', ~Underway(e)' \/ transport' # "socketcan" \/ kernel'
  PROVE  Fresh(e)'
<1>1. DueFresh(e)'
  BY DEF Quiet, DueFresh
<1>2. transport' = "j2534" => RxFresh(e)'
  BY DEF Quiet, RxFresh, NoMessage
<1>3. ASSUME transport' = "socketcan", kernel' PROVE InboxFresh(e)'
  BY <1>3 DEF Quiet, InboxFresh
<1>4. ASSUME transport' = "socketcan", ~kernel' PROVE WireFresh(e)'
  BY <1>4 DEF Quiet, WireFresh, PartsFresh, NoPart, HeldFresh, AsmFresh
<1>. QED
  BY <1>1, <1>2, <1>3, <1>4 DEF Fresh

(* A request that goes out is all the module has to answer. *)
LEMMA SentIsDue ==
  ASSUME VehicleInv, Busy, Sent(call.ecu), NEW e \in Ecus, due[e] = <<>>
  PROVE  DueFresh(e)'
<1>1. /\ written' = TRUE /\ due' = [due EXCEPT ![call.ecu] = Append(@, [call EXCEPT !.ecu = call.ecu])]
      /\ UNCHANGED <<asked, call>> /\ call # NoCall
  BY DEF Sent, client, Busy
<1>2. call \in Requests /\ call.n = asked /\ call.ecu \in Ecus
  BY <1>1, AskedFacts
<1>. DEFINE r == [call EXCEPT !.ecu = call.ecu]
<1>3. r.n = asked
  BY <1>2 DEF Requests
<1>4. due \in [Ecus -> Seq(Requests)]
  BY DEF VehicleInv, CallInv
<1>5. due' = [due EXCEPT ![call.ecu] = Append(due[call.ecu], r)]
  BY <1>1
<1>. HIDE DEF r
<1>6. CASE e = call.ecu
  <2>1. due'[e] = Append(<<>>, r)
    BY <1>4, <1>5, <1>6
  <2>2. Len(due'[e]) = 1 /\ due'[e][1] = r
    BY <2>1
  <2>3. call' # NoCall /\ written' /\ call'.ecu = e /\ asked' = asked
    BY <1>1, <1>6
  <2>4. Len(due'[e]) <= 1 /\ due'[e][1].n = asked'
    BY <1>3, <2>2, <2>3
  <2>. QED
    BY <2>3, <2>4 DEF DueFresh, Underway
<1>7. CASE e # call.ecu
  <2>1. due'[e] = <<>>
    BY <1>4, <1>5, <1>7
  <2>. QED
    BY <2>1 DEF DueFresh
<1>. QED
  BY <1>6, <1>7

(* A module that has something to say is the one that is asked. *)
LEMMA SpeaksFresh ==
  ASSUME VehicleInv, NEW e \in Ecus, NEW kind \in Kinds, DueFresh(e), Says(e, kind)
  PROVE  /\ Underway(e) /\ due[e][1].n = asked /\ Reply(due[e][1], kind).n = asked
         /\ kind = "pending" => due' = due
         /\ kind # "pending" => due'[e] = <<>>
         /\ DueFresh(e)'
<1>1. /\ due[e] # <<>> /\ due' = (IF kind = "pending" THEN due ELSE [due EXCEPT ![e] = Tail(@)])
      /\ UNCHANGED <<call, written, asked>>
  BY DEF Says, client, request
<1>2. Underway(e) /\ due[e][1].n = asked /\ Len(due[e]) <= 1
  BY <1>1 DEF DueFresh
<1>3. Reply(due[e][1], kind).n = asked
  BY <1>2 DEF Reply
<1>4. due \in [Ecus -> Seq(Requests)]
  BY DEF VehicleInv, CallInv
<1>5. Tail(due[e]) = <<>>
  BY <1>1, <1>2, <1>4
<1>6. kind # "pending" => due'[e] = <<>>
  BY <1>1, <1>4, <1>5
<1>7. DueFresh(e)'
  <2>1. CASE kind = "pending"
    BY <1>1, <1>2, <2>1 DEF DueFresh, Underway
  <2>2. CASE kind # "pending"
    BY <1>6, <2>2 DEF DueFresh
  <2>. QED
    BY <2>1, <2>2
<1>. QED
  BY <1>1, <1>2, <1>3, <1>6, <1>7

(* The others have as much to say as before. *)
LEMMA OthersKeepDue ==
  ASSUME VehicleInv, NEW e \in Ecus, NEW d \in Ecus, d # e, DueFresh(d),
         due' = due \/ due' = [due EXCEPT ![e] = Tail(@)], UNCHANGED <<client, request>>
  PROVE  due'[d] = due[d] /\ DueFresh(d)'
<1>1. due'[d] = due[d]
  BY DEF VehicleInv, CallInv
<1>. QED
  BY <1>1 DEF DueFresh, Underway, client, request

(* Where a session begins or ends nobody is asked, and a failed module may say *)
(* what it likes.                                                            *)
LEMMA OpenIsFresh ==
  ASSUME IInv, StaleInv, Opened
  PROVE  /\ OwnInv' /\ session = "closed" /\ failed' = {}
         /\ \A e \in Ecus : due'[e] = <<>> /\ ~Underway(e)'
<1>1. /\ session = "closed" /\ shown' = {} /\ failed' = {} /\ UNCHANGED <<call, answer, due>>
      /\ \A e \in Ecus : due[e] = <<>>
  BY DEF Opened
<1>2. answer = Waiting /\ call = NoCall
  BY <1>1 DEF IInv, VehicleInv, CallInv, AnswerInv
<1>. QED
  BY <1>1, <1>2 DEF OwnInv, Underway

LEMMA CloseIsFresh ==
  ASSUME IInv, StaleInv, Closed
  PROVE  /\ OwnInv' /\ failed' = failed /\ due' = due
         /\ \A e \in Ecus : ~Underway(e) /\ ~Underway(e)'
<1>1. session = "open" /\ pos = Over /\ shown' = {} /\ UNCHANGED <<call, answer, due, failed>>
  BY DEF Closed, request
<1>2. answer = Waiting /\ call = NoCall
  BY <1>1 DEF IInv, VehicleInv, CallInv, AnswerInv
<1>. QED
  BY <1>1, <1>2 DEF OwnInv, Underway

(* A request that fails leaves the other modules as quiet as they were. *)
LEMMA FailsFresh ==
  ASSUME IInv, StaleInv, transport' = transport, transport # "elm", Busy,
         NEW failure \in {Timeout, Error, Other}, Fails(failure),
         transport = "j2534" => rx' = rx,
         transport = "socketcan" => UNCHANGED socketcan
  PROVE  StaleInv'
<1>1. OwnInv' /\ due' = due /\ Breaks
  BY OwnFails DEF StaleInv
<1>2. UNCHANGED <<session, asked>> /\ call' = NoCall /\ failed' = failed \cup {call.ecu}
  BY <1>1 DEF Breaks
<1>3. transport = "socketcan" => ModeInv'
  <2>. SUFFICES ASSUME transport = "socketcan" PROVE ModeInv'
    OBVIOUS
  <2>1. ModeInv /\ UNCHANGED <<kernel, prefer, sockets, inbox, bound, wire, asks, held, session>>
    BY <1>2 DEF StaleInv, socketcan
  <2>. QED
    BY <2>1 DEF ModeInv
<1>4. ASSUME NEW e \in Ecus \ failed' PROVE Fresh(e)'
  <2>1. e \notin failed /\ ~Underway(e) /\ ~Underway(e)'
    BY <1>2, <1>4 DEF Underway
  <2>2. Quiet(e)
    BY <2>1, FreshIsQuiet DEF StaleInv
  <2>3. transport = "socketcan" => UNCHANGED <<kernel, inbox, wire, held>>
    BY DEF socketcan
  <2>4. Quiet(e)'
    BY <1>1, <2>2, <2>3 DEF Quiet, NoMessage, NoPart
  <2>. QED
    BY <2>1, <2>4, QuietIsFresh
<1>. QED
  BY <1>1, <1>3, <1>4 DEF StaleInv

-----------------------------------------------------------------------------
(* J2534 *)

LEMMA SuffixFacts ==
  ASSUME NEW S, NEW q \in Seq(S), NEW n \in 0 .. Len(q), NEW r, r = SubSeq(q, n + 1, Len(q))
  PROVE  \A i \in DOMAIN r : i \in Nat /\ i + n \in DOMAIN q /\ r[i] = q[i + n] /\ i + n > n
<1>1. Len(q) \in Nat /\ DOMAIN q = 1 .. Len(q) /\ n \in Nat /\ n <= Len(q)
  OBVIOUS
<1>2. DOMAIN r = 1 .. Len(q) - n
  BY <1>1
<1>3. \A i \in 1 .. Len(q) - n : r[i] = q[i + n]
  BY <1>1
<1>. QED
  BY <1>1, <1>2, <1>3

LEMMA RxThins ==
  ASSUME rx \in Seq(Queued), NEW e, RxFresh(e), Waits, due' = due,
         NEW n \in 0 .. Len(rx), rx' = SubSeq(rx, n + 1, Len(rx))
  PROVE  RxFresh(e)'
<1>1. \A i \in DOMAIN rx' : /\ i \in Nat /\ i + n \in DOMAIN rx /\ rx'[i] = rx[i + n]
  BY SuffixFacts
<1>2. n \in Nat
  OBVIOUS
<1>. SUFFICES ASSUME NEW i \in DOMAIN rx', Message(rx'[i], e)
              PROVE  /\ Underway(e)' /\ rx'[i].reply.n = asked'
                     /\ rx'[i].reply.kind # "pending" =>
                          due'[e] = <<>> /\ \A j \in DOMAIN rx' : j > i => ~Message(rx'[j], e)
  BY DEF RxFresh, Message
<1>3. /\ Underway(e) /\ rx[i + n].reply.n = asked
      /\ rx[i + n].reply.kind # "pending" =>
           due[e] = <<>> /\ \A j \in DOMAIN rx : j > i + n => ~Message(rx[j], e)
  BY <1>1 DEF RxFresh
<1>4. \A j \in DOMAIN rx' : j > i => j + n > i + n
  BY <1>1, <1>2
<1>. QED
  BY <1>1, <1>3, <1>4 DEF Underway, Waits

LEMMA RxEmpties ==
  ASSUME rx \in Seq(Queued), NEW e, NEW n \in 0 .. Len(rx), rx' = SubSeq(rx, n + 1, Len(rx)),
         \A i \in DOMAIN rx : i > n => ~Message(rx[i], e)
  PROVE  NoMessage(e)'
<1>1. \A i \in DOMAIN rx' : /\ i + n \in DOMAIN rx /\ rx'[i] = rx[i + n] /\ i + n > n
  BY SuffixFacts
<1>. QED
  BY <1>1 DEF NoMessage, Message

LEMMA RxGrows ==
  ASSUME rx \in Seq(Queued), NEW item, rx' = Append(rx, item)
  PROVE  /\ \A i \in DOMAIN rx : i \in DOMAIN rx' /\ rx'[i] = rx[i]
         /\ \A i \in DOMAIN rx' : i \in DOMAIN rx \/ (i = Len(rx) + 1 /\ rx'[i] = item)
OBVIOUS

LEMMA J2534SendsFresh ==
  ASSUME IInv, StaleInv, transport = "j2534", transport' = transport, J2534Write
  PROVE  StaleInv'
<1>1. /\ Busy /\ ~written /\ Sent(call.ecu) /\ call # NoCall
      /\ rx' = Append(rx, [type |-> "done", ecu |-> call.ecu, reply |-> NoCall])
  BY DEF J2534Write, Busy
<1>2. /\ written' = TRUE /\ due' = [due EXCEPT ![call.ecu] = Append(@, [call EXCEPT !.ecu = call.ecu])]
      /\ UNCHANGED <<session, task, pos, asked, shown, call, answer, failed>>
  BY <1>1 DEF Sent, client
<1>3. OwnInv'
  BY <1>2, OwnStays DEF StaleInv
<1>4. ASSUME NEW e \in Ecus \ failed PROVE Fresh(e)'
  <2>1. Quiet(e) /\ ~Underway(e)
    BY <1>1, <1>4, FreshIsQuiet DEF StaleInv, Underway
  <2>2. DueFresh(e)'
    BY <1>1, <1>2, <2>1, SentIsDue DEF Quiet, IInv
  <2>3. NoMessage(e)'
    <3>1. NoMessage(e) /\ rx \in Seq(Queued)
      BY <2>1 DEF Quiet, IInv, J2534Inv
    <3>2. ASSUME NEW i \in DOMAIN rx' PROVE rx'[i].type = "done" \/ (i \in DOMAIN rx /\ rx'[i] = rx[i])
      BY <1>1, <3>1, RxGrows
    <3>. QED
      BY <3>1, <3>2 DEF NoMessage, Message
  <2>4. RxFresh(e)'
    BY <2>3 DEF NoMessage, RxFresh
  <2>. QED
    BY <2>2, <2>4 DEF Fresh
<1>. QED
  BY <1>2, <1>3, <1>4 DEF StaleInv

LEMMA J2534ReadFresh ==
  ASSUME IInv, StaleInv, transport = "j2534", transport' = transport, J2534Read
  PROVE  StaleInv'
<1>1. Busy /\ written /\ call # NoCall /\ call.ecu \in Ecus
  BY AskedFacts DEF J2534Read, Busy, IInv
<1>2. PICK n \in 1 .. Batch :
        /\ n <= Len(rx)
        /\ rx' = SubSeq(rx, n + 1, Len(rx))
        /\ LET good == {i \in 1 .. n : Usable(rx[i])}
           IN  IF good = {} THEN Idle
               ELSE Receives(rx[CHOOSE i \in good : \A k \in good : i <= k].reply, TRUE)
  BY DEF J2534Read
<1>. DEFINE good == {i \in 1 .. n : Usable(rx[i])}
            first == CHOOSE i \in good : \A k \in good : i <= k
<1>3. n \in 0 .. Len(rx) /\ n \in Nat /\ rx \in Seq(Queued)
  BY <1>2, BatchAssumption DEF IInv, J2534Inv
<1>4. OwnInv /\ \A e \in Ecus \ failed : DueFresh(e) /\ RxFresh(e)
  BY DEF StaleInv, Fresh
<1>5. CASE good = {}
  <2>1. UNCHANGED <<session, asked, shown, call, written, answer, failed, due>>
    BY <1>2, <1>5 DEF Idle, vehicle, client, request
  <2>2. OwnInv'
    BY <1>4, <2>1, OwnStays
  <2>3. ASSUME NEW e \in Ecus \ failed PROVE Fresh(e)'
    <3>1. RxFresh(e)'
      BY <1>2, <1>3, <1>4, <2>1, RxThins DEF Waits
    <3>2. DueFresh(e)'
      BY <1>4, <2>1 DEF DueFresh, Underway
    <3>. QED
      BY <3>1, <3>2 DEF Fresh
  <2>. QED
    BY <2>1, <2>2, <2>3 DEF StaleInv
<1>6. CASE good # {}
  <2>1. Receives(rx[first].reply, TRUE)
    BY <1>2, <1>6
  <2>2. first \in good
    <3>1. good \subseteq Nat
      BY <1>3
    <3>. HIDE DEF good
    <3>2. PICK i \in good : \A k \in good : i <= k
      BY <1>6, <3>1, LeastExists
    <3>. QED
      BY <3>2
  <2>3. first \in DOMAIN rx /\ first <= n /\ rx[first] \in Queued /\ Usable(rx[first])
    BY <1>2, <1>3, <2>2
  <2>. HIDE DEF first, good
  <2>. DEFINE reply == rx[first].reply
  <2>4. reply \in Replies /\ reply.ecu = call.ecu /\ Message(rx[first], call.ecu)
    BY <2>3 DEF Queued, Usable, Said, Message
  <2>5. reply.ecu \in failed \/ reply.n = asked
    BY <1>1, <1>4, <2>3, <2>4 DEF RxFresh
  <2>6. Receives(reply, TRUE)
    BY <2>1
  <2>7. OwnInv' /\ due' = due
        /\ ((Waits /\ reply.kind = "pending") \/ (Gives /\ reply.kind # "pending") \/ Breaks)
    <3>. HIDE DEF reply
    <3>. QED
      BY <1>4, <2>4, <2>5, <2>6, OwnReceives
  <2>8. ASSUME NEW e \in Ecus \ failed' PROVE Fresh(e)'
    <3>1. e \notin failed /\ (Breaks => e # call.ecu)
      BY <2>7, <2>8 DEF Waits, Gives, Breaks
    <3>2. DueFresh(e) /\ RxFresh(e) /\ Fresh(e)
      BY <1>4, <3>1 DEF StaleInv
    <3>3. CASE Waits
      <4>1. RxFresh(e)'
        BY <1>2, <1>3, <2>7, <3>2, <3>3, RxThins
      <4>2. DueFresh(e)'
        BY <2>7, <3>2, <3>3 DEF DueFresh, Underway, Waits
      <4>. QED
        BY <4>1, <4>2 DEF Fresh
    <3>4. CASE e # call.ecu
      <4>1. Quiet(e)
        BY <1>1, <3>1, <3>2, <3>4, FreshIsQuiet DEF Underway
      <4>2. NoMessage(e)'
        BY <1>2, <1>3, <4>1, RxEmpties DEF Quiet, NoMessage
      <4>3. Quiet(e)'
        BY <2>7, <4>1, <4>2 DEF Quiet
      <4>. QED
        BY <4>3, QuietIsFresh
    <3>5. CASE e = call.ecu /\ Gives /\ reply.kind # "pending"
      <4>1. due[e] = <<>> /\ \A j \in DOMAIN rx : j > first => ~Message(rx[j], e)
        BY <2>3, <2>4, <3>2, <3>5 DEF RxFresh
      <4>2. \A j \in DOMAIN rx : j > n => j > first
        BY <1>3, <2>3
      <4>3. NoMessage(e)'
        BY <1>2, <1>3, <4>1, <4>2, RxEmpties
      <4>4. Quiet(e)'
        BY <2>7, <4>1, <4>3 DEF Quiet
      <4>. QED
        BY <4>4, QuietIsFresh
    <3>. QED
      BY <2>7, <3>1, <3>3, <3>4, <3>5
  <2>. QED
    BY <2>7, <2>8 DEF StaleInv
<1>. QED
  BY <1>5, <1>6

(* What is put behind a queue. *)
LEMMA JoinFacts ==
  ASSUME NEW S, NEW q \in Seq(S), NEW t \in Seq(S), NEW r, r = q \o t
  PROVE  /\ r \in Seq(S) /\ Len(r) = Len(q) + Len(t)
         /\ \A i \in DOMAIN q : i \in DOMAIN r /\ r[i] = q[i] /\ i <= Len(q)
         /\ \A j \in DOMAIN t : Len(q) + j \in DOMAIN r /\ r[Len(q) + j] = t[j]
         /\ \A i \in DOMAIN r : \/ i \in DOMAIN q
                                \/ \E j \in DOMAIN t : i = Len(q) + j /\ i > Len(q)
<1>1. /\ r \in Seq(S) /\ Len(r) = Len(q) + Len(t)
      /\ \A i \in 1 .. Len(q) + Len(t) : r[i] = IF i <= Len(q) THEN q[i] ELSE t[i - Len(q)]
  BY ConcatProperties
<1>. DEFINE l == Len(q)
            m == Len(t)
<1>2. l \in Nat /\ m \in Nat /\ DOMAIN q = 1 .. l /\ DOMAIN t = 1 .. m /\ DOMAIN r = 1 .. l + m
  BY <1>1
<1>3. \A i \in 1 .. l + m : r[i] = IF i <= l THEN q[i] ELSE t[i - l]
  BY <1>1
<1>. HIDE DEF l, m
<1>4. \A i \in 1 .. l : i \in 1 .. l + m /\ r[i] = q[i] /\ i <= l
  BY <1>2, <1>3
<1>5. ASSUME NEW j \in 1 .. m PROVE l + j \in 1 .. l + m /\ r[l + j] = t[j]
  <2>. DEFINE i == l + j
  <2>1. i \in 1 .. l + m /\ ~(i <= l) /\ i - l = j
    BY <1>2
  <2>. HIDE DEF i
  <2>2. r[i] = t[i - l]
    BY <1>3, <2>1
  <2>3. r[i] = t[j]
    BY <2>1, <2>2
  <2>. QED
    BY <2>1, <2>3 DEF i
<1>6. ASSUME NEW i \in 1 .. l + m, i \notin 1 .. l
      PROVE  \E j \in 1 .. m : i = l + j /\ i > l
  <2>1. i - l \in 1 .. m /\ i = l + (i - l) /\ i > l
    BY <1>2, <1>6
  <2>. QED
    BY <2>1
<1>7. l = Len(q)
  BY DEF l
<1>. QED
  BY <1>1, <1>2, <1>4, <1>5, <1>6, <1>7

(* What is heard comes behind what is there. *)
LEMMA HeardFacts ==
  ASSUME rx \in Seq(Queued), NEW start, NEW item,
         NEW before, before = <<>> \/ before = <<start>>, rx' = rx \o before \o <<item>>
  PROVE  /\ \A i \in DOMAIN rx : i \in DOMAIN rx' /\ rx'[i] = rx[i] /\ i < Len(rx')
         /\ \A i \in DOMAIN rx' :
              \/ i \in DOMAIN rx /\ rx'[i] = rx[i]
              \/ rx'[i] = start /\ i < Len(rx')
              \/ rx'[i] = item /\ i = Len(rx')
         /\ \A i \in DOMAIN rx' : i <= Len(rx')
<1>. DEFINE S == Queued \cup {start, item}
            t == <<item>>
            q == rx \o before
<1>1. start \in S /\ item \in S /\ rx \in Seq(S)
  OBVIOUS
<1>. HIDE DEF S
<1>2. t \in Seq(S) /\ Len(t) = 1 /\ DOMAIN t = {1} /\ t[1] = item
  BY <1>1
<1>3. before \in Seq(S) /\ Len(before) \in 0 .. 1 /\ \A i \in DOMAIN before : before[i] = start
  <2>1. CASE before = <<>>
    <3>1. <<>> \in Seq(S) /\ Len(<<>>) = 0 /\ DOMAIN <<>> = {}
      BY EmptySeq
    <3>. QED
      BY <2>1, <3>1
  <2>2. CASE before = <<start>>
    <3>. DEFINE u == <<start>>
    <3>1. u \in Seq(S) /\ Len(u) = 1 /\ DOMAIN u = {1} /\ u[1] = start
      BY <1>1
    <3>2. before = u
      BY <2>2
    <3>. HIDE DEF u
    <3>. QED
      BY <3>1, <3>2
  <2>. QED
    BY <2>1, <2>2
<1>4. rx' = q \o t
  OBVIOUS
<1>. HIDE DEF t
<1>5. /\ q \in Seq(S) /\ Len(q) = Len(rx) + Len(before)
      /\ \A i \in DOMAIN rx : i \in DOMAIN q /\ q[i] = rx[i] /\ i <= Len(rx)
      /\ \A j \in DOMAIN before : Len(rx) + j \in DOMAIN q /\ q[Len(rx) + j] = before[j]
      /\ \A i \in DOMAIN q : \/ i \in DOMAIN rx
                             \/ \E j \in DOMAIN before : i = Len(rx) + j /\ i > Len(rx)
  BY <1>1, <1>3, JoinFacts
<1>. HIDE DEF q
<1>6. /\ rx' \in Seq(S) /\ Len(rx') = Len(q) + 1
      /\ \A i \in DOMAIN q : i \in DOMAIN rx' /\ rx'[i] = q[i] /\ i <= Len(q)
      /\ rx'[Len(q) + 1] = item
      /\ \A i \in DOMAIN rx' : i \in DOMAIN q \/ i = Len(q) + 1
  <2>1. /\ rx' \in Seq(S) /\ Len(rx') = Len(q) + Len(t)
        /\ \A i \in DOMAIN q : i \in DOMAIN rx' /\ rx'[i] = q[i] /\ i <= Len(q)
        /\ \A j \in DOMAIN t : Len(q) + j \in DOMAIN rx' /\ rx'[Len(q) + j] = t[j]
        /\ \A i \in DOMAIN rx' : \/ i \in DOMAIN q
                                 \/ \E j \in DOMAIN t : i = Len(q) + j /\ i > Len(q)
    <3>1. q \in Seq(S) /\ t \in Seq(S)
      BY <1>2, <1>5
    <3>. QED
      BY <1>4, <3>1, JoinFacts
  <2>. QED
    BY <1>2, <2>1
<1>7. Len(rx) \in Nat /\ Len(q) \in Nat /\ Len(q) < Len(rx') /\ Len(rx) <= Len(q)
  BY <1>1, <1>3, <1>5, <1>6
<1>8. DOMAIN q \subseteq Nat /\ DOMAIN rx \subseteq Nat
  BY <1>1, <1>5
<1>9. ASSUME NEW i \in DOMAIN rx PROVE i \in DOMAIN rx' /\ rx'[i] = rx[i] /\ i < Len(rx')
  BY <1>5, <1>6, <1>7, <1>8
<1>10. ASSUME NEW i \in DOMAIN q
       PROVE  i < Len(rx') /\ ((i \in DOMAIN rx /\ rx'[i] = rx[i]) \/ rx'[i] = start)
  <2>1. i < Len(rx') /\ rx'[i] = q[i]
    BY <1>6, <1>7, <1>8
  <2>2. (i \in DOMAIN rx /\ q[i] = rx[i]) \/ q[i] = start
    BY <1>3, <1>5
  <2>. QED
    BY <2>1, <2>2
<1>11. \A i \in DOMAIN rx' : i <= Len(rx')
  BY <1>6
<1>. QED
  BY <1>6, <1>9, <1>10, <1>11

LEMMA J2534HearsFresh ==
  ASSUME IInv, StaleInv, transport = "j2534", transport' = transport,
         NEW e \in Ecus, NEW kind \in Kinds, J2534Hears(e, kind)
  PROVE  StaleInv'
<1>. DEFINE reply == Reply(due[e][1], kind)
            start == Item("start", reply)
            item == Item("message", reply)
            before == IF Long(reply) THEN <<start>> ELSE <<>>
<1>1. /\ Says(e, kind) /\ due[e] # <<>>
      /\ due' = due \/ due' = [due EXCEPT ![e] = Tail(@)]
      /\ UNCHANGED <<client, request>>
      /\ rx' = IF e \notin passes THEN rx ELSE rx \o before \o <<item>>
  BY DEF J2534Hears, Says
<1>2. UNCHANGED <<session, asked, shown, call, written, answer, failed>>
  BY <1>1 DEF client, request
<1>3. VehicleInv /\ rx \in Seq(Queued)
  BY DEF IInv, J2534Inv
<1>4. reply.ecu = e /\ reply.kind = kind
  BY <1>1, <1>3, SayKeeps
<1>5. /\ start.ecu = e /\ start.type = "start" /\ item.ecu = e /\ item.type = "message"
      /\ item.reply = reply /\ (before = <<>> \/ before = <<start>>)
  BY <1>4 DEF Item
<1>6. OwnInv'
  BY <1>2, OwnStays DEF StaleInv
<1>. HIDE DEF start, item, before, reply
<1>7. e \in passes =>
        /\ \A i \in DOMAIN rx : i \in DOMAIN rx' /\ rx'[i] = rx[i] /\ i < Len(rx')
        /\ \A i \in DOMAIN rx' :
             \/ i \in DOMAIN rx /\ rx'[i] = rx[i]
             \/ rx'[i] = start /\ i < Len(rx')
             \/ rx'[i] = item /\ i = Len(rx')
        /\ \A i \in DOMAIN rx' : i <= Len(rx')
  BY <1>1, <1>3, <1>5, HeardFacts
<1>8. ASSUME NEW d \in Ecus \ failed PROVE Fresh(d)'
  <2>1. DueFresh(d) /\ RxFresh(d)
    BY <1>8 DEF StaleInv, Fresh
  <2>2. CASE d # e
    <3>1. due'[d] = due[d] /\ DueFresh(d)'
      BY <1>1, <1>3, <2>1, <2>2, OthersKeepDue
    <3>2. CASE e \notin passes
      BY <1>1, <1>2, <2>1, <3>1, <3>2 DEF RxFresh, Fresh, Underway
    <3>3. CASE e \in passes
      <4>1. ASSUME NEW i \in DOMAIN rx', Message(rx'[i], d)
            PROVE  i \in DOMAIN rx /\ rx'[i] = rx[i] /\ Message(rx[i], d)
        BY <1>5, <1>7, <2>2, <3>3, <4>1 DEF Message
      <4>2. RxFresh(d)'
        BY <1>2, <2>1, <3>1, <4>1 DEF RxFresh, Underway, Message
      <4>. QED
        BY <3>1, <4>2 DEF Fresh
    <3>. QED
      BY <3>2, <3>3
  <2>3. CASE d = e
    <3>1. /\ Underway(d) /\ reply.n = asked /\ DueFresh(d)'
          /\ kind = "pending" => due' = due
          /\ kind # "pending" => due'[d] = <<>>
      BY <1>1, <1>3, <2>1, <2>3, SpeaksFresh DEF reply
    <3>2. \A i \in DOMAIN rx : Message(rx[i], d) =>
            rx[i].reply.n = asked /\ rx[i].reply.kind = "pending"
      BY <1>1, <2>1, <2>3 DEF RxFresh
    <3>3. Underway(d)'
      BY <1>2, <3>1 DEF Underway
    <3>4. ASSUME NEW i \in DOMAIN rx', Message(rx'[i], d)
          PROVE  /\ rx'[i].reply.n = asked'
                 /\ rx'[i].reply.kind # "pending" =>
                      due'[d] = <<>> /\ \A j \in DOMAIN rx' : j > i => ~Message(rx'[j], d)
      <4>1. CASE e \notin passes
        BY <1>1, <1>2, <3>2, <3>4, <4>1 DEF Message
      <4>2. CASE e \in passes /\ i \in DOMAIN rx /\ rx'[i] = rx[i]
        BY <1>2, <3>2, <3>4, <4>2 DEF Message
      <4>3. CASE e \in passes /\ rx'[i] = start
        BY <1>5, <3>4, <4>3 DEF Message
      <4>4. CASE e \in passes /\ rx'[i] = item /\ i = Len(rx')
        <5>1. \A j \in DOMAIN rx' : j <= i
          BY <1>7, <4>4
        <5>2. rx' \in Seq(Queued)
          BY <1>1, <1>3, J2534HearsKeeps DEF IInv, J2534Inv
        <5>3. \A j \in DOMAIN rx' : ~(j > i)
          BY <5>1, <5>2
        <5>. QED
          BY <1>2, <1>4, <1>5, <3>1, <4>4, <5>3
      <4>. QED
        BY <1>7, <4>1, <4>2, <4>3, <4>4
    <3>5. RxFresh(d)'
      BY <3>3, <3>4 DEF RxFresh, Message
    <3>. QED
      BY <3>1, <3>5 DEF Fresh
  <2>. QED
    BY <2>2, <2>3
<1>. QED
  BY <1>2, <1>6, <1>8 DEF StaleInv

LEMMA J2534Fresh ==
  ASSUME IInv, StaleInv, transport = "j2534", transport' = transport, J2534Next
  PROVE  StaleInv'
<1>1. CASE J2534Open \/ J2534Close
  <2>1. rx' = <<>> /\ (Opened \/ Closed)
    BY <1>1 DEF J2534Open, J2534Close
  <2>3. OwnInv'
    BY <2>1, OpenIsFresh, CloseIsFresh
  <2>4. ASSUME NEW e \in Ecus \ failed' PROVE Fresh(e)'
    <3>1. due'[e] = <<>>
      <4>1. CASE Opened
        BY <4>1, OpenIsFresh
      <4>2. CASE Closed
        BY <2>4, <4>2, CloseIsFresh, FreshIsQuiet DEF StaleInv, Quiet
      <4>. QED
        BY <2>1, <4>1, <4>2
    <3>2. NoMessage(e)'
      BY <2>1 DEF NoMessage
    <3>3. Quiet(e)'
      BY <3>1, <3>2 DEF Quiet
    <3>. QED
      BY <3>3, QuietIsFresh
  <2>. QED
    BY <2>3, <2>4 DEF StaleInv
<1>2. CASE J2534OpenFails
  <2>1. rx' = <<>> /\ UNCHANGED <<asked, shown, call, written, answer, failed, due>>
    BY <1>2 DEF J2534OpenFails, OpenFails, vehicle, client, request
  <2>2. OwnInv'
    BY <2>1, OwnStays DEF StaleInv
  <2>3. ASSUME NEW e \in Ecus \ failed PROVE Fresh(e)'
    <3>1. DueFresh(e)'
      BY <2>1, <2>3 DEF StaleInv, Fresh, DueFresh, Underway
    <3>2. RxFresh(e)'
      BY <2>1 DEF RxFresh
    <3>. QED
      BY <3>1, <3>2 DEF Fresh
  <2>. QED
    BY <2>1, <2>2, <2>3 DEF StaleInv
<1>3. CASE J2534Write
  BY <1>3, J2534SendsFresh
<1>4. CASE J2534WriteFails \/ J2534ReadFails \/ J2534Timeout
  <2>1. Busy /\ rx' = rx /\ (Fails(Error) \/ Fails(Timeout))
    BY <1>4 DEF J2534WriteFails, J2534ReadFails, J2534Timeout, j2534
  <2>. QED
    BY <2>1, FailsFresh
<1>5. CASE J2534Read
  BY <1>5, J2534ReadFresh
<1>6. ASSUME NEW e \in Ecus, NEW kind \in Kinds, J2534Hears(e, kind)
      PROVE  StaleInv'
  BY <1>6, J2534HearsFresh
<1>. QED
  BY <1>1, <1>2, <1>3, <1>4, <1>5, <1>6 DEF J2534Next, J2534Step

-----------------------------------------------------------------------------
(* Between requests, and when a module forgets. *)
LEMMA CommandFresh ==
  ASSUME IInv, StaleInv, Command
  PROVE  StaleInv'
<1>1. (Ask \/ Take) /\ UNCHANGED <<transport, j2534, socketcan>>
  BY DEF Command
<1>2. UNCHANGED <<transport, rx, kernel, prefer, sockets, inbox, bound, wire, asks, held>>
  BY <1>1 DEF j2534, socketcan
<1>3. call = NoCall /\ UNCHANGED <<session, written, failed, due>> /\ ~written
      /\ \A e \in Ecus : ~Underway(e) /\ ~Underway(e)'
  BY <1>1 DEF Ask, Take, IInv, VehicleInv, CallInv, Underway
<1>. SUFFICES ASSUME transport # "elm" PROVE StaleInv'
  BY <1>2 DEF StaleInv
<1>4. OwnInv'
  <2>1. CASE Ask
    <3>1. answer = Waiting /\ UNCHANGED <<answer, shown>>
      BY <2>1 DEF Ask
    <3>. QED
      BY <1>3, <3>1 DEF OwnInv, StaleInv
  <2>2. CASE Take
    BY <2>2, OwnTakes DEF StaleInv, IInv
  <2>. QED
    BY <1>1, <2>1, <2>2
<1>5. transport = "socketcan" => ModeInv'
  <2>. SUFFICES ASSUME transport = "socketcan" PROVE ModeInv'
    OBVIOUS
  <2>1. ModeInv
    BY DEF StaleInv
  <2>. QED
    BY <1>2, <1>3, <2>1 DEF ModeInv
<1>6. ASSUME NEW e \in Ecus \ failed PROVE Fresh(e)'
  <2>1. Quiet(e)
    BY <1>3, FreshIsQuiet DEF StaleInv
  <2>2. Quiet(e)'
    BY <1>2, <1>3, <2>1 DEF Quiet, NoMessage, NoPart
  <2>. QED
    BY <1>3, <2>2, QuietIsFresh
<1>. QED
  BY <1>2, <1>3, <1>4, <1>5, <1>6 DEF StaleInv

LEMMA SilentFresh ==
  ASSUME IInv, StaleInv, Silent
  PROVE  StaleInv'
<1>1. PICK e \in Ecus : Ignore(e)
  BY DEF Silent
<1>2. due[e] # <<>> /\ due' = [due EXCEPT ![e] = Tail(@)]
      /\ UNCHANGED <<session, asked, shown, call, written, answer, failed>>
  BY <1>1 DEF Ignore, client, request
<1>3. UNCHANGED <<transport, rx, kernel, prefer, sockets, inbox, bound, wire, asks, held, awaiting, asm>>
  BY DEF Silent, j2534, socketcan
<1>. SUFFICES ASSUME transport # "elm" PROVE StaleInv'
  BY <1>3 DEF StaleInv
<1>4. OwnInv'
  BY <1>2, OwnStays DEF StaleInv
<1>5. transport = "socketcan" => ModeInv'
  <2>. SUFFICES ASSUME transport = "socketcan" PROVE ModeInv'
    OBVIOUS
  <2>1. ModeInv
    BY DEF StaleInv
  <2>. QED
    BY <1>2, <1>3, <2>1 DEF ModeInv
<1>6. ASSUME NEW d \in Ecus \ failed PROVE Fresh(d)'
  <2>1. due \in [Ecus -> Seq(Requests)]
    BY DEF IInv, VehicleInv, CallInv
  <2>2. DueFresh(d) /\ Fresh(d)
    BY <1>6 DEF StaleInv, Fresh
  <2>3. due'[d] = due[d] \/ due'[d] = <<>>
    <3>1. d # e => due'[d] = due[d]
      BY <1>2, <2>1
    <3>2. d = e => due'[d] = Tail(due[d]) /\ due[d] # <<>>
      BY <1>2, <2>1
    <3>3. d = e => Tail(due[d]) = <<>>
      BY <2>1, <2>2, <3>2 DEF DueFresh
    <3>. QED
      BY <3>1, <3>2, <3>3
  <2>4. due[d] = <<>> => due'[d] = <<>>
    BY <2>3
  <2>5. Underway(d)' = Underway(d)
    BY <1>2 DEF Underway
  <2>6. DueFresh(d)'
    <3>1. Len(<<>>) = 0
      OBVIOUS
    <3>. QED
      BY <1>2, <2>2, <2>3, <2>5, <3>1 DEF DueFresh
  <2>7. transport = "j2534" => RxFresh(d)'
    <3>. SUFFICES ASSUME transport = "j2534" PROVE RxFresh(d)'
      OBVIOUS
    <3>1. RxFresh(d)
      BY <2>2 DEF Fresh
    <3>. QED
      BY <1>2, <1>3, <2>4, <2>5, <3>1 DEF RxFresh
  <2>8. transport = "socketcan" /\ kernel => InboxFresh(d)'
    <3>. SUFFICES ASSUME transport = "socketcan" /\ kernel PROVE InboxFresh(d)'
      OBVIOUS
    <3>1. InboxFresh(d)
      BY <2>2 DEF Fresh
    <3>. QED
      BY <1>2, <1>3, <2>4, <2>5, <3>1 DEF InboxFresh
  <2>9. transport = "socketcan" /\ ~kernel => WireFresh(d)'
    <3>. SUFFICES ASSUME transport = "socketcan" /\ ~kernel PROVE WireFresh(d)'
      OBVIOUS
    <3>1. PartsFresh(wire, d) /\ HeldFresh(d) /\ AsmFresh(d)
      BY <2>2 DEF Fresh, WireFresh
    <3>2. PartsFresh(wire, d)'
      BY <1>2, <1>3, <2>4, <2>5, <3>1 DEF PartsFresh, PartFresh, Leads
    <3>3. HeldFresh(d)' /\ AsmFresh(d)'
      BY <1>2, <1>3, <2>4, <2>5, <3>1 DEF HeldFresh, AsmFresh
    <3>. QED
      BY <3>2, <3>3 DEF WireFresh
  <2>. QED
    BY <1>3, <2>6, <2>7, <2>8, <2>9 DEF Fresh
<1>. QED
  BY <1>2, <1>3, <1>4, <1>5, <1>6 DEF StaleInv

-----------------------------------------------------------------------------
(* The sockets of the kernel *)
LEMMA TailFacts ==
  ASSUME NEW S, NEW q \in Seq(S), q # <<>>, NEW r, r = Tail(q)
  PROVE  /\ r \in Seq(S) /\ Len(r) = Len(q) - 1 /\ Len(q) \in Nat
         /\ 1 \in DOMAIN q /\ q[1] \in S /\ (\A i \in DOMAIN q : i >= 1)
         /\ \A i \in DOMAIN r : i \in Nat /\ i > 0 /\ i + 1 \in DOMAIN q /\ r[i] = q[i + 1]
OBVIOUS

LEMMA KernelWriteFresh ==
  ASSUME IInv, StaleInv, transport = "socketcan", transport' = transport, KernelWrite
  PROVE  StaleInv'
<1>1. /\ Busy /\ ~written /\ kernel /\ Sent(call.ecu)
      /\ UNCHANGED <<kernel, prefer, inbox, bound, wire, held, asks>>
  BY DEF KernelWrite
<1>2. UNCHANGED <<session, asked, shown, call, answer, failed>> /\ session = "open"
  BY <1>1 DEF Sent, client, Busy
<1>3. OwnInv'
  BY <1>2, OwnStays DEF StaleInv
<1>4. ModeInv'
  <2>1. ModeInv
    BY DEF StaleInv
  <2>. QED
    BY <1>1, <1>2, <2>1 DEF ModeInv
<1>5. ASSUME NEW e \in Ecus \ failed PROVE Fresh(e)'
  <2>1. Quiet(e)
    BY <1>1, <1>5, FreshIsQuiet DEF StaleInv, Underway
  <2>2. DueFresh(e)'
    BY <1>1, <2>1, SentIsDue DEF Quiet, IInv
  <2>3. inbox'[e] = <<>>
    BY <1>1, <2>1 DEF Quiet
  <2>4. InboxFresh(e)'
    BY <2>3 DEF InboxFresh
  <2>. QED
    BY <1>1, <2>2, <2>4 DEF Fresh
<1>. QED
  BY <1>2, <1>3, <1>4, <1>5 DEF StaleInv

LEMMA KernelReadFresh ==
  ASSUME IInv, StaleInv, transport = "socketcan", transport' = transport, KernelRead
  PROVE  StaleInv'
<1>. DEFINE c == call.ecu
            reply == inbox[c][1]
<1>1. /\ Busy /\ written /\ call # NoCall /\ c \in Ecus /\ inbox[c] # <<>>
      /\ session = "open"
      /\ inbox' = [inbox EXCEPT ![c] = Tail(inbox[c])] /\ Receives(reply, TRUE)
      /\ UNCHANGED <<kernel, prefer, sockets, bound, wire, held, asks>>
  BY AskedFacts DEF KernelRead, Busy, IInv
<1>2. ModeInv /\ kernel /\ ~bound
  BY <1>1 DEF StaleInv, ModeInv
<1>3. /\ inbox \in [Ecus -> Seq(Replies)] /\ inbox[c] \in Seq(Said(c))
  BY <1>1 DEF IInv, SocketCanInv
<1>4. /\ Tail(inbox[c]) \in Seq(Said(c)) /\ Len(Tail(inbox[c])) = Len(inbox[c]) - 1
      /\ Len(inbox[c]) \in Nat /\ 1 \in DOMAIN inbox[c] /\ inbox[c][1] \in Said(c)
      /\ \A i \in DOMAIN Tail(inbox[c]) :
           i \in Nat /\ i > 0 /\ i + 1 \in DOMAIN inbox[c] /\ Tail(inbox[c])[i] = inbox[c][i + 1]
  <2>. DEFINE q == inbox[c]
              S == Said(c)
  <2>1. q \in Seq(S) /\ q # <<>>
    BY <1>1, <1>3
  <2>. HIDE DEF q, S
  <2>2. /\ Tail(q) \in Seq(S) /\ Len(Tail(q)) = Len(q) - 1 /\ Len(q) \in Nat
        /\ 1 \in DOMAIN q /\ q[1] \in S
        /\ \A i \in DOMAIN Tail(q) :
             i \in Nat /\ i > 0 /\ i + 1 \in DOMAIN q /\ Tail(q)[i] = q[i + 1]
    BY <2>1, TailFacts
  <2>. QED
    BY <2>2 DEF q, S
<1>5. reply \in Replies /\ reply.ecu = c
  BY <1>4 DEF Said
<1>6. \A e \in Ecus \ failed : DueFresh(e) /\ InboxFresh(e) /\ Fresh(e)
  BY <1>2 DEF StaleInv, Fresh
<1>7. c \in failed \/ reply.n = asked
  BY <1>1, <1>4, <1>6 DEF InboxFresh
<1>8. inbox'[c] = Tail(inbox[c]) /\ \A e \in Ecus : e # c => inbox'[e] = inbox[e]
  BY <1>1, <1>3
<1>. HIDE DEF reply
<1>9. OwnInv' /\ due' = due
      /\ ((Waits /\ reply.kind = "pending") \/ (Gives /\ reply.kind # "pending") \/ Breaks)
  BY <1>1, <1>5, <1>7, OwnReceives DEF StaleInv
<1>10. ModeInv'
  <2>1. session' = session
    BY <1>9 DEF Waits, Gives, Breaks
  <2>. QED
    BY <1>1, <1>2, <2>1 DEF ModeInv
<1>11. ASSUME NEW e \in Ecus \ failed' PROVE Fresh(e)'
  <2>1. e \notin failed /\ (Breaks => e # c)
    BY <1>9, <1>11 DEF Waits, Gives, Breaks
  <2>2. DueFresh(e) /\ InboxFresh(e) /\ Fresh(e)
    BY <1>6, <2>1
  <2>3. CASE e # c
    <3>1. Quiet(e) /\ ~Underway(e)
      BY <2>2, <2>3, FreshIsQuiet DEF Underway
    <3>2. Quiet(e)'
      BY <1>1, <1>2, <1>8, <1>9, <2>3, <3>1 DEF Quiet
    <3>. QED
      BY <1>1, <1>2, <3>2, QuietIsFresh
  <2>4. CASE e = c /\ Waits
    <3>1. DueFresh(e)'
      BY <1>9, <2>2, <2>4 DEF DueFresh, Underway, Waits
    <3>2. Underway(e)' = Underway(e) /\ asked' = asked /\ due' = due
      BY <1>9, <2>4 DEF Waits, Underway
    <3>3. ASSUME NEW i \in DOMAIN inbox'[e]
          PROVE  /\ Underway(e)' /\ inbox'[e][i].n = asked'
                 /\ inbox'[e][i].kind # "pending" => due'[e] = <<>> /\ i = Len(inbox'[e])
      <4>1. i \in Nat /\ i + 1 \in DOMAIN inbox[e] /\ inbox'[e][i] = inbox[e][i + 1]
            /\ Len(inbox'[e]) = Len(inbox[e]) - 1
        BY <1>4, <1>8, <2>4, <3>3
      <4>2. /\ Underway(e) /\ inbox[e][i + 1].n = asked
            /\ inbox[e][i + 1].kind # "pending" => due[e] = <<>> /\ i + 1 = Len(inbox[e])
        BY <2>2, <4>1 DEF InboxFresh
      <4>. QED
        BY <1>4, <2>4, <3>2, <4>1, <4>2
    <3>4. InboxFresh(e)'
      BY <3>3 DEF InboxFresh
    <3>. QED
      BY <1>1, <1>2, <3>1, <3>4 DEF Fresh
  <2>5. CASE e = c /\ Gives /\ reply.kind # "pending"
    <3>1. due[e] = <<>> /\ 1 = Len(inbox[e])
      BY <1>4, <2>2, <2>5 DEF InboxFresh, reply
    <3>2. inbox'[e] = <<>>
      <4>2. inbox'[e] = Tail(inbox[c]) /\ Len(inbox[c]) = 1
        BY <1>8, <2>5, <3>1
      <4>3. Tail(inbox[c]) \in Seq(Said(c)) /\ Len(Tail(inbox[c])) = Len(inbox[c]) - 1
        BY <1>4
      <4>. HIDE DEF c
      <4>1. inbox'[e] \in Seq(Said(c)) /\ Len(inbox'[e]) = 0
        BY <4>2, <4>3
      <4>. QED
        BY <4>1, EmptySeq
    <3>3. Quiet(e)'
      BY <1>1, <1>2, <1>9, <3>1, <3>2 DEF Quiet
    <3>. QED
      BY <1>1, <1>2, <3>3, QuietIsFresh
  <2>. QED
    BY <1>9, <2>1, <2>3, <2>4, <2>5
<1>. QED
  BY <1>9, <1>10, <1>11 DEF StaleInv

LEMMA KernelHearsFresh ==
  ASSUME IInv, StaleInv, transport = "socketcan", transport' = transport,
         NEW e \in Ecus, NEW kind \in Kinds, KernelHears(e, kind)
  PROVE  StaleInv'
<1>. DEFINE reply == Reply(due[e][1], kind)
<1>1. /\ kernel /\ Says(e, kind) /\ due[e] # <<>>
      /\ due' = due \/ due' = [due EXCEPT ![e] = Tail(@)]
      /\ UNCHANGED <<client, request>>
      /\ UNCHANGED <<kernel, prefer, sockets, bound, wire, held, asks>>
      /\ inbox' = IF e \in sockets THEN [inbox EXCEPT ![e] = Append(inbox[e], reply)] ELSE inbox
  BY DEF KernelHears, Says
<1>2. UNCHANGED <<session, asked, shown, call, written, answer, failed>>
  BY <1>1 DEF client, request
<1>3. VehicleInv /\ inbox \in [Ecus -> Seq(Replies)] /\ ModeInv
  BY DEF IInv, SocketCanInv, StaleInv
<1>4. reply \in Replies /\ reply.kind = kind
  BY <1>1, <1>3, SayKeeps
<1>5. OwnInv'
  BY <1>2, OwnStays DEF StaleInv
<1>6. ModeInv'
  BY <1>1, <1>2, <1>3 DEF ModeInv
<1>. HIDE DEF reply
<1>7. \A d \in Ecus : d # e => inbox'[d] = inbox[d]
  BY <1>1, <1>3
<1>8. inbox'[e] = inbox[e] \/ inbox'[e] = Append(inbox[e], reply)
  BY <1>1, <1>3
<1>9. ASSUME NEW d \in Ecus \ failed PROVE Fresh(d)'
  <2>1. DueFresh(d) /\ InboxFresh(d)
    BY <1>1, <1>9 DEF StaleInv, Fresh
  <2>2. CASE d # e
    <3>1. due'[d] = due[d] /\ DueFresh(d)'
      BY <1>1, <1>3, <2>1, <2>2, OthersKeepDue
    <3>2. InboxFresh(d)'
      BY <1>2, <1>7, <2>1, <2>2, <3>1 DEF InboxFresh, Underway
    <3>. QED
      BY <1>1, <3>1, <3>2 DEF Fresh
  <2>3. CASE d = e
    <3>1. /\ Underway(d) /\ reply.n = asked /\ DueFresh(d)'
          /\ kind # "pending" => due'[d] = <<>>
      BY <1>1, <1>3, <2>1, <2>3, SpeaksFresh DEF reply
    <3>2. \A i \in DOMAIN inbox[d] : inbox[d][i].n = asked /\ inbox[d][i].kind = "pending"
      BY <1>1, <2>1, <2>3 DEF InboxFresh
    <3>3. Underway(d)'
      BY <1>2, <3>1 DEF Underway
    <3>4. ASSUME NEW i \in DOMAIN inbox'[d]
          PROVE  /\ inbox'[d][i].n = asked'
                 /\ inbox'[d][i].kind # "pending" => due'[d] = <<>> /\ i = Len(inbox'[d])
      <4>1. CASE inbox'[d] = inbox[d]
        BY <1>2, <3>2, <3>4, <4>1
      <4>2. CASE inbox'[d] = Append(inbox[d], reply)
        <5>1. inbox[d] \in Seq(Replies)
          BY <1>3
        <5>2. (i \in DOMAIN inbox[d] /\ inbox'[d][i] = inbox[d][i])
              \/ (i = Len(inbox'[d]) /\ inbox'[d][i] = reply)
          BY <1>4, <3>4, <4>2, <5>1
        <5>. QED
          BY <1>2, <1>4, <3>1, <3>2, <5>2
      <4>. QED
        BY <1>8, <2>3, <4>1, <4>2
    <3>5. InboxFresh(d)'
      BY <3>3, <3>4 DEF InboxFresh
    <3>. QED
      BY <1>1, <3>1, <3>5 DEF Fresh
  <2>. QED
    BY <2>2, <2>3
<1>. QED
  BY <1>2, <1>5, <1>6, <1>9 DEF StaleInv

-----------------------------------------------------------------------------
(* The raw socket *)

(* Frames that are read or lost are missing from the wire; the others keep their *)
(* order.                                                                    *)
Thinned(q, r) ==
  \E place \in [DOMAIN r -> DOMAIN q] :
    \A i \in DOMAIN r : r[i] = q[place[i]] /\ \A j \in DOMAIN r : j > i => place[j] > place[i]

LEMMA TailThins ==
  ASSUME NEW S, NEW q \in Seq(S), q # <<>>
  PROVE  Thinned(q, Tail(q))
<1>. DEFINE r == Tail(q)
            place == [i \in DOMAIN r |-> i + 1]
<1>1. \A i \in DOMAIN r : i \in Nat /\ i + 1 \in DOMAIN q /\ r[i] = q[i + 1]
  BY TailFacts
<1>. HIDE DEF r
<1>2. place \in [DOMAIN r -> DOMAIN q]
  BY <1>1
<1>3. \A i \in DOMAIN r : r[i] = q[place[i]] /\ \A j \in DOMAIN r : j > i => place[j] > place[i]
  BY <1>1
<1>4. Thinned(q, r)
  BY <1>2, <1>3 DEF Thinned
<1>. QED
  BY <1>4 DEF r

LEMMA LossThins ==
  ASSUME NEW S, NEW q \in Seq(S), NEW i \in DOMAIN q,
         NEW r, r = SubSeq(q, 1, i - 1) \o SubSeq(q, i + 1, Len(q))
  PROVE  Thinned(q, r) /\ r \in Seq(S)
<1>. DEFINE a == SubSeq(q, 1, i - 1)
            b == SubSeq(q, i + 1, Len(q))
            l == Len(q)
            place == [k \in DOMAIN r |-> IF k < i THEN k ELSE k + 1]
<1>1. l \in Nat /\ DOMAIN q = 1 .. l /\ i \in 1 .. l
  OBVIOUS
<1>2. a \in Seq(S) /\ Len(a) = i - 1 /\ \A k \in 1 .. i - 1 : a[k] = q[k]
  BY <1>1
<1>3. /\ b \in Seq(S)
      /\ \A k \in DOMAIN b : k \in Nat /\ k + i \in DOMAIN q /\ b[k] = q[k + i] /\ k + i > i
  <2>1. i \in 0 .. Len(q) /\ b \in Seq(S)
    BY <1>1
  <2>. QED
    BY <2>1, SuffixFacts
<1>4. r = a \o b
  OBVIOUS
<1>. HIDE DEF a, b, l
<1>5. /\ r \in Seq(S) /\ Len(r) = Len(a) + Len(b)
      /\ \A k \in DOMAIN a : k \in DOMAIN r /\ r[k] = a[k] /\ k <= Len(a)
      /\ \A j \in DOMAIN b : Len(a) + j \in DOMAIN r /\ r[Len(a) + j] = b[j]
      /\ \A k \in DOMAIN r : \/ k \in DOMAIN a
                             \/ \E j \in DOMAIN b : k = Len(a) + j /\ k > Len(a)
  BY <1>2, <1>3, <1>4, JoinFacts
<1>6. DOMAIN a = 1 .. i - 1
  BY <1>2
<1>7. ASSUME NEW k \in DOMAIN r
      PROVE  k \in Nat /\ place[k] \in DOMAIN q /\ r[k] = q[place[k]]
  <2>1. CASE k \in DOMAIN a
    <3>1. k \in 1 .. i - 1 /\ r[k] = q[k]
      BY <1>2, <1>5, <1>6, <2>1
    <3>. QED
      BY <1>1, <3>1
  <2>2. CASE k \notin DOMAIN a
    <3>1. PICK j \in DOMAIN b : k = Len(a) + j
      BY <1>5, <2>2
    <3>2. k = i - 1 + j /\ r[k] = b[j]
      BY <1>2, <1>5, <3>1
    <3>3. j \in Nat /\ b[j] = q[j + i] /\ j + i \in DOMAIN q /\ j + i > i
      BY <1>3
    <3>4. k \in Nat /\ ~(k < i) /\ k + 1 = j + i
      BY <1>1, <3>2, <3>3
    <3>. QED
      BY <3>2, <3>3, <3>4
  <2>. QED
    BY <2>1, <2>2
<1>8. \A k \in DOMAIN r : \A j \in DOMAIN r : j > k => place[j] > place[k]
  <2>1. \A k \in DOMAIN r : k \in Nat
    BY <1>7
  <2>. QED
    BY <1>1, <2>1
<1>9. place \in [DOMAIN r -> DOMAIN q]
  BY <1>7
<1>. HIDE DEF place
<1>. QED
  BY <1>5, <1>7, <1>8, <1>9 DEF Thinned

LEMMA PartsThin ==
  ASSUME NEW e, NEW q, NEW r, Thinned(q, r), PartsFresh(q, e)
  PROVE  PartsFresh(r, e)
<1>1. PICK place \in [DOMAIN r -> DOMAIN q] :
        \A i \in DOMAIN r : r[i] = q[place[i]] /\ \A j \in DOMAIN r : j > i => place[j] > place[i]
  BY DEF Thinned
<1>. SUFFICES ASSUME NEW i \in DOMAIN r, Part(r[i], e)
              PROVE  PartFresh(r, e, i)
  BY DEF PartsFresh
<1>2. place[i] \in DOMAIN q /\ r[i] = q[place[i]]
  BY <1>1
<1>3. PartFresh(q, e, place[i])
  BY <1>2 DEF PartsFresh
<1>4. Leads(q, e, place[i]) => Leads(r, e, i)
  <2>. SUFFICES ASSUME Leads(q, e, place[i]), NEW j \in DOMAIN r, j > i, Part(r[j], e)
                PROVE  Goes(r[i], e) /\ Goes(r[j], e) /\ r[i].frame.index < r[j].frame.index
    BY DEF Leads
  <2>1. place[j] \in DOMAIN q /\ r[j] = q[place[j]] /\ place[j] > place[i]
    BY <1>1
  <2>. QED
    BY <1>2, <2>1 DEF Leads
<1>. QED
  BY <1>2, <1>3, <1>4 DEF PartFresh

LEMMA NoPartThin ==
  ASSUME NEW e, NEW q, NEW r, Thinned(q, r), NoPart(q, e)
  PROVE  NoPart(r, e)
<1>1. PICK place \in [DOMAIN r -> DOMAIN q] : \A i \in DOMAIN r : r[i] = q[place[i]]
  BY DEF Thinned
<1>. QED
  BY <1>1 DEF NoPart

(* What is on the wire is as good after a step that asks nobody. *)
LEMMA PartsStay ==
  ASSUME NEW e, PartsFresh(wire', e), Underway(e)' = Underway(e), UNCHANGED <<awaiting, asked>>,
         held'[e] = held[e] \/ held'[e] = NoCall, due'[e] = due[e] \/ due'[e] = <<>>
  PROVE  PartsFresh(wire, e)'
<1>. SUFFICES ASSUME NEW i \in DOMAIN wire', Part(wire'[i], e)
              PROVE  PartFresh(wire, e, i)'
  BY DEF PartsFresh, Part
<1>1. PartFresh(wire', e, i)
  BY DEF PartsFresh
<1>2. Leads(wire', e, i) => Leads(wire, e, i)'
  BY DEF Leads, Part, Goes
<1>. QED
  BY <1>1, <1>2 DEF PartFresh

LEMMA RawStays ==
  ASSUME NEW e, PartsFresh(wire', e), HeldFresh(e), AsmFresh(e),
         Underway(e)' = Underway(e), UNCHANGED <<awaiting, asked, asm>>,
         held'[e] = held[e] \/ held'[e] = NoCall, due'[e] = due[e] \/ due'[e] = <<>>
  PROVE  WireFresh(e)'
<1>1. PartsFresh(wire, e)'
  BY PartsStay
<1>2. due[e] = <<>> => due'[e] = <<>>
  OBVIOUS
<1>3. held[e] = NoCall => held'[e] = NoCall
  OBVIOUS
<1>4. HeldFresh(e)'
  BY <1>2 DEF HeldFresh
<1>5. AsmFresh(e)'
  BY <1>2, <1>3 DEF AsmFresh
<1>. QED
  BY <1>1, <1>4, <1>5 DEF WireFresh

(* A frame comes behind the others. *)
Added(q, r, w) ==
  \A i \in DOMAIN r : \/ i \in DOMAIN q /\ r[i] = q[i]
                      \/ r[i] = w /\ \A j \in DOMAIN r : ~(j > i)

LEMMA AppendAdds ==
  ASSUME NEW S, NEW q \in Seq(S), NEW w, NEW r,
         r = Append(q, w) \/ (\E t \in Seq(S) : Len(t) = 1 /\ t[1] = w /\ r = q \o t)
  PROVE  Added(q, r, w)
<1>. DEFINE l == Len(q)
<1>1. l \in Nat /\ DOMAIN q = 1 .. l
  OBVIOUS
<1>2. CASE r = Append(q, w)
  BY <1>2 DEF Added
<1>3. CASE \E t \in Seq(S) : Len(t) = 1 /\ t[1] = w /\ r = q \o t
  <2>1. PICK t \in Seq(S) : Len(t) = 1 /\ t[1] = w /\ r = q \o t
    BY <1>3
  <2>2. DOMAIN t = {1}
    BY <2>1
  <2>3. /\ r \in Seq(S) /\ Len(r) = Len(q) + Len(t)
        /\ \A i \in DOMAIN q : i \in DOMAIN r /\ r[i] = q[i] /\ i <= Len(q)
        /\ \A j \in DOMAIN t : Len(q) + j \in DOMAIN r /\ r[Len(q) + j] = t[j]
        /\ \A i \in DOMAIN r : \/ i \in DOMAIN q
                               \/ \E j \in DOMAIN t : i = Len(q) + j /\ i > Len(q)
    BY <2>1, JoinFacts
  <2>. HIDE DEF l
  <2>4. l = Len(q)
    BY DEF l
  <2>5. DOMAIN r = 1 .. l + 1 /\ r[l + 1] = w
    BY <1>1, <2>1, <2>2, <2>3, <2>4
  <2>6. \A i \in 1 .. l + 1 : i \in 1 .. l \/ i = l + 1
    BY <1>1
  <2>7. \A j \in 1 .. l + 1 : ~(j > l + 1)
    BY <1>1
  <2>. QED
    BY <1>1, <2>3, <2>5, <2>6, <2>7 DEF Added
<1>. QED
  BY <1>2, <1>3

LEMMA PartsAdded ==
  ASSUME NEW e, NEW q, NEW r, NEW w, Added(q, r, w), ~Part(w, e), PartsFresh(q, e)
  PROVE  PartsFresh(r, e)
<1>1. \A i \in DOMAIN r : Part(r[i], e) => i \in DOMAIN q /\ r[i] = q[i]
  BY DEF Added
<1>. SUFFICES ASSUME NEW i \in DOMAIN r, Part(r[i], e)
              PROVE  PartFresh(r, e, i)
  BY DEF PartsFresh
<1>2. i \in DOMAIN q /\ r[i] = q[i] /\ PartFresh(q, e, i)
  BY <1>1 DEF PartsFresh
<1>3. Leads(q, e, i) => Leads(r, e, i)
  BY <1>1, <1>2 DEF Leads
<1>. QED
  BY <1>2, <1>3 DEF PartFresh

LEMMA RawWriteFresh ==
  ASSUME IInv, StaleInv, transport = "socketcan", transport' = transport, RawWrite
  PROVE  StaleInv'
<1>1. /\ Busy /\ ~written /\ ~prefer /\ asm' = Reset /\ bound' = TRUE
      /\ \/ Sent(call.ecu) /\ awaiting' = FALSE
         \/ SentUnheard
      /\ UNCHANGED <<kernel, prefer, sockets, inbox, wire, held>>
      /\ call.ecu \in Ecus
  BY AskedFacts DEF RawWrite, Busy, IInv
<1>2. UNCHANGED <<session, asked, shown, call, answer, failed>> /\ session = "open"
  BY <1>1 DEF Sent, SentUnheard, client, Busy
<1>3. OwnInv'
  BY <1>2, OwnStays DEF StaleInv
<1>4. ~kernel /\ ModeInv
  BY <1>1 DEF StaleInv, ModeInv
<1>5. ModeInv'
  BY <1>1, <1>2, <1>4 DEF ModeInv
<1>6. ASSUME NEW e \in Ecus \ failed PROVE Fresh(e)'
  <2>1. Quiet(e)
    BY <1>1, <1>6, FreshIsQuiet DEF StaleInv, Underway
  <2>2. due[e] = <<>> /\ NoPart(wire, e) /\ held[e] = NoCall
    BY <1>4, <2>1 DEF Quiet
  <2>3. DueFresh(e)'
    <3>1. CASE Sent(call.ecu)
      BY <1>1, <2>2, <3>1, SentIsDue DEF IInv
    <3>2. CASE SentUnheard
      BY <2>2, <3>2 DEF SentUnheard, DueFresh
    <3>. QED
      BY <1>1, <3>1, <3>2
  <2>4. awaiting' => due'[e] = <<>>
    BY <1>1, <2>2 DEF SentUnheard
  <2>5. ~(asm'.expected > 0)
    BY <1>1 DEF Reset
  <2>6. AsmFresh(e)'
    BY <2>4, <2>5 DEF AsmFresh
  <2>7. PartsFresh(wire, e)' /\ HeldFresh(e)'
    BY <1>1, <2>2 DEF PartsFresh, HeldFresh, NoPart, Part
  <2>. QED
    BY <1>1, <1>4, <2>3, <2>6, <2>7 DEF Fresh, WireFresh
<1>. QED
  BY <1>2, <1>3, <1>5, <1>6 DEF StaleInv

(* A module allows the rest of a request or gives up an answer, a frame is lost, *)
(* the program falls back on the raw socket.                                 *)
LEMMA RawIdleFresh ==
  ASSUME IInv, StaleInv, transport = "socketcan", transport' = transport,
         \/ FallBack \/ LoseFrame
         \/ \E e \in Ecus : Abandon(e)
         \/ \E e \in Ecus, blockSize \in 0 .. 1 : Grant(e, blockSize)
  PROVE  StaleInv'
<1>1. /\ Idle /\ UNCHANGED <<kernel, sockets, inbox, bound, asm, awaiting>>
      /\ FallBack => UNCHANGED <<wire, held, asks>> /\ ~kernel
      /\ ~FallBack => prefer' = prefer
      /\ asks' = asks \/ asks' = {}
      /\ held' = held \/ \E e \in Ecus : held' = [held EXCEPT ![e] = NoCall]
      /\ \/ wire' = wire
         \/ \E i \in DOMAIN wire :
              wire' = SubSeq(wire, 1, i - 1) \o SubSeq(wire, i + 1, Len(wire))
         \/ ~kernel /\ asks # {} /\ \E e \in Ecus, blockSize \in 0 .. 1 :
              wire' = Append(wire, [ecu |-> e, frame |-> FlowControl(blockSize)])
  BY DEF FallBack, LoseFrame, Abandon, Grant
<1>2. UNCHANGED <<session, asked, shown, call, written, answer, failed, due>>
  BY <1>1 DEF Idle, vehicle, client, request
<1>3. OwnInv'
  BY <1>2, OwnStays DEF StaleInv
<1>4. ModeInv /\ held \in [Ecus -> Replies \cup {NoCall}] /\ wire \in Seq(Heard)
  BY DEF StaleInv, IInv, SocketCanInv
<1>5. \A e \in Ecus : held'[e] = held[e] \/ held'[e] = NoCall
  BY <1>1, <1>4
<1>6. wire = <<>> /\ asks = {} => wire' = <<>> /\ asks' = {}
  BY <1>1
<1>7. ModeInv'
  BY <1>1, <1>2, <1>4, <1>5, <1>6 DEF ModeInv
<1>8. ASSUME NEW e \in Ecus \ failed PROVE Fresh(e)'
  <2>1. DueFresh(e)' /\ Underway(e)' = Underway(e)
    BY <1>2, <1>8 DEF StaleInv, Fresh, DueFresh, Underway
  <2>2. CASE kernel
    <3>1. InboxFresh(e)'
      BY <1>1, <1>2, <1>8, <2>1, <2>2 DEF StaleInv, Fresh, InboxFresh
    <3>. QED
      BY <1>1, <2>1, <2>2, <3>1 DEF Fresh
  <2>3. CASE ~kernel
    <3>1. PartsFresh(wire, e) /\ HeldFresh(e) /\ AsmFresh(e)
      BY <1>8, <2>3 DEF StaleInv, Fresh, WireFresh
    <3>2. PartsFresh(wire', e)
      <4>1. CASE wire' = wire
        BY <3>1, <4>1
      <4>2. CASE \E i \in DOMAIN wire :
                   wire' = SubSeq(wire, 1, i - 1) \o SubSeq(wire, i + 1, Len(wire))
        BY <1>4, <3>1, <4>2, LossThins, PartsThin
      <4>3. ASSUME NEW d, NEW blockSize, wire' = Append(wire, [ecu |-> d, frame |-> FlowControl(blockSize)])
            PROVE  PartsFresh(wire', e)
        <5>. DEFINE w == [ecu |-> d, frame |-> FlowControl(blockSize)]
        <5>1. ~Part(w, e)
          BY DEF Part, FlowControl, Frame
        <5>. HIDE DEF w
        <5>2. Added(wire, wire', w)
          BY <1>4, <4>3, AppendAdds DEF w
        <5>. QED
          BY <3>1, <5>1, <5>2, PartsAdded
      <4>. QED
        BY <1>1, <4>1, <4>2, <4>3
    <3>3. WireFresh(e)'
      BY <1>1, <1>2, <1>5, <2>1, <3>1, <3>2, RawStays
    <3>. QED
      BY <1>1, <2>1, <2>3, <3>3 DEF Fresh
  <2>. QED
    BY <2>2, <2>3
<1>. QED
  BY <1>2, <1>3, <1>7, <1>8 DEF StaleInv

(* A module begins with a single frame, or with a first frame and waits with the *)
(* rest; responsePending is a single frame.                                  *)
LEMMA HeadOfPayload ==
  ASSUME NEW e, NEW reply \in Said(e)
  PROVE  /\ Payload(reply)[1].payload = reply
         /\ \/ Payload(reply)[1].kind = "single" /\ ~(Len(Payload(reply)) > 1)
            \/ Payload(reply)[1].kind = "first" /\ Len(Payload(reply)) > 1 /\ reply.kind = "positive"
<1>1. CASE Payload(reply) = <<Frame("single", 0, reply, 0)>>
  <2>1. Len(Payload(reply)) = 1 /\ Payload(reply)[1] = Frame("single", 0, reply, 0)
    BY <1>1
  <2>. QED
    BY <2>1 DEF Frame
<1>2. CASE /\ Payload(reply)[1] = Frame("first", 0, reply, Frames)
           /\ Len(Payload(reply)) = Frames + 1
           /\ reply.kind = "positive"
  BY <1>2, FramesFacts DEF Frame
<1>3. reply.kind # "positive" => Payload(reply) = <<Frame("single", 0, reply, 0)>>
  BY DEF Payload, Encode
<1>. QED
  BY <1>1, <1>2, <1>3, PayloadFacts

LEMMA RawHearsFresh ==
  ASSUME IInv, StaleInv, transport = "socketcan", transport' = transport,
         NEW e \in Ecus, NEW kind \in Kinds, RawHears(e, kind)
  PROVE  StaleInv'
<1>. DEFINE reply == Reply(due[e][1], kind)
            head == Payload(reply)[1]
            w == [ecu |-> e, frame |-> head]
<1>1. /\ bound /\ held[e] = NoCall /\ Says(e, kind) /\ due[e] # <<>>
      /\ due' = due \/ due' = [due EXCEPT ![e] = Tail(@)]
      /\ UNCHANGED <<client, request>>
      /\ wire' = wire \o OnWire(e, <<head>>)
      /\ held' = IF Len(Payload(reply)) > 1 THEN [held EXCEPT ![e] = reply] ELSE held
      /\ UNCHANGED <<kernel, prefer, sockets, inbox, bound, asm, awaiting, asks>>
  BY DEF RawHears, Says
<1>2. UNCHANGED <<session, asked, shown, call, written, answer, failed>>
  BY <1>1 DEF client, request
<1>3. /\ VehicleInv /\ ModeInv /\ wire \in Seq(Heard) /\ held \in [Ecus -> Replies \cup {NoCall}]
  BY DEF IInv, SocketCanInv, StaleInv
<1>4. reply \in Said(e) /\ reply.kind = kind
  BY <1>1, <1>3, SayKeeps DEF Said
<1>. HIDE DEF reply
<1>5. /\ head.payload = reply /\ head \in Spoken(e)
      /\ \/ head.kind = "single" /\ ~(Len(Payload(reply)) > 1)
         \/ head.kind = "first" /\ Len(Payload(reply)) > 1 /\ kind = "positive"
  BY <1>4, HeadOfPayload, PayloadTyped
<1>6. ~kernel
  BY <1>1, <1>3 DEF ModeInv
<1>7. OwnInv'
  BY <1>2, OwnStays DEF StaleInv
<1>8. ModeInv'
  BY <1>1, <1>2, <1>3, <1>6 DEF ModeInv
<1>. HIDE DEF head
<1>9. Added(wire, wire', w)
  <2>1. <<head>> \in Seq(Spoken(e)) /\ Len(<<head>>) = 1
    BY <1>5
  <2>2. OnWire(e, <<head>>) \in Seq(Heard) /\ Len(OnWire(e, <<head>>)) = 1
    BY <2>1, WireTyped
  <2>3. OnWire(e, <<head>>)[1] = w
    BY DEF OnWire
  <2>. HIDE DEF w
  <2>. QED
    BY <1>1, <1>3, <2>2, <2>3, AppendAdds
<1>10. w.ecu = e /\ w.frame = head
  OBVIOUS
<1>. HIDE DEF w
<1>11. ASSUME NEW d \in Ecus \ failed PROVE Fresh(d)'
  <2>1. DueFresh(d) /\ PartsFresh(wire, d) /\ HeldFresh(d) /\ AsmFresh(d)
    BY <1>6, <1>11 DEF StaleInv, Fresh, WireFresh
  <2>2. CASE d # e
    <3>1. due'[d] = due[d] /\ DueFresh(d)'
      BY <1>1, <1>3, <2>1, <2>2, OthersKeepDue
    <3>2. held'[d] = held[d]
      BY <1>1, <1>3, <2>2
    <3>3. PartsFresh(wire', d)
      BY <1>9, <1>10, <2>1, <2>2, PartsAdded DEF Part
    <3>4. Underway(d)' = Underway(d)
      BY <1>2 DEF Underway
    <3>5. WireFresh(d)'
      BY <1>1, <1>2, <2>1, <3>1, <3>2, <3>3, <3>4, RawStays
    <3>. QED
      BY <1>1, <1>6, <3>1, <3>5 DEF Fresh
  <2>3. CASE d = e
    <3>1. /\ Underway(e) /\ reply.n = asked /\ DueFresh(e)'
          /\ kind # "pending" => due'[e] = <<>>
      BY <1>1, <1>3, <2>1, <2>3, SpeaksFresh DEF reply
    <3>2. ~awaiting /\ ~(asm.expected > 0) /\ held[e] = NoCall
      BY <1>1, <2>1, <2>3, <3>1 DEF AsmFresh
    <3>3. Underway(e)' /\ ~awaiting'
      BY <1>1, <1>2, <3>1, <3>2 DEF Underway
    <3>4. ASSUME NEW i \in DOMAIN wire, Part(wire[i], e)
          PROVE  wire[i].frame.payload.n = asked /\ wire[i].frame.payload.kind = "pending"
                 /\ wire[i].frame.kind = "single"
      BY <1>1, <2>1, <2>3, <3>4 DEF PartsFresh, PartFresh
    <3>5. kind = "positive" /\ head.kind = "first" => held'[e] = reply
      BY <1>1, <1>3, <1>5
    <3>6. head.kind # "first" => held'[e] = NoCall
      <4>. SUFFICES ASSUME head.kind # "first" PROVE held'[e] = NoCall
        OBVIOUS
      <4>1. ~(Len(Payload(reply)) > 1)
        BY <1>5, Zenon
      <4>2. held' = held
        BY <1>1, <4>1
      <4>. QED
        BY <3>2, <4>2
    <3>7. ASSUME NEW i \in DOMAIN wire', Part(wire'[i], e)
          PROVE  PartFresh(wire, e, i)'
      <4>1. CASE i \in DOMAIN wire /\ wire'[i] = wire[i]
        BY <1>2, <3>3, <3>4, <3>7, <4>1 DEF PartFresh
      <4>2. CASE wire'[i] = w /\ \A j \in DOMAIN wire' : ~(j > i)
        <5>1. wire'[i].frame.payload = reply /\ wire'[i].frame.kind = head.kind
          BY <1>5, <1>10, <4>2
        <5>2. Leads(wire, e, i)'
          BY <4>2 DEF Leads
        <5>3. reply.kind = "pending" => head.kind = "single"
          BY <1>4, <1>5
        <5>. QED
          BY <1>2, <1>4, <3>1, <3>3, <3>6, <5>1, <5>2, <5>3 DEF PartFresh
      <4>. QED
        BY <1>9, <4>1, <4>2 DEF Added
    <3>8. PartsFresh(wire, e)'
      BY <3>7 DEF PartsFresh, Part
    <3>9. HeldFresh(e)'
      <4>1. CASE head.kind = "first"
        BY <1>2, <1>4, <1>5, <3>1, <3>3, <3>5, <4>1 DEF HeldFresh
      <4>2. CASE head.kind # "first"
        BY <3>6, <4>2 DEF HeldFresh
      <4>. QED
        BY <4>1, <4>2
    <3>10. AsmFresh(e)'
      BY <1>1, <3>2, <3>3 DEF AsmFresh
    <3>. QED
      BY <1>1, <1>6, <2>3, <3>1, <3>8, <3>9, <3>10 DEF Fresh, WireFresh
  <2>. QED
    BY <2>2, <2>3
<1>. QED
  BY <1>2, <1>7, <1>8, <1>11 DEF StaleInv

(* What becomes of a frame of the module asked. *)
Longer(a, f) ==
  [expected |-> a.expected - 1, next |-> a.next + 1, buffer |-> Append(a.buffer, f)]

LEMMA FeedCases ==
  ASSUME NEW e, NEW a \in Assembling(e), NEW f \in Granted \cup Spoken(e), NEW fed, fed = Feed(a, f)
  PROVE  \/ /\ f.kind = "flow" \/ (f.kind = "consecutive" /\ a.expected = 0)
            /\ fed = Fed(a, <<>>, FALSE, FALSE)
         \/ f.kind = "single" /\ fed = Fed(Reset, <<f>>, FALSE, FALSE)
         \/ f.kind = "first" /\ fed = Fed(Start(a, f), <<>>, TRUE, FALSE)
         \/ f.kind = "consecutive" /\ fed = Fed(a, <<>>, FALSE, TRUE)
         \/ /\ f.kind = "consecutive" /\ a.expected = 1 /\ InOrder(a, f)
            /\ fed = Fed(Reset, Append(a.buffer, f), FALSE, FALSE)
         \/ /\ f.kind = "consecutive" /\ a.expected > 1 /\ InOrder(a, f)
            /\ fed = Fed(Longer(a, f), <<>>, FALSE, FALSE)
<1>1. a.expected \in Nat
  BY DEF Assembling
<1>2. f.kind \in {"flow", "single", "first", "consecutive"}
  BY DEF Granted, FlowControl, Frame, Spoken
<1>3. CASE f.kind \in {"flow", "single", "first"}
  BY <1>3 DEF Feed
<1>4. CASE f.kind = "consecutive" /\ a.expected = 0
  BY <1>4 DEF Feed, InOrder
<1>5. CASE f.kind = "consecutive" /\ a.expected > 0 /\ ~InOrder(a, f)
  <2>1. a.expected # 0
    BY <1>1, <1>5
  <2>. QED
    BY <1>5, <2>1 DEF Feed
<1>6. CASE f.kind = "consecutive" /\ a.expected = 1 /\ InOrder(a, f)
  BY <1>6 DEF Feed, InOrder
<1>7. CASE f.kind = "consecutive" /\ a.expected > 1 /\ InOrder(a, f)
  <2>1. a.expected # 0 /\ a.expected # 1 /\ a.expected > 0
    BY <1>1, <1>7
  <2>. QED
    BY <1>7, <2>1 DEF Feed, Longer
<1>8. a.expected = 0 \/ a.expected = 1 \/ (a.expected > 1 /\ a.expected > 0)
  BY <1>1
<1>9. a.expected = 1 => a.expected > 0
  OBVIOUS
<1>. QED
  BY <1>2, <1>3, <1>4, <1>5, <1>6, <1>7, <1>8, <1>9, Zenon

Passed == wire' = Tail(wire) /\ held' = held

Skipped(f) ==
  /\ f.kind = "flow" \/ (f.kind = "consecutive" /\ asm.expected = 0)
  /\ Idle /\ asm' = asm /\ Passed

Alone(f) == f.kind = "single" /\ Receives(f.payload, IsWhole(<<f>>)) /\ asm' = Reset /\ Passed

Begins(e, f) ==
  /\ f.kind = "first" /\ Idle /\ asm' = Start(asm, f)
  /\ \/ held[e] = NoCall /\ Passed
     \/ held[e] # NoCall /\ wire' = Tail(wire) \o Rest(e) /\ held' = [held EXCEPT ![e] = NoCall]

Breaches(f) == f.kind = "consecutive" /\ Fails(Other) /\ Passed

Ends(f) ==
  /\ f.kind = "consecutive" /\ asm.expected = 1 /\ InOrder(asm, f)
  /\ asm' = Reset /\ Passed
  /\ Receives(Append(asm.buffer, f)[1].payload, IsWhole(Append(asm.buffer, f)))

Continues(f) ==
  /\ f.kind = "consecutive" /\ asm.expected > 1 /\ InOrder(asm, f)
  /\ asm' = Longer(asm, f) /\ Idle /\ Passed

Fetches(e, f) ==
  Skipped(f) \/ Alone(f) \/ Begins(e, f) \/ Breaches(f) \/ Ends(f) \/ Continues(f)

LEMMA FeedFetches ==
  ASSUME NEW e, asm \in Assembling(e), NEW f \in Granted \cup Spoken(e), RawFeed(f),
         IF Feed(asm, f).flow /\ Go(e)
           THEN wire' = Tail(wire) \o Rest(e) /\ held' = [held EXCEPT ![e] = NoCall]
           ELSE wire' = Tail(wire) /\ UNCHANGED held
  PROVE  Fetches(e, f) /\ awaiting' = awaiting
<1>. DEFINE fed == Feed(asm, f)
<1>1. /\ asm' = fed.asm /\ awaiting' = awaiting
      /\ IF fed.error THEN Fails(Other)
         ELSE IF fed.message # <<>>
           THEN Receives(fed.message[1].payload, IsWhole(fed.message))
           ELSE Idle
  BY DEF RawFeed
<1>2. IF fed.flow /\ held[e] # NoCall
        THEN wire' = Tail(wire) \o Rest(e) /\ held' = [held EXCEPT ![e] = NoCall]
        ELSE Passed
  BY DEF Go, Passed
<1>3. \/ /\ f.kind = "flow" \/ (f.kind = "consecutive" /\ asm.expected = 0)
         /\ fed = Fed(asm, <<>>, FALSE, FALSE)
      \/ f.kind = "single" /\ fed = Fed(Reset, <<f>>, FALSE, FALSE)
      \/ f.kind = "first" /\ fed = Fed(Start(asm, f), <<>>, TRUE, FALSE)
      \/ f.kind = "consecutive" /\ fed = Fed(asm, <<>>, FALSE, TRUE)
      \/ /\ f.kind = "consecutive" /\ asm.expected = 1 /\ InOrder(asm, f)
         /\ fed = Fed(Reset, Append(asm.buffer, f), FALSE, FALSE)
      \/ /\ f.kind = "consecutive" /\ asm.expected > 1 /\ InOrder(asm, f)
         /\ fed = Fed(Longer(asm, f), <<>>, FALSE, FALSE)
  BY FeedCases
<1>4. asm.buffer \in Seq(Spoken(e))
  BY DEF Assembling
<1>. HIDE DEF fed
<1>5. ASSUME NEW a, NEW m, NEW flow, NEW error, fed = Fed(a, m, flow, error)
      PROVE  fed.asm = a /\ fed.message = m /\ fed.flow = flow /\ fed.error = error
  BY <1>5 DEF Fed
<1>6. ASSUME NEW a, fed = Fed(a, <<>>, FALSE, FALSE)
      PROVE  asm' = a /\ Idle /\ Passed
  BY <1>1, <1>2, <1>5, <1>6
<1>7. ASSUME NEW m, m # <<>>, fed = Fed(Reset, m, FALSE, FALSE)
      PROVE  asm' = Reset /\ Receives(m[1].payload, IsWhole(m)) /\ Passed
  BY <1>1, <1>2, <1>5, <1>7
<1>8. CASE f.kind = "single" /\ fed = Fed(Reset, <<f>>, FALSE, FALSE)
  <2>1. <<f>> # <<>> /\ <<f>>[1] = f
    OBVIOUS
  <2>2. asm' = Reset /\ Receives(<<f>>[1].payload, IsWhole(<<f>>)) /\ Passed
    BY <1>7, <1>8, <2>1
  <2>3. Receives(f.payload, IsWhole(<<f>>))
    BY <2>1, <2>2
  <2>. QED
    BY <1>1, <1>8, <2>2, <2>3 DEF Fetches, Alone
<1>9. CASE /\ f.kind = "flow" \/ (f.kind = "consecutive" /\ asm.expected = 0)
           /\ fed = Fed(asm, <<>>, FALSE, FALSE)
  BY <1>1, <1>6, <1>9 DEF Fetches, Skipped
<1>10. CASE f.kind = "first" /\ fed = Fed(Start(asm, f), <<>>, TRUE, FALSE)
  <2>1. asm' = Start(asm, f) /\ Idle /\ fed.flow
    BY <1>1, <1>5, <1>10
  <2>. QED
    BY <1>1, <1>2, <1>10, <2>1 DEF Fetches, Begins
<1>11. CASE f.kind = "consecutive" /\ fed = Fed(asm, <<>>, FALSE, TRUE)
  <2>1. Fails(Other) /\ Passed
    BY <1>1, <1>2, <1>5, <1>11
  <2>. QED
    BY <1>1, <1>11, <2>1 DEF Fetches, Breaches
<1>12. CASE /\ f.kind = "consecutive" /\ asm.expected = 1 /\ InOrder(asm, f)
            /\ fed = Fed(Reset, Append(asm.buffer, f), FALSE, FALSE)
  <2>. DEFINE m == Append(asm.buffer, f)
  <2>1. m # <<>>
    BY <1>4
  <2>. HIDE DEF m
  <2>2. fed = Fed(Reset, m, FALSE, FALSE)
    BY <1>12 DEF m
  <2>3. asm' = Reset /\ Receives(m[1].payload, IsWhole(m)) /\ Passed
    BY <1>7, <2>1, <2>2
  <2>4. Ends(f)
    BY <1>12, <2>3 DEF Ends, m
  <2>. QED
    BY <1>1, <2>4 DEF Fetches
<1>13. CASE /\ f.kind = "consecutive" /\ asm.expected > 1 /\ InOrder(asm, f)
            /\ fed = Fed(Longer(asm, f), <<>>, FALSE, FALSE)
  <2>1. Continues(f)
    BY <1>6, <1>13 DEF Continues
  <2>. QED
    BY <1>1, <2>1 DEF Fetches
<1>. QED
  BY <1>3, <1>8, <1>9, <1>10, <1>11, <1>12, <1>13

LEMMA RestFacts ==
  ASSUME NEW e \in Ecus, held[e] \in Said(e)
  PROVE  /\ Rest(e) \in Seq(Heard)
         /\ \A i \in DOMAIN Rest(e) :
              /\ i \in Nat /\ Rest(e)[i].ecu = e
              /\ Rest(e)[i].frame = Frame("consecutive", i, held[e], Frames)
<1>. DEFINE rest == Tail(Payload(held[e]))
<1>1. rest \in Seq(Spoken(e))
      /\ \A i \in DOMAIN rest : rest[i] = Frame("consecutive", i, held[e], Frames)
  BY PayloadTyped
<1>. HIDE DEF rest
<1>2. OnWire(e, rest) \in Seq(Heard)
  BY <1>1, WireTyped
<1>3. ASSUME NEW i \in DOMAIN OnWire(e, rest)
      PROVE  /\ i \in Nat /\ OnWire(e, rest)[i].ecu = e
             /\ OnWire(e, rest)[i].frame = Frame("consecutive", i, held[e], Frames)
  <2>1. i \in DOMAIN rest /\ OnWire(e, rest)[i] = [ecu |-> e, frame |-> rest[i]]
    BY <1>3 DEF OnWire
  <2>2. i \in Nat
    BY <1>1, <2>1
  <2>. QED
    BY <1>1, <2>1, <2>2
<1>. QED
  BY <1>2, <1>3 DEF Rest, rest

(* The frame at the head of the wire is another module's, allows the rest of the *)
(* request, or is fed to the reassembler.                                    *)
LEMMA RawReads ==
  ASSUME VehicleInv, SocketCanInv, RawRead
  PROVE  /\ Underway(call.ecu) /\ Busy /\ ~prefer /\ call.ecu \in Ecus
         /\ UNCHANGED <<kernel, prefer, sockets, inbox, bound, asks>>
         /\ wire \in Seq(Heard) /\ wire # <<>> /\ 1 \in DOMAIN wire /\ wire[1].ecu \in Ecus
         /\ wire[1].frame \in Granted \cup Spoken(wire[1].ecu)
         /\ \/ wire[1].ecu # call.ecu /\ Idle /\ Passed /\ UNCHANGED <<asm, awaiting>>
            \/ /\ wire[1].ecu = call.ecu /\ awaiting /\ wire[1].frame.kind = "flow"
               /\ (Sent(call.ecu) \/ Idle) /\ awaiting' = FALSE /\ asm' = asm /\ Passed
            \/ /\ wire[1].ecu = call.ecu /\ Fetches(call.ecu, wire[1].frame)
               /\ awaiting' = awaiting
<1>. DEFINE e == wire[1].ecu
            f == wire[1].frame
<1>1. /\ Busy /\ written /\ ~prefer /\ wire # <<>>
      /\ UNCHANGED <<kernel, prefer, sockets, inbox, bound, asks>>
      /\ IF e # call.ecu
           THEN Idle /\ wire' = Tail(wire) /\ UNCHANGED <<asm, awaiting, held>>
         ELSE IF awaiting /\ f.kind = "flow"
           THEN RawContinue(f) /\ wire' = Tail(wire)
         ELSE /\ RawFeed(f)
              /\ IF Feed(asm, f).flow /\ Go(e)
                   THEN wire' = Tail(wire) \o Rest(e) /\ held' = [held EXCEPT ![e] = NoCall]
                   ELSE wire' = Tail(wire) /\ UNCHANGED held
  BY DEF RawRead
<1>2. wire \in Seq(Heard) /\ 1 \in DOMAIN wire /\ e \in Ecus /\ f \in Granted \cup Spoken(e)
  <2>1. wire \in Seq(Heard)
    BY DEF SocketCanInv
  <2>2. 1 \in DOMAIN wire
    BY <1>1, <2>1
  <2>. QED
    BY <1>1, <2>1, <2>2, HeadFacts
<1>3. call # NoCall /\ call.ecu \in Ecus /\ asm \in Assembling(call.ecu) /\ Underway(call.ecu)
  BY <1>1, AskedFacts DEF Busy, SocketCanInv, Underway
<1>. HIDE DEF e, f
<1>4. CASE e # call.ecu
  BY <1>1, <1>2, <1>3, <1>4 DEF e, f, Passed
<1>5. CASE e = call.ecu /\ awaiting /\ f.kind = "flow"
  <2>1. (Sent(call.ecu) \/ Idle) /\ awaiting' = FALSE /\ asm' = asm /\ Passed
    BY <1>1, <1>5 DEF RawContinue, Passed
  <2>. QED
    BY <1>1, <1>2, <1>3, <1>5, <2>1 DEF e, f
<1>6. CASE e = call.ecu /\ ~(awaiting /\ f.kind = "flow")
  <2>1. Fetches(e, f) /\ awaiting' = awaiting
    <3>1. RawFeed(f) /\ IF Feed(asm, f).flow /\ Go(e)
                   THEN wire' = Tail(wire) \o Rest(e) /\ held' = [held EXCEPT ![e] = NoCall]
                   ELSE wire' = Tail(wire) /\ UNCHANGED held
      BY <1>1, <1>6
    <3>. QED
      BY <1>2, <1>3, <1>6, <3>1, FeedFetches
  <2>2. Fetches(call.ecu, f)
    BY <1>6, <2>1
  <2>. QED
    BY <1>1, <1>2, <1>3, <1>6, <2>1, <2>2 DEF e, f
<1>. QED
  BY <1>4, <1>5, <1>6

(* What is put together of a module's frames is an answer of it, to the question *)
(* under way if nothing is wrong.                                            *)
LEMMA ToldFacts ==
  ASSUME IInv, StaleInv, transport = "socketcan", ~kernel, Underway(call.ecu), call.ecu \in Ecus,
         ~prefer, wire \in Seq(Heard), 1 \in DOMAIN wire, wire[1].ecu = call.ecu,
         NEW f \in Spoken(call.ecu), f = wire[1].frame,
         NEW reply, \/ f.kind = "single" /\ reply = f.payload
                    \/ asm.expected = 1 /\ reply = Append(asm.buffer, f)[1].payload
  PROVE  reply \in Replies /\ reply.ecu = call.ecu /\ (call.ecu \in failed \/ reply.n = asked)
<1>. DEFINE c == call.ecu
<1>1. asm \in Assembling(c) /\ asm.buffer \in Seq(Spoken(c))
  BY DEF IInv, SocketCanInv, Underway, Assembling
<1>2. f.payload \in Said(c) /\ (f.kind = "single" => f.kind # "flow")
  BY DEF Spoken
<1>3. c \notin failed => WireFresh(c)
  BY DEF StaleInv, Fresh
<1>. HIDE DEF c
<1>4. CASE f.kind = "single" /\ reply = f.payload
  <2>1. Part(wire[1], c)
    BY <1>4 DEF Part, c
  <2>2. c \notin failed => reply.n = asked
    BY <1>3, <1>4, <2>1 DEF WireFresh, PartsFresh, PartFresh
  <2>. QED
    BY <1>2, <1>4, <2>2 DEF Said, c
<1>5. CASE asm.expected = 1 /\ reply = Append(asm.buffer, f)[1].payload
  <2>1. f \in Spoken(c)
    BY DEF c
  <2>. DEFINE b == asm.buffer
  <2>2. Append(b, f) \in Seq(Spoken(c)) /\ Append(b, f) # <<>>
    BY <1>1, <2>1
  <2>3. Append(b, f)[1] \in Spoken(c)
    BY <2>2
  <2>4. reply \in Said(c)
    BY <1>5, <2>3 DEF Spoken
  <2>5. c \notin failed => b # <<>> /\ b[1].payload.n = asked
    <3>1. asm.expected > 0
      BY <1>5
    <3>. QED
      BY <1>3, <3>1 DEF WireFresh, AsmFresh, c
  <2>6. b # <<>> => Append(b, f)[1] = b[1]
    BY <1>1, <2>1
  <2>. QED
    BY <1>5, <2>4, <2>5, <2>6 DEF Said, c
<1>. QED
  BY <1>4, <1>5

(* What a raw read does to the client. *)
LEMMA RawReadClient ==
  ASSUME IInv, StaleInv, transport = "socketcan", transport' = transport, ~kernel, RawRead
  PROVE  /\ OwnInv'
         /\ UNCHANGED <<session, asked>> /\ failed \subseteq failed'
         /\ call' = call \/ call' = NoCall
         /\ \A e \in Ecus : e # call.ecu => due'[e] = due[e]
<1>. DEFINE c == call.ecu
            f == wire[1].frame
<1>1. VehicleInv /\ SocketCanInv /\ OwnInv
  BY DEF IInv, StaleInv
<1>2. /\ Underway(c) /\ Busy /\ ~prefer /\ c \in Ecus
      /\ wire \in Seq(Heard) /\ 1 \in DOMAIN wire
      /\ f \in Granted \cup Spoken(wire[1].ecu)
      /\ \/ Idle
         \/ Sent(c)
         \/ wire[1].ecu = c /\ (Alone(f) \/ Breaches(f) \/ Ends(f))
  BY <1>1, RawReads DEF Fetches, Skipped, Begins, Continues
<1>3. CASE Idle
  <2>1. UNCHANGED <<session, asked, shown, call, answer, failed, due>>
    BY <1>3 DEF Idle, vehicle, client, request
  <2>. QED
    BY <1>1, <2>1, OwnStays
<1>4. CASE Sent(c)
  <2>1. UNCHANGED <<session, asked, shown, call, answer, failed>>
        /\ due' = [due EXCEPT ![c] = Append(@, [call EXCEPT !.ecu = c])]
    BY <1>4 DEF Sent, client
  <2>2. due \in [Ecus -> Seq(Requests)]
    BY <1>1 DEF VehicleInv, CallInv
  <2>3. \A e \in Ecus : e # c => due'[e] = due[e]
    BY <2>1, <2>2
  <2>. QED
    BY <1>1, <2>1, <2>3, OwnStays
<1>5. CASE wire[1].ecu = c /\ Breaches(f)
  <2>1. OwnInv' /\ due' = due /\ Breaks
    BY <1>1, <1>5, OwnFails DEF Breaches
  <2>. QED
    BY <2>1 DEF Breaks
<1>6. ASSUME wire[1].ecu = c, NEW reply, NEW complete, Receives(reply, complete),
             f.kind \in {"single", "consecutive"},
             \/ f.kind = "single" /\ reply = f.payload
             \/ asm.expected = 1 /\ reply = Append(asm.buffer, f)[1].payload
      PROVE  /\ OwnInv'
             /\ UNCHANGED <<session, asked>> /\ failed \subseteq failed'
             /\ call' = call \/ call' = NoCall
             /\ \A e \in Ecus : e # c => due'[e] = due[e]
  <2>1. f \in Spoken(c)
    BY <1>2, <1>6 DEF Granted, FlowControl, Frame
  <2>2. reply \in Replies /\ reply.ecu = c /\ (c \in failed \/ reply.n = asked)
    <3>. HIDE DEF f
    <3>1. f = wire[1].frame
      BY DEF f
    <3>. QED
      BY <1>2, <1>6, <2>1, <3>1, ToldFacts
  <2>3. OwnInv' /\ due' = due
        /\ ((Waits /\ reply.kind = "pending") \/ (Gives /\ reply.kind # "pending") \/ Breaks)
    BY <1>1, <1>6, <2>2, OwnReceives
  <2>. QED
    BY <2>3 DEF Waits, Gives, Breaks
<1>7. CASE wire[1].ecu = c /\ Alone(f)
  BY <1>6, <1>7 DEF Alone
<1>8. CASE wire[1].ecu = c /\ Ends(f)
  BY <1>6, <1>8 DEF Ends
<1>. QED
  BY <1>2, <1>3, <1>4, <1>5, <1>7, <1>8

LEMMA NoPartJoined ==
  ASSUME NEW e, NEW S, NEW q \in Seq(S), NEW t \in Seq(S), NEW r, r = q \o t,
         NoPart(q, e), NoPart(t, e)
  PROVE  NoPart(r, e)
<1>1. \A i \in DOMAIN q : i \in DOMAIN r /\ r[i] = q[i] /\ i <= Len(q)
  BY JoinFacts
<1>2. \A j \in DOMAIN t : Len(q) + j \in DOMAIN r /\ r[Len(q) + j] = t[j]
  BY JoinFacts
<1>3. \A i \in DOMAIN r : i \in DOMAIN q \/ \E j \in DOMAIN t : i = Len(q) + j /\ i > Len(q)
  BY JoinFacts
<1>. QED
  BY <1>1, <1>2, <1>3 DEF NoPart

LEMMA RawReadOthers ==
  ASSUME IInv, StaleInv, transport = "socketcan", transport' = transport, ~kernel, RawRead,
         NEW e \in Ecus \ failed, e # call.ecu
  PROVE  Fresh(e)'
<1>. DEFINE c == call.ecu
            q == Tail(wire)
<1>1. VehicleInv /\ SocketCanInv
  BY DEF IInv
<1>2. /\ Underway(c) /\ c \in Ecus /\ kernel' = kernel /\ wire \in Seq(Heard) /\ wire # <<>>
      /\ Passed \/ (/\ held[c] # NoCall /\ wire' = q \o Rest(c)
                    /\ held' = [held EXCEPT ![c] = NoCall])
  BY <1>1, RawReads DEF Fetches, Skipped, Alone, Begins, Breaches, Ends, Continues
<1>3. /\ call' = call \/ call' = NoCall
      /\ due'[e] = due[e]
  BY RawReadClient
<1>4. ~Underway(e) /\ ~Underway(e)'
  BY <1>3 DEF Underway
<1>5. due[e] = <<>> /\ NoPart(wire, e) /\ held[e] = NoCall
  BY <1>4, FreshIsQuiet DEF StaleInv, Quiet
<1>. HIDE DEF c, q
<1>6. q \in Seq(Heard) /\ NoPart(q, e)
  <2>1. Thinned(wire, q)
    BY <1>2, TailThins DEF q
  <2>2. NoPart(q, e)
    BY <1>5, <2>1, NoPartThin
  <2>. QED
    BY <1>2, <2>2, TailFacts DEF q
<1>7. NoPart(wire', e) /\ held'[e] = NoCall
  <2>1. CASE Passed
    BY <1>5, <1>6, <2>1 DEF Passed, q
  <2>2. CASE /\ held[c] # NoCall /\ wire' = q \o Rest(c)
             /\ held' = [held EXCEPT ![c] = NoCall]
    <3>1. /\ Rest(c) \in Seq(Heard)
          /\ \A i \in DOMAIN Rest(c) : Rest(c)[i].ecu = c
      BY <1>1, <1>2, <2>2, RestFacts DEF SocketCanInv
    <3>. DEFINE t == Rest(c)
    <3>2. t \in Seq(Heard) /\ (\A i \in DOMAIN t : t[i].ecu = c) /\ wire' = q \o t
      BY <2>2, <3>1
    <3>3. \A i \in DOMAIN t : ~Part(t[i], e)
      BY <3>2 DEF Part, c
    <3>. HIDE DEF t
    <3>4. e # c
      BY DEF c
    <3>5. NoPart(wire', e)
      BY <1>6, <3>2, <3>3, NoPartJoined DEF NoPart
    <3>6. held'[e] = NoCall
      BY <1>1, <1>5, <2>2, <3>4 DEF SocketCanInv
    <3>. QED
      BY <3>5, <3>6 DEF NoPart
  <2>. QED
    BY <1>2, <2>1, <2>2
<1>8. Quiet(e)'
  BY <1>2, <1>3, <1>5, <1>7 DEF Quiet, NoPart, Part
<1>. QED
  BY <1>4, <1>8, QuietIsFresh

LEMMA EmptyWireFresh ==
  ASSUME NEW e, NoPart(wire', e), held'[e] = NoCall, DueFresh(e)', AsmFresh(e)',
         transport' = "socketcan", ~kernel'
  PROVE  Fresh(e)'
<1>1. PartsFresh(wire, e)' /\ HeldFresh(e)'
  BY DEF PartsFresh, NoPart, Part, HeldFresh
<1>. QED
  BY <1>1 DEF Fresh, WireFresh

(* Behind a final answer in one frame, and behind the last frame of any, the   *)
(* module has nothing on the wire.                                           *)
LEMMA NoMoreParts ==
  ASSUME NEW e, wire \in Seq(Heard), wire # <<>>, Leads(wire, e, 1),
         ~Goes(wire[1], e) \/ wire[1].frame.index = Frames
  PROVE  NoPart(Tail(wire), e)
<1>. SUFFICES ASSUME NEW i \in DOMAIN Tail(wire), Part(Tail(wire)[i], e)
              PROVE  FALSE
  BY DEF NoPart
<1>1. i \in Nat /\ i > 0 /\ i + 1 \in DOMAIN wire /\ Tail(wire)[i] = wire[i + 1]
  BY TailFacts
<1>2. i + 1 > 1
  BY <1>1
<1>3. Goes(wire[1], e) /\ wire[1].frame.index < wire[i + 1].frame.index /\ Part(wire[i + 1], e)
  BY <1>1, <1>2 DEF Leads
<1>4. wire[i + 1] \in Heard
  BY <1>1
<1>5. wire[i + 1].frame \in Spoken(wire[i + 1].ecu)
  BY <1>3, <1>4 DEF Heard, Part, Granted, FlowControl, Frame
<1>6. wire[i + 1].frame.index \in 0 .. Frames
  BY <1>5 DEF Spoken
<1>. QED
  BY <1>3, <1>6, FramesFacts

(* The rest of an answer, behind other frames. *)
LEMMA RestIsFresh ==
  ASSUME NEW e \in Ecus, held[e] # NoCall, held[e] \in Said(e), HeldFresh(e),
         NEW q \in Seq(Heard), NoPart(q, e), wire' = q \o Rest(e),
         held'[e] = NoCall, UNCHANGED <<awaiting, asked, due>>, Underway(e)' = Underway(e)
  PROVE  PartsFresh(wire, e)'
<1>. DEFINE t == Rest(e)
            S == Heard
<1>1. /\ t \in Seq(S)
      /\ \A j \in DOMAIN t :
           j \in Nat /\ t[j].ecu = e /\ t[j].frame = Frame("consecutive", j, held[e], Frames)
  BY RestFacts
<1>3. /\ Underway(e)' /\ ~awaiting' /\ held[e].n = asked' /\ held[e].kind # "pending"
      /\ due'[e] = <<>>
  BY DEF HeldFresh
<1>4. q \in Seq(S) /\ t \in Seq(S) /\ wire' = q \o t
  BY <1>1
<1>. HIDE DEF t, S
<1>5. \A i \in DOMAIN q : i \in DOMAIN wire' /\ wire'[i] = q[i] /\ i <= Len(q)
  BY <1>4, JoinFacts
<1>6. \A j \in DOMAIN t : Len(q) + j \in DOMAIN wire' /\ wire'[Len(q) + j] = t[j]
  BY <1>4, JoinFacts
<1>7. ASSUME NEW i \in DOMAIN wire', i \notin DOMAIN q
      PROVE  \E j \in DOMAIN t : i = Len(q) + j
  <2>1. wire' \in Seq(S) /\ Len(wire') = Len(q) + Len(t)
    BY <1>4, JoinFacts
  <2>2. Len(q) \in Nat /\ Len(t) \in Nat /\ DOMAIN q = 1 .. Len(q) /\ DOMAIN t = 1 .. Len(t)
        /\ DOMAIN wire' = 1 .. Len(wire')
    BY <1>4, <2>1
  <2>. DEFINE l == Len(q)
              k == Len(t)
  <2>3. l \in Nat /\ k \in Nat /\ i \in 1 .. l + k /\ i \notin 1 .. l
    BY <1>7, <2>1, <2>2
  <2>. HIDE DEF l, k
  <2>4. i - l \in 1 .. k /\ i = l + (i - l)
    BY <2>3
  <2>. QED
    BY <2>2, <2>4 DEF l, k
<1>8. Len(q) \in Nat
  BY <1>4
<1>9. ASSUME NEW i \in DOMAIN wire', Part(wire'[i], e)
      PROVE  \E j \in DOMAIN t : i = Len(q) + j /\ wire'[i] = t[j]
  BY <1>5, <1>6, <1>7, <1>9 DEF NoPart
<1>10. \A j \in DOMAIN t : /\ j \in Nat /\ Goes(t[j], e)
                           /\ t[j].frame.index = j /\ t[j].frame.payload = held[e]
                           /\ t[j].frame.kind = "consecutive"
  <2>1. TAKE j \in DOMAIN t
  <2>2. j \in Nat /\ t[j].ecu = e /\ t[j].frame = Frame("consecutive", j, held[e], Frames)
    BY <1>1
  <2>. DEFINE w == t[j].frame
  <2>3. w.index = j /\ w.payload = held[e] /\ w.kind = "consecutive"
    BY <2>2 DEF Frame
  <2>. QED
    BY <2>2, <2>3 DEF Goes
<1>11. ASSUME NEW i \in DOMAIN wire', Part(wire'[i], e), NEW k \in DOMAIN wire', k > i,
              Part(wire'[k], e)
       PROVE  /\ Goes(wire'[i], e) /\ Goes(wire'[k], e)
              /\ wire'[i].frame.index < wire'[k].frame.index
  <2>1. PICK j \in DOMAIN t : i = Len(q) + j /\ wire'[i] = t[j]
    BY <1>9, <1>11
  <2>2. PICK l \in DOMAIN t : k = Len(q) + l /\ wire'[k] = t[l]
    BY <1>9, <1>11
  <2>3. j \in Nat /\ l \in Nat /\ Goes(t[j], e) /\ Goes(t[l], e)
        /\ t[j].frame.index = j /\ t[l].frame.index = l
    BY <1>10
  <2>4. j < l
    BY <1>8, <1>11, <2>1, <2>2, <2>3
  <2>. QED
    BY <2>1, <2>2, <2>3, <2>4
<1>12. ASSUME NEW i \in DOMAIN wire', Part(wire'[i], e)
       PROVE  PartFresh(wire, e, i)'
  <2>1. wire'[i].frame.payload = held[e] /\ wire'[i].frame.kind = "consecutive"
    BY <1>9, <1>10, <1>12
  <2>2. Leads(wire, e, i)'
    BY <1>11, <1>12 DEF Leads, Part, Goes
  <2>. QED
    BY <1>3, <2>1, <2>2 DEF PartFresh
<1>. QED
  BY <1>12 DEF PartsFresh, Part

LEMMA RawReadOwn ==
  ASSUME IInv, StaleInv, transport = "socketcan", transport' = transport, ~kernel, RawRead,
         NEW e \in Ecus, e = call.ecu, e \notin failed'
  PROVE  Fresh(e)'
<1>. DEFINE f == wire[1].frame
            q == Tail(wire)
<1>1. VehicleInv /\ SocketCanInv /\ e \notin failed /\ ~kernel'
  BY RawReads, RawReadClient DEF IInv
<1>2. /\ Underway(e) /\ Busy /\ ~prefer /\ e \in Ecus /\ asm \in Assembling(e)
      /\ wire \in Seq(Heard) /\ wire # <<>> /\ 1 \in DOMAIN wire
      /\ f \in Granted \cup Spoken(wire[1].ecu)
      /\ \/ wire[1].ecu # e /\ Idle /\ Passed /\ UNCHANGED <<asm, awaiting>>
         \/ /\ wire[1].ecu = e /\ awaiting /\ f.kind = "flow"
            /\ (Sent(e) \/ Idle) /\ awaiting' = FALSE /\ asm' = asm /\ Passed
         \/ wire[1].ecu = e /\ Fetches(e, f) /\ awaiting' = awaiting
  BY <1>1, RawReads DEF SocketCanInv, Underway
<1>3. DueFresh(e) /\ PartsFresh(wire, e) /\ HeldFresh(e) /\ AsmFresh(e)
  BY <1>1, <1>2 DEF StaleInv, Fresh, WireFresh
<1>. HIDE DEF q
<1>4. q \in Seq(Heard) /\ Thinned(wire, q) /\ PartsFresh(q, e)
  <2>1. q \in Seq(Heard) /\ Thinned(wire, q)
    BY <1>2, TailFacts, TailThins DEF q
  <2>. QED
    BY <1>3, <2>1, PartsThin
<1>5. Passed => wire' = q /\ held' = held
  BY DEF Passed, q
<1>. HIDE DEF f
<1>6. Idle => UNCHANGED <<asked, call, written, due>> /\ DueFresh(e)' /\ Underway(e)' = Underway(e)
  BY <1>3 DEF Idle, vehicle, client, request, DueFresh, Underway
<1>7. CASE Idle /\ Passed /\ UNCHANGED <<asm, awaiting>>
  <2>1. PartsFresh(wire', e)
    BY <1>4, <1>5, <1>7
  <2>2. WireFresh(e)'
    BY <1>3, <1>5, <1>6, <1>7, <2>1, RawStays
  <2>. QED
    BY <1>1, <1>6, <1>7, <2>2 DEF Fresh
<1>8. CASE /\ awaiting /\ (Sent(e) \/ Idle) /\ awaiting' = FALSE /\ asm' = asm /\ Passed
  <2>1. due[e] = <<>> /\ ~(asm.expected > 0) /\ held[e] = NoCall /\ NoPart(wire, e)
    BY <1>2, <1>3, <1>8 DEF AsmFresh, HeldFresh, PartsFresh, PartFresh, NoPart
  <2>2. NoPart(wire', e) /\ held'[e] = NoCall
    BY <1>4, <1>5, <1>8, <2>1, NoPartThin
  <2>3. DueFresh(e)'
    <3>1. CASE Sent(e)
      BY <1>1, <1>2, <2>1, <3>1, SentIsDue
    <3>. QED
      BY <1>6, <1>8, <3>1
  <2>4. AsmFresh(e)'
    BY <1>8, <2>1 DEF AsmFresh
  <2>. QED
    BY <1>1, <2>2, <2>3, <2>4, EmptyWireFresh
<1>. DEFINE Own == wire[1].ecu = e /\ awaiting' = awaiting
<1>9. CASE Own /\ Skipped(f)
  BY <1>7, <1>9 DEF Skipped
<1>10. CASE Own /\ Breaches(f)
  BY <1>1, <1>10 DEF Breaches, Fails, Returns, Failures
<1>11. CASE Own /\ Alone(f)
  <2>1. Receives(f.payload, IsWhole(<<f>>)) /\ asm' = Reset /\ wire' = q /\ held' = held
        /\ f.kind = "single"
    BY <1>5, <1>11 DEF Alone
  <2>2. Part(wire[1], e) /\ ~Goes(wire[1], e)
    BY <1>11, <2>1 DEF Part, Goes, f
  <2>3. PartFresh(wire, e, 1)
    BY <1>2, <1>3, <2>2 DEF PartsFresh
  <2>4. f.payload \in Replies /\ (e \in failed \/ f.payload.n = asked)
    <3>1. f \in Spoken(e)
      BY <1>2, <1>11, <2>1 DEF Granted, FlowControl, Frame
    <3>. QED
      BY <2>3, <3>1 DEF Spoken, Said, PartFresh, f
  <2>5. ~(asm'.expected > 0)
    BY <2>1 DEF Reset
  <2>6. f.payload.ecu = e
    <3>1. f \in Spoken(e)
      BY <1>2, <1>11, <2>1 DEF Granted, FlowControl, Frame
    <3>. QED
      BY <3>1 DEF Spoken, Said
  <2>7. due' = due /\ ((Waits /\ f.payload.kind = "pending") \/ (Gives /\ f.payload.kind # "pending"))
    <3>1. due' = due
          /\ ((Waits /\ f.payload.kind = "pending") \/ (Gives /\ f.payload.kind # "pending") \/ Breaks)
      BY <2>1, <2>4, <2>6, OwnReceives DEF StaleInv
    <3>2. ~Breaks
      BY DEF Breaks
    <3>. QED
      BY <3>1, <3>2
  <2>8. CASE Waits
    <3>1. Underway(e)' = Underway(e) /\ asked' = asked
      BY <2>8 DEF Waits, Underway
    <3>2. DueFresh(e)'
      BY <1>3, <2>7, <3>1 DEF DueFresh
    <3>3. PartsFresh(wire, e)'
      BY <1>4, <1>11, <2>1, <2>7, <3>1, PartsStay
    <3>4. HeldFresh(e)'
      BY <1>3, <1>11, <2>1, <2>7, <3>1 DEF HeldFresh
    <3>5. AsmFresh(e)'
      BY <1>3, <1>11, <2>5, <2>7, <3>1 DEF AsmFresh
    <3>. QED
      BY <1>1, <3>2, <3>3, <3>4, <3>5 DEF Fresh, WireFresh
  <2>9. CASE Gives /\ f.payload.kind # "pending"
    <3>1. due[e] = <<>> /\ held[e] = NoCall /\ Leads(wire, e, 1)
      BY <2>1, <2>3, <2>9 DEF PartFresh, f
    <3>2. NoPart(q, e)
      BY <1>2, <2>2, <3>1, NoMoreParts DEF q
    <3>3. ~Underway(e)'
      BY <2>9 DEF Gives, Underway
    <3>4. DueFresh(e)' /\ AsmFresh(e)'
      BY <2>7, <3>1, <3>3 DEF DueFresh, AsmFresh
    <3>. QED
      BY <1>1, <2>1, <3>1, <3>2, <3>4, EmptyWireFresh
  <2>. QED
    BY <2>7, <2>8, <2>9
<1>12. CASE Own /\ Begins(e, f)
  <2>1. f.kind = "first" /\ Idle /\ asm' = Start(asm, f) /\ awaiting' = awaiting
    BY <1>12 DEF Begins
  <2>2. Part(wire[1], e) /\ ~Goes(wire[1], e)
    BY <1>12, <2>1 DEF Part, Goes, f
  <2>3. PartFresh(wire, e, 1)
    BY <1>2, <1>3, <2>2 DEF PartsFresh
  <2>4. /\ ~awaiting /\ f.payload.n = asked /\ f.payload.kind # "pending"
        /\ due[e] = <<>> /\ Leads(wire, e, 1)
    BY <2>1, <2>3 DEF PartFresh, f
  <2>5. NoPart(q, e)
    BY <1>2, <2>2, <2>4, NoMoreParts DEF q
  <2>6. held'[e] = NoCall /\ PartsFresh(wire, e)'
    <3>1. CASE held[e] = NoCall /\ Passed
      <4>1. NoPart(wire', e) /\ held'[e] = NoCall
        BY <1>5, <2>5, <3>1
      <4>. QED
        BY <4>1 DEF NoPart, PartsFresh, Part
    <3>2. CASE /\ held[e] # NoCall /\ wire' = Tail(wire) \o Rest(e)
               /\ held' = [held EXCEPT ![e] = NoCall]
      <4>1. held'[e] = NoCall /\ held[e] \in Said(e) /\ wire' = q \o Rest(e)
        BY <1>1, <1>2, <3>2 DEF SocketCanInv, q
      <4>. QED
        BY <1>2, <1>3, <1>4, <1>6, <2>1, <2>5, <3>2, <4>1, RestIsFresh
    <3>. QED
      BY <1>12, <3>1, <3>2 DEF Begins
  <2>7. HeldFresh(e)'
    BY <2>6 DEF HeldFresh
  <2>8. AsmFresh(e)'
    <3>1. f \in Spoken(e)
      BY <1>2, <1>12, <2>1 DEF Granted, FlowControl, Frame
    <3>2. f.total = Frames
      BY <2>1, <3>1 DEF Spoken
    <3>3. /\ asm'.expected = Frames /\ asm'.next = 1 /\ asm'.buffer # <<>> /\ asm'.buffer[1] = f
      BY <2>1, <3>2 DEF Start
    <3>. QED
      BY <1>6, <2>1, <2>4, <2>6, <3>3, FramesFacts DEF AsmFresh
  <2>. QED
    BY <1>1, <1>6, <2>1, <2>6, <2>7, <2>8 DEF Fresh, WireFresh
<1>13. CASE Own /\ Ends(f)
  <2>. DEFINE m == Append(asm.buffer, f)
              reply == m[1].payload
  <2>1. /\ f.kind = "consecutive" /\ asm.expected = 1 /\ InOrder(asm, f)
        /\ asm' = Reset /\ wire' = q /\ held' = held /\ Receives(reply, IsWhole(m))
    BY <1>5, <1>13 DEF Ends
  <2>2. /\ ~awaiting /\ due[e] = <<>> /\ held[e] = NoCall
        /\ asm.expected + asm.next = Frames + 1
    <3>1. asm.expected > 0
      BY <2>1
    <3>. QED
      BY <1>2, <1>3, <3>1 DEF AsmFresh
  <2>3. f \in Spoken(e)
    BY <1>2, <1>13, <2>1 DEF Granted, FlowControl, Frame
  <2>4. f.index = Frames
    <3>1. asm.next = Frames
      BY <1>2, <2>1, <2>2, FramesFacts DEF Assembling
    <3>2. Frames % IndexMod = Frames
      BY FramesFacts
    <3>. QED
      BY <2>1, <3>1, <3>2 DEF InOrder
  <2>5. NoPart(q, e)
    <3>1. Part(wire[1], e)
      BY <1>13, <2>1 DEF Part, f
    <3>2. PartFresh(wire, e, 1)
      BY <1>2, <1>3, <3>1 DEF PartsFresh
    <3>3. Leads(wire, e, 1)
      BY <2>1, <3>2 DEF PartFresh, f
    <3>. QED
      BY <1>2, <2>4, <3>3, NoMoreParts DEF q, f
  <2>6. reply \in Replies /\ (reply.ecu \in failed \/ reply.n = asked)
    BY <1>1, <1>2, <1>13, <2>1, <2>3, ToldFacts DEF f
  <2>. HIDE DEF reply, m
  <2>7. due' = due /\ (Waits \/ Gives)
    <3>1. due' = due
          /\ ((Waits /\ reply.kind = "pending") \/ (Gives /\ reply.kind # "pending") \/ Breaks)
      BY <2>1, <2>6, OwnReceives DEF StaleInv
    <3>2. ~Breaks
      BY DEF Breaks
    <3>. QED
      BY <3>1, <3>2
  <2>8. DueFresh(e)'
    BY <2>2, <2>7 DEF DueFresh
  <2>9. AsmFresh(e)'
    <3>1. ~(asm'.expected > 0)
      BY <2>1 DEF Reset
    <3>. QED
      BY <2>2, <2>7, <3>1 DEF AsmFresh
  <2>. QED
    BY <1>1, <2>1, <2>2, <2>5, <2>8, <2>9, EmptyWireFresh
<1>14. CASE Own /\ Continues(f)
  <2>1. /\ asm.expected > 1 /\ asm' = Longer(asm, f) /\ Idle /\ wire' = q /\ held' = held
        /\ awaiting' = awaiting /\ f.kind = "consecutive"
    BY <1>5, <1>14 DEF Continues
  <2>2. asm.expected \in Nat /\ asm.next \in Nat /\ asm.buffer \in Seq(Spoken(e)) /\ asm.expected > 0
    BY <1>2, <2>1 DEF Assembling
  <2>3. /\ ~awaiting /\ due[e] = <<>> /\ held[e] = NoCall
        /\ asm.expected + asm.next = Frames + 1
        /\ asm.buffer # <<>> /\ asm.buffer[1].payload.n = asked
    BY <1>2, <1>3, <2>2 DEF AsmFresh
  <2>4. f \in Spoken(e)
    BY <1>2, <1>14, <2>1 DEF Granted, FlowControl, Frame
  <2>5. Append(asm.buffer, f) # <<>> /\ Append(asm.buffer, f)[1] = asm.buffer[1]
    BY <2>2, <2>3, <2>4
  <2>6. /\ asm'.expected + asm'.next = Frames + 1
        /\ asm'.buffer # <<>> /\ asm'.buffer[1] = asm.buffer[1]
    BY <2>1, <2>2, <2>3, <2>5, FramesFacts DEF Longer
  <2>7. AsmFresh(e)'
    BY <1>6, <2>1, <2>3, <2>6 DEF AsmFresh
  <2>8. PartsFresh(wire, e)'
    BY <1>4, <1>6, <2>1, PartsStay
  <2>9. HeldFresh(e)'
    BY <2>1, <2>3 DEF HeldFresh
  <2>. QED
    BY <1>1, <1>6, <2>1, <2>7, <2>8, <2>9 DEF Fresh, WireFresh
<1>. QED
  BY <1>2, <1>7, <1>8, <1>9, <1>10, <1>11, <1>12, <1>13, <1>14 DEF Fetches

LEMMA RawReadFresh ==
  ASSUME IInv, StaleInv, transport = "socketcan", transport' = transport, RawRead
  PROVE  StaleInv'
<1>1. VehicleInv /\ SocketCanInv /\ ModeInv
  BY DEF IInv, StaleInv
<1>2. /\ ~prefer /\ call.ecu \in Ecus /\ wire # <<>>
      /\ UNCHANGED <<kernel, prefer, sockets, inbox, bound, asks>>
  BY <1>1, RawReads
<1>3. ~kernel /\ bound
  BY <1>1, <1>2 DEF ModeInv
<1>4. OwnInv' /\ session' = session /\ failed \subseteq failed'
  BY <1>3, RawReadClient
<1>5. ModeInv'
  BY <1>1, <1>2, <1>3, <1>4 DEF ModeInv
<1>6. ASSUME NEW e \in Ecus \ failed' PROVE Fresh(e)'
  <2>1. CASE e = call.ecu
    BY <1>3, <2>1, RawReadOwn
  <2>2. CASE e # call.ecu
    BY <1>3, <1>4, <2>2, RawReadOthers
  <2>. QED
    BY <2>1, <2>2
<1>. QED
  BY <1>4, <1>5, <1>6 DEF StaleInv

LEMMA SocketCanOpenFresh ==
  ASSUME IInv, StaleInv, transport = "socketcan", transport' = transport, SocketCanOpen
  PROVE  StaleInv'
<1>1. /\ OwnInv' /\ session = "closed"
      /\ \A e \in Ecus : due'[e] = <<>> /\ ~Underway(e)'
  BY OpenIsFresh DEF SocketCanOpen
<1>2. /\ \A e \in Ecus : held[e] = NoCall
      /\ UNCHANGED <<kernel, prefer, sockets, inbox, bound, wire, asm, awaiting, asks, held>>
  BY DEF SocketCanOpen
<1>3. session' # "closed"
  BY DEF SocketCanOpen, Opened
<1>4. ModeInv
  BY DEF StaleInv
<1>5. ModeInv'
  BY <1>2, <1>3, <1>4 DEF ModeInv
<1>6. wire = <<>> /\ \A e \in Ecus : inbox[e] = <<>>
  BY <1>1, <1>4 DEF ModeInv
<1>7. ASSUME NEW e \in Ecus PROVE Fresh(e)'
  <2>1. NoPart(wire', e)
    BY <1>2, <1>6 DEF NoPart
  <2>2. Quiet(e)'
    BY <1>1, <1>2, <1>6, <2>1 DEF Quiet
  <2>. QED
    BY <1>1, <2>2, QuietIsFresh
<1>. QED
  BY <1>1, <1>5, <1>7 DEF StaleInv

LEMMA SocketCanCloseFresh ==
  ASSUME IInv, StaleInv, transport = "socketcan", transport' = transport, SocketCanClose
  PROVE  StaleInv'
<1>1. /\ OwnInv' /\ failed' = failed /\ due' = due
      /\ \A e \in Ecus : ~Underway(e) /\ ~Underway(e)'
  BY CloseIsFresh DEF SocketCanClose
<1>2. /\ sockets' = {} /\ \A e \in Ecus : inbox'[e] = <<>>
      /\ bound' = FALSE /\ wire' = <<>> /\ asks' = {} /\ UNCHANGED <<kernel, prefer, held>>
  BY DEF SocketCanClose
<1>3. ModeInv
  BY DEF StaleInv
<1>4. ModeInv'
  BY <1>2, <1>3 DEF ModeInv
<1>5. ASSUME NEW e \in Ecus \ failed PROVE Fresh(e)'
  <2>1. Quiet(e)
    BY <1>1, FreshIsQuiet DEF StaleInv
  <2>2. NoPart(wire', e)
    BY <1>2 DEF NoPart
  <2>3. Quiet(e)'
    BY <1>1, <1>2, <2>1, <2>2 DEF Quiet
  <2>. QED
    BY <1>1, <2>3, QuietIsFresh
<1>. QED
  BY <1>1, <1>4, <1>5 DEF StaleInv

LEMMA SocketCanFresh ==
  ASSUME IInv, StaleInv, transport = "socketcan", transport' = transport, SocketCanNext
  PROVE  StaleInv'
<1>1. CASE SocketCanOpen
  BY <1>1, SocketCanOpenFresh
<1>2. CASE SocketCanClose
  BY <1>2, SocketCanCloseFresh
<1>3. CASE \/ FallBack \/ LoseFrame
           \/ \E e \in Ecus : Abandon(e)
           \/ \E e \in Ecus, blockSize \in 0 .. 1 : Grant(e, blockSize)
  BY <1>3, RawIdleFresh
<1>4. CASE BindFails \/ SocketFails \/ KernelTimeout \/ RawTimeout
  <2>1. Busy /\ UNCHANGED socketcan /\ (Fails(Error) \/ Fails(Timeout) \/ Fails(Other))
    BY <1>4 DEF BindFails, SocketFails, KernelTimeout, RawTimeout
  <2>. QED
    BY <2>1, FailsFresh
<1>5. CASE KernelWrite
  BY <1>5, KernelWriteFresh
<1>6. CASE KernelRead
  BY <1>6, KernelReadFresh
<1>7. CASE RawWrite
  BY <1>7, RawWriteFresh
<1>8. CASE RawRead
  BY <1>8, RawReadFresh
<1>9. ASSUME NEW e \in Ecus, NEW kind \in Kinds, KernelHears(e, kind) \/ RawHears(e, kind)
      PROVE  StaleInv'
  BY <1>9, KernelHearsFresh, RawHearsFresh
<1>. QED
  BY <1>1, <1>2, <1>3, <1>4, <1>5, <1>6, <1>7, <1>8, <1>9 DEF SocketCanNext, SocketCanStep

LEMMA StaleInit ==
  ASSUME Init
  PROVE  StaleInv
<1>1. /\ session = "closed" /\ call = NoCall /\ answer = Waiting /\ shown = {}
      /\ due = [e \in Ecus |-> <<>>] /\ failed = {}
  BY DEF Init, VehicleInit
<1>2. rx = <<>>
  BY DEF Init, J2534Init
<1>3. /\ prefer = TRUE /\ sockets = {} /\ inbox = [e \in Ecus |-> <<>>]
      /\ bound = FALSE /\ wire = <<>> /\ asks = {} /\ held = [e \in Ecus |-> NoCall]
  BY DEF Init, SocketCanInit
<1>4. ModeInv
  BY <1>3 DEF ModeInv
<1>5. OwnInv
  BY <1>1 DEF OwnInv
<1>6. ASSUME NEW e \in Ecus PROVE Fresh(e)
  <2>1. due[e] = <<>> /\ inbox[e] = <<>> /\ held[e] = NoCall /\ ~Underway(e)
    BY <1>1, <1>3 DEF Underway
  <2>2. Len(<<>>) = 0 /\ DOMAIN <<>> = {}
    OBVIOUS
  <2>3. DueFresh(e) /\ RxFresh(e) /\ InboxFresh(e)
    BY <1>2, <2>1, <2>2 DEF DueFresh, RxFresh, InboxFresh
  <2>4. WireFresh(e)
    BY <1>3, <2>1, <2>2 DEF WireFresh, PartsFresh, HeldFresh, AsmFresh
  <2>. QED
    BY <2>3, <2>4 DEF Fresh
<1>. QED
  BY <1>4, <1>5, <1>6 DEF StaleInv

LEMMA StaleStays ==
  ASSUME StaleInv, UNCHANGED vars
  PROVE  StaleInv'
BY DEF vars, vehicle, client, request, j2534, socketcan, StaleInv, ModeInv, OwnInv, Fresh, DueFresh,
       Underway, RxFresh, InboxFresh, WireFresh, PartsFresh, PartFresh, Leads, HeldFresh, AsmFresh

LEMMA StaleNext ==
  ASSUME IInv, StaleInv, [Next]_vars
  PROVE  StaleInv'
<1>1. CASE Command
  BY <1>1, CommandFresh
<1>2. CASE Silent
  BY <1>2, SilentFresh
<1>3. CASE Build("j2534", J2534Next)
  <2>1. transport = "j2534" /\ transport' = transport /\ J2534Next
    BY <1>3 DEF Build
  <2>. QED
    BY <2>1, J2534Fresh
<1>4. CASE Build("socketcan", SocketCanNext)
  <2>1. transport = "socketcan" /\ transport' = transport /\ SocketCanNext
    BY <1>4 DEF Build
  <2>. QED
    BY <2>1, SocketCanFresh
<1>5. CASE Build("elm", ElmNext)
  BY <1>5 DEF Build, StaleInv
<1>6. CASE UNCHANGED vars
  BY <1>6, StaleStays
<1>. QED
  BY <1>1, <1>2, <1>3, <1>4, <1>5, <1>6 DEF Next

(* The answer to an earlier request is taken for this one's only if a request to *)
(* that module has failed before, over J2534 and over SocketCAN with the     *)
(* kernel's sockets or without.                                              *)
LEMMA StaleInvariance == Spec => []StaleInv
<1>1. Init => StaleInv
  BY StaleInit
<1>2. IInv /\ StaleInv /\ [Next]_vars => StaleInv'
  BY StaleNext
<1>. QED
  BY <1>1, <1>2, TransportsInvariance, PTL DEF Spec

THEOREM StaleAnswersNeedAFailure == Spec => []StaleOnlyAfterFailure
<1>1. IInv /\ StaleInv => StaleOnlyAfterFailure
  <2>. SUFFICES ASSUME IInv, StaleInv, NEW s \in shown, transport # "elm", s.reply.n # s.request.n
                PROVE  s.request.ecu \in failed
    BY DEF StaleOnlyAfterFailure
  <2>. QED
    BY DEF StaleInv, OwnInv
<1>. QED
  BY <1>1, TransportsInvariance, StaleInvariance, PTL

-----------------------------------------------------------------------------
(* Messages are whole: unless a first frame was lost, the consecutive frames on *)
(* the wire follow those of their own answer or a later first frame, and     *)
(* what the reassembler has is the beginning of one answer.                  *)
First(w, e) == w.ecu = e /\ w.frame.kind = "first"

(* A message begins between two places of a queue. *)
Restarts(q, e, i, j) == \E k \in DOMAIN q : i < k /\ k < j /\ First(q[k], e)

Follows(v, w) == v.frame.payload = w.frame.payload /\ v.frame.index < w.frame.index

Ordered(q, e) ==
  \A i, j \in DOMAIN q :
    i < j /\ (First(q[i], e) \/ Goes(q[i], e)) /\ Goes(q[j], e) =>
      Follows(q[i], q[j]) \/ Restarts(q, e, i, j)

(* The rest of an answer that a module holds comes behind its first frame. *)
EndsWith(q, e, p) ==
  \E i \in DOMAIN q : /\ First(q[i], e) /\ q[i].frame.payload = p
                      /\ \A j \in DOMAIN q : j > i => ~Part(q[j], e)

HeldLast(q, e, p) == p # NoCall /\ (\E i \in DOMAIN q : First(q[i], e)) => EndsWith(q, e, p)

(* Until a message begins, nothing but the rest of p comes. *)
Comes(q, e, p, n) ==
  \A j \in DOMAIN q : Goes(q[j], e) /\ ~Restarts(q, e, 0, j) =>
    q[j].frame.payload = p /\ q[j].frame.index >= n

Begun(b, p, n) ==
  /\ Len(b) = n /\ b[1] = Frame("first", 0, p, Frames)
  /\ \A i \in 2 .. n : b[i] = Frame("consecutive", i - 1, p, Frames)

Assembled(q, e) ==
  asm.expected > 0 =>
    /\ asm.expected + asm.next = Frames + 1
    /\ \E p \in Said(e) : Begun(asm.buffer, p, asm.next) /\ Comes(q, e, p, asm.next)

WholeInv ==
  transport # "elm" =>
    /\ answer = Waiting => whole
    /\ ~headLost =>
         /\ whole
         /\ transport = "socketcan" =>
              /\ \A e \in Ecus : Ordered(wire, e) /\ HeldLast(wire, e, held[e])
              /\ written /\ ~prefer => Assembled(wire, call.ecu)

-----------------------------------------------------------------------------
(* Queues *)
LEMMA EmptyIsWhole ==
  ASSUME NEW q, q = <<>>, NEW e, NEW p
  PROVE  Ordered(q, e) /\ HeldLast(q, e, p)
<1>1. DOMAIN q = {}
  OBVIOUS
<1>. QED
  BY <1>1 DEF Ordered, HeldLast

LEMMA SpokenFrame ==
  ASSUME NEW e, NEW f \in Spoken(e)
  PROVE  /\ f.payload \in Said(e)
         /\ f.kind = "single" => f = Frame("single", 0, f.payload, 0)
         /\ f.kind = "first" => f = Frame("first", 0, f.payload, Frames)
         /\ f.kind = "consecutive" => f = Frame("consecutive", f.index, f.payload, Frames)
                                      /\ f.index \in 1 .. Frames
<1>1. f \in [kind : {"single", "first", "consecutive"}, index : 0 .. Frames, payload : Said(e),
             total : {0, Frames}]
  BY DEF Spoken
<1>2. f = [kind |-> f.kind, index |-> f.index, payload |-> f.payload, total |-> f.total]
  BY <1>1
<1>3. /\ f.kind = "single" => f.index = 0 /\ f.total = 0
      /\ f.kind = "first" => f.index = 0 /\ f.total = Frames
      /\ f.kind = "consecutive" => f.index > 0 /\ f.total = Frames
  BY DEF Spoken
<1>4. f.kind = "consecutive" => f.index \in 1 .. Frames
  BY <1>1, <1>3
<1>. QED
  BY <1>1, <1>2, <1>3, <1>4 DEF Frame

(* A first frame alone, one more frame, and the last. *)
LEMMA BegunFirst ==
  ASSUME NEW f, NEW p, f = Frame("first", 0, p, Frames)
  PROVE  Begun(<<f>>, p, 1)
<1>1. Len(<<f>>) = 1 /\ <<f>>[1] = f /\ 2 .. 1 = {}
  OBVIOUS
<1>. QED
  BY <1>1 DEF Begun

LEMMA BegunAppend ==
  ASSUME NEW S, NEW b \in Seq(S), NEW p, NEW n \in Nat, n > 0, Begun(b, p, n),
         NEW f \in S, f = Frame("consecutive", n, p, Frames)
  PROVE  Begun(Append(b, f), p, n + 1)
<1>1. Len(b) = n /\ b[1] = Frame("first", 0, p, Frames)
      /\ \A i \in 2 .. n : b[i] = Frame("consecutive", i - 1, p, Frames)
  BY DEF Begun
<1>. DEFINE c == Append(b, f)
<1>2. Len(c) = n + 1 /\ c[n + 1] = f /\ \A i \in 1 .. n : c[i] = b[i]
  BY <1>1
<1>. HIDE DEF c
<1>3. c[1] = b[1]
  BY <1>2
<1>4. ASSUME NEW i \in 2 .. n + 1 PROVE c[i] = Frame("consecutive", i - 1, p, Frames)
  <2>1. CASE i = n + 1
    <3>1. i - 1 = n
      BY <2>1
    <3>. QED
      BY <1>2, <2>1, <3>1
  <2>2. CASE i # n + 1
    <3>1. i \in 2 .. n /\ i \in 1 .. n
      BY <2>2
    <3>. QED
      BY <1>1, <1>2, <3>1
  <2>. QED
    BY <2>1, <2>2
<1>5. Begun(c, p, n + 1)
  BY <1>1, <1>2, <1>3, <1>4 DEF Begun
<1>. QED
  BY <1>5 DEF c

LEMMA SingleIsWhole ==
  ASSUME NEW f, NEW p, f = Frame("single", 0, p, 0)
  PROVE  IsWhole(<<f>>)
<1>1. <<f>>[1] = f /\ f.payload = p /\ f.total = 0
  BY DEF Frame
<1>. QED
  BY <1>1 DEF IsWhole, Encode

LEMMA BegunIsWhole ==
  ASSUME NEW S, NEW m \in Seq(S), NEW p, Begun(m, p, Frames + 1)
  PROVE  IsWhole(m)
<1>. DEFINE head == Frame("first", 0, p, Frames)
            rest == [i \in 1 .. Frames |-> Frame("consecutive", i % IndexMod, p, Frames)]
            enc == <<head>> \o rest
            T == {head} \cup {rest[i] : i \in 1 .. Frames}
<1>1. Frames \in Nat /\ Frames > 0 /\ \A i \in 1 .. Frames : i % IndexMod = i
  BY FramesFacts
<1>2. Len(m) = Frames + 1 /\ m[1] = head
      /\ \A i \in 2 .. Frames + 1 : m[i] = Frame("consecutive", i - 1, p, Frames)
  BY DEF Begun
<1>3. head \in T /\ \A i \in 1 .. Frames : rest[i] \in T
  OBVIOUS
<1>4. rest \in Seq(T) /\ Len(rest) = Frames
  BY <1>1, <1>3
<1>5. \A i \in 1 .. Frames : rest[i] = Frame("consecutive", i, p, Frames)
  BY <1>1
<1>6. <<head>> \in Seq(T) /\ Len(<<head>>) = 1 /\ <<head>>[1] = head
  BY <1>3
<1>. HIDE DEF rest, head, T
<1>7. /\ enc \in Seq(T) /\ Len(enc) = Len(<<head>>) + Len(rest)
      /\ \A i \in DOMAIN <<head>> : i \in DOMAIN enc /\ enc[i] = <<head>>[i] /\ i <= Len(<<head>>)
      /\ \A j \in DOMAIN rest : Len(<<head>>) + j \in DOMAIN enc /\ enc[Len(<<head>>) + j] = rest[j]
  BY <1>4, <1>6, JoinFacts
<1>. HIDE DEF enc
<1>8. DOMAIN rest = 1 .. Frames /\ 1 \in DOMAIN <<head>>
  BY <1>4, <1>6
<1>9. Len(enc) = Frames + 1 /\ enc[1] = head /\ \A j \in 1 .. Frames : enc[1 + j] = rest[j]
  BY <1>1, <1>4, <1>6, <1>7, <1>8
<1>10. ASSUME NEW i \in 1 .. Frames + 1 PROVE m[i] = enc[i]
  <2>1. CASE i = 1
    BY <1>2, <1>9, <2>1
  <2>2. CASE i # 1
    <3>1. i \in 2 .. Frames + 1 /\ i - 1 \in 1 .. Frames /\ 1 + (i - 1) = i
      BY <1>1, <2>2
    <3>2. enc[i] = rest[i - 1]
      BY <1>9, <3>1
    <3>. QED
      BY <1>2, <1>5, <3>1, <3>2
  <2>. QED
    BY <2>1, <2>2
<1>11. m = enc
  <2>1. m \in Seq(S \cup T) /\ enc \in Seq(S \cup T)
    BY <1>7
  <2>2. Len(m) = Len(enc) /\ \A i \in 1 .. Len(m) : m[i] = enc[i]
    BY <1>2, <1>9, <1>10
  <2>. QED
    BY <2>1, <2>2, SeqEqual
<1>12. m[1].payload = p /\ m[1].total = Frames
  BY <1>2 DEF head, Frame
<1>13. Encode(p, Frames) = enc
  BY <1>1 DEF Encode, enc, head, rest
<1>. QED
  BY <1>11, <1>12, <1>13 DEF IsWhole

(* Frames are read or lost, and no first frame that comes later than what is    *)
(* left is.                                                                  *)
Order(q, r, place) ==
  /\ place \in [DOMAIN r -> DOMAIN q]
  /\ \A i \in DOMAIN r : r[i] = q[place[i]]
  /\ \A i, j \in DOMAIN r : j > i => place[j] > place[i]
  /\ \A i \in DOMAIN r : i \in Nat /\ i > 0 /\ place[i] \in Nat
  /\ DOMAIN q \subseteq Nat

Kept(q, r, e) ==
  \E place : /\ Order(q, r, place)
             /\ \A k \in DOMAIN q : First(q[k], e) /\ (\E i \in DOMAIN r : place[i] < k) =>
                  \E l \in DOMAIN r : place[l] = k

AllKept(q, r, e) ==
  \E place : /\ Order(q, r, place)
             /\ \A k \in DOMAIN q : First(q[k], e) => \E l \in DOMAIN r : place[l] = k

LEMMA AllIsKept ==
  ASSUME NEW q, NEW r, NEW e, AllKept(q, r, e)
  PROVE  Kept(q, r, e)
BY DEF AllKept, Kept

LEMMA PlacesOrder ==
  ASSUME NEW q, NEW r, NEW place, Order(q, r, place), NEW i \in DOMAIN r, NEW j \in DOMAIN r,
         place[i] < place[j]
  PROVE  i < j
<1>1. i \in Nat /\ j \in Nat /\ place[i] \in Nat /\ place[j] \in Nat
  BY DEF Order
<1>2. i > j => place[i] > place[j]
  BY DEF Order
<1>. QED
  BY <1>1, <1>2

LEMMA OrderKept ==
  ASSUME NEW q, NEW r, NEW e, Kept(q, r, e), Ordered(q, e)
  PROVE  Ordered(r, e)
<1>1. PICK place : /\ Order(q, r, place)
                   /\ \A k \in DOMAIN q : First(q[k], e) /\ (\E i \in DOMAIN r : place[i] < k) =>
                        \E l \in DOMAIN r : place[l] = k
  BY DEF Kept
<1>. SUFFICES ASSUME NEW i \in DOMAIN r, NEW j \in DOMAIN r, i < j,
                     First(r[i], e) \/ Goes(r[i], e), Goes(r[j], e), ~Follows(r[i], r[j])
              PROVE  Restarts(r, e, i, j)
  BY DEF Ordered
<1>2. /\ place[i] \in DOMAIN q /\ place[j] \in DOMAIN q /\ r[i] = q[place[i]] /\ r[j] = q[place[j]]
      /\ j > i
  BY <1>1 DEF Order
<1>3. place[i] < place[j]
  BY <1>1, <1>2 DEF Order
<1>4. Restarts(q, e, place[i], place[j])
  BY <1>2, <1>3 DEF Ordered
<1>5. PICK k \in DOMAIN q : place[i] < k /\ k < place[j] /\ First(q[k], e)
  BY <1>4 DEF Restarts
<1>6. PICK l \in DOMAIN r : place[l] = k
  BY <1>1, <1>5
<1>7. First(r[l], e)
  BY <1>1, <1>5, <1>6 DEF Order
<1>8. i < l /\ l < j
  BY <1>1, <1>5, <1>6, PlacesOrder
<1>. QED
  BY <1>7, <1>8 DEF Restarts

LEMMA LastKept ==
  ASSUME NEW q, NEW r, NEW e, NEW p, Kept(q, r, e), HeldLast(q, e, p)
  PROVE  HeldLast(r, e, p)
<1>1. PICK place : /\ Order(q, r, place)
                   /\ \A k \in DOMAIN q : First(q[k], e) /\ (\E i \in DOMAIN r : place[i] < k) =>
                        \E l \in DOMAIN r : place[l] = k
  BY DEF Kept
<1>. SUFFICES ASSUME p # NoCall, NEW i \in DOMAIN r, First(r[i], e)
              PROVE  EndsWith(r, e, p)
  BY DEF HeldLast
<1>2. place[i] \in DOMAIN q /\ First(q[place[i]], e) /\ place[i] \in Nat
  BY <1>1 DEF Order
<1>3. EndsWith(q, e, p)
  BY <1>2 DEF HeldLast
<1>4. PICK k \in DOMAIN q : /\ First(q[k], e) /\ q[k].frame.payload = p
                            /\ \A j \in DOMAIN q : j > k => ~Part(q[j], e)
  BY <1>3 DEF EndsWith
<1>5. ~(place[i] > k)
  BY <1>2, <1>4 DEF First, Part
<1>6. \E l \in DOMAIN r : place[l] = k
  <2>1. CASE place[i] < k
    BY <1>1, <1>4, <2>1
  <2>2. CASE ~(place[i] < k)
    <3>1. k \in Nat
      BY <1>1, <1>4 DEF Order
    <3>2. place[i] = k
      BY <1>2, <1>5, <2>2, <3>1
    <3>. QED
      BY <3>2
  <2>. QED
    BY <2>1, <2>2
<1>7. PICK l \in DOMAIN r : place[l] = k
  BY <1>6
<1>8. r[l] = q[k]
  BY <1>1, <1>7 DEF Order
<1>9. ASSUME NEW j \in DOMAIN r, j > l PROVE ~Part(r[j], e)
  <2>1. place[j] \in DOMAIN q /\ place[j] > k /\ r[j] = q[place[j]]
    BY <1>1, <1>7, <1>9 DEF Order
  <2>. QED
    BY <1>4, <2>1
<1>. QED
  BY <1>4, <1>8, <1>9 DEF EndsWith

LEMMA ComesKept ==
  ASSUME NEW q, NEW r, NEW e, NEW p, NEW n, AllKept(q, r, e), Comes(q, e, p, n)
  PROVE  Comes(r, e, p, n)
<1>1. PICK place : /\ Order(q, r, place)
                   /\ \A k \in DOMAIN q : First(q[k], e) => \E l \in DOMAIN r : place[l] = k
  BY DEF AllKept
<1>. SUFFICES ASSUME NEW j \in DOMAIN r, Goes(r[j], e), ~Restarts(r, e, 0, j)
              PROVE  r[j].frame.payload = p /\ r[j].frame.index >= n
  BY DEF Comes
<1>2. place[j] \in DOMAIN q /\ r[j] = q[place[j]]
  BY <1>1 DEF Order
<1>3. ~Restarts(q, e, 0, place[j])
  <2>. SUFFICES ASSUME NEW k \in DOMAIN q, k < place[j], First(q[k], e)
                PROVE  FALSE
    BY DEF Restarts
  <2>1. PICK l \in DOMAIN r : place[l] = k
    BY <1>1
  <2>2. l < j
    BY <1>1, <2>1, PlacesOrder
  <2>3. 0 < l /\ First(r[l], e)
    BY <1>1, <2>1 DEF Order
  <2>. QED
    BY <2>2, <2>3 DEF Restarts
<1>. QED
  BY <1>2, <1>3 DEF Comes

LEMMA TailKeeps ==
  ASSUME NEW S, NEW q \in Seq(S), q # <<>>, NEW e
  PROVE  Kept(q, Tail(q), e) /\ (~First(q[1], e) => AllKept(q, Tail(q), e))
<1>. DEFINE r == Tail(q)
            place == [i \in DOMAIN r |-> i + 1]
            l == Len(q)
<1>1. /\ \A i \in DOMAIN r : i \in Nat /\ i > 0 /\ i + 1 \in DOMAIN q /\ r[i] = q[i + 1]
      /\ l \in Nat /\ DOMAIN q = 1 .. l /\ DOMAIN r = 1 .. l - 1
  <2>1. r \in Seq(S) /\ Len(r) = l - 1 /\ l \in Nat
    BY TailFacts
  <2>2. DOMAIN r = 1 .. l - 1 /\ DOMAIN q = 1 .. l
    BY <2>1
  <2>. QED
    BY <2>1, <2>2, TailFacts
<1>. HIDE DEF r, l
<1>2. place \in [DOMAIN r -> DOMAIN q]
  BY <1>1
<1>3. Order(q, r, place)
  BY <1>1, <1>2 DEF Order
<1>4. ASSUME NEW k \in DOMAIN q, k > 1 PROVE \E j \in DOMAIN r : place[j] = k
  <2>1. k - 1 \in DOMAIN r /\ k - 1 + 1 = k
    BY <1>1, <1>4
  <2>. QED
    BY <2>1
<1>5. ASSUME NEW k \in DOMAIN q, NEW i \in DOMAIN r, place[i] < k PROVE k > 1
  BY <1>1, <1>5
<1>6. \A k \in DOMAIN q : k = 1 \/ k > 1
  BY <1>1
<1>. HIDE DEF place
<1>7. Kept(q, r, e)
  BY <1>3, <1>4, <1>5 DEF Kept
<1>8. ~First(q[1], e) => AllKept(q, r, e)
  BY <1>3, <1>4, <1>6 DEF AllKept
<1>. QED
  BY <1>7, <1>8 DEF r

Lost(q, r, i) ==
  \E place : /\ Order(q, r, place)
             /\ \A k \in DOMAIN q : k # i => \E j \in DOMAIN r : place[j] = k

LEMMA LossOrders ==
  ASSUME NEW S, NEW q \in Seq(S), NEW i \in DOMAIN q,
         NEW r, r = SubSeq(q, 1, i - 1) \o SubSeq(q, i + 1, Len(q))
  PROVE  r \in Seq(S) /\ Lost(q, r, i)
<1>. DEFINE a == SubSeq(q, 1, i - 1)
            b == SubSeq(q, i + 1, Len(q))
            l == Len(q)
            place == [k \in DOMAIN r |-> IF k < i THEN k ELSE k + 1]
<1>1. l \in Nat /\ DOMAIN q = 1 .. l /\ i \in 1 .. l
  OBVIOUS
<1>2. a \in Seq(S) /\ Len(a) = i - 1 /\ \A k \in 1 .. i - 1 : a[k] = q[k]
  BY <1>1
<1>3. /\ b \in Seq(S)
      /\ \A k \in DOMAIN b : k \in Nat /\ k + i \in DOMAIN q /\ b[k] = q[k + i] /\ k + i > i
  <2>1. i \in 0 .. Len(q) /\ b \in Seq(S)
    BY <1>1
  <2>. QED
    BY <2>1, SuffixFacts
<1>12. DOMAIN b = 1 .. l - i
  <2>1. Len(b) = l - i
    BY <1>1
  <2>. QED
    BY <1>3, <2>1
<1>4. r = a \o b
  OBVIOUS
<1>. HIDE DEF a, b, l
<1>5. /\ r \in Seq(S) /\ Len(r) = Len(a) + Len(b)
      /\ \A k \in DOMAIN a : k \in DOMAIN r /\ r[k] = a[k] /\ k <= Len(a)
      /\ \A j \in DOMAIN b : Len(a) + j \in DOMAIN r /\ r[Len(a) + j] = b[j]
      /\ \A k \in DOMAIN r : \/ k \in DOMAIN a
                             \/ \E j \in DOMAIN b : k = Len(a) + j /\ k > Len(a)
  BY <1>2, <1>3, <1>4, JoinFacts
<1>6. DOMAIN a = 1 .. i - 1
  BY <1>2
<1>7. ASSUME NEW k \in DOMAIN r
      PROVE  k \in Nat /\ place[k] \in DOMAIN q /\ r[k] = q[place[k]]
  <2>1. CASE k \in DOMAIN a
    <3>1. k \in 1 .. i - 1 /\ r[k] = q[k]
      BY <1>2, <1>5, <1>6, <2>1
    <3>. QED
      BY <1>1, <3>1
  <2>2. CASE k \notin DOMAIN a
    <3>1. PICK j \in DOMAIN b : k = Len(a) + j
      BY <1>5, <2>2
    <3>2. k = i - 1 + j /\ r[k] = b[j]
      BY <1>2, <1>5, <3>1
    <3>3. j \in Nat /\ b[j] = q[j + i] /\ j + i \in DOMAIN q /\ j + i > i
      BY <1>3
    <3>4. k \in Nat /\ ~(k < i) /\ k + 1 = j + i
      BY <1>1, <3>2, <3>3
    <3>. QED
      BY <3>2, <3>3, <3>4
  <2>. QED
    BY <2>1, <2>2
<1>8. \A k \in DOMAIN r : \A j \in DOMAIN r : j > k => place[j] > place[k]
  <2>1. \A k \in DOMAIN r : k \in Nat
    BY <1>7
  <2>. QED
    BY <1>1, <2>1
<1>9. place \in [DOMAIN r -> DOMAIN q]
  BY <1>7
<1>10. ASSUME NEW k \in DOMAIN r PROVE k > 0 /\ place[k] \in Nat
  <2>1. k \in Nat /\ place[k] \in DOMAIN q
    BY <1>7
  <2>2. k > 0
    BY <1>5
  <2>. QED
    BY <1>1, <2>1, <2>2
<1>11. ASSUME NEW k \in DOMAIN q, k # i PROVE \E j \in DOMAIN r : place[j] = k
  <2>1. CASE k < i
    <3>1. k \in DOMAIN a
      BY <1>1, <1>6, <2>1
    <3>2. k \in DOMAIN r /\ place[k] = k
      BY <1>5, <2>1, <3>1
    <3>. QED
      BY <3>2
  <2>2. CASE k > i
    <3>1. k - i \in DOMAIN b
      BY <1>1, <1>12, <2>2
    <3>2. Len(a) + (k - i) \in DOMAIN r
      BY <1>5, <3>1
    <3>6. k \in Nat /\ i \in Nat /\ Len(a) = i - 1
      BY <1>1, <1>2
    <3>7. i - 1 + (k - i) = k - 1
      BY <3>6
    <3>8. ~(k - 1 < i)
      BY <2>2, <3>6
    <3>9. k - 1 + 1 = k
      BY <3>6
    <3>3. Len(a) + (k - i) = k - 1 /\ ~(k - 1 < i) /\ k - 1 + 1 = k
      BY <3>6, <3>7, <3>8, <3>9
    <3>4. k - 1 \in DOMAIN r
      BY <3>2, <3>3
    <3>5. place[k - 1] = k
      BY <3>3, <3>4
    <3>. QED
      BY <3>4, <3>5
  <2>3. k < i \/ k > i
    BY <1>1, <1>11
  <2>. QED
    BY <2>1, <2>2, <2>3
<1>13. DOMAIN q \subseteq Nat
  BY <1>1
<1>. HIDE DEF place
<1>14. Order(q, r, place)
  BY <1>7, <1>8, <1>9, <1>10, <1>13 DEF Order
<1>. QED
  BY <1>5, <1>11, <1>14 DEF Lost

LEMMA LossKeeps ==
  ASSUME NEW S, NEW q \in Seq(S), NEW i \in DOMAIN q,
         NEW r, r = SubSeq(q, 1, i - 1) \o SubSeq(q, i + 1, Len(q)), NEW e, ~First(q[i], e)
  PROVE  AllKept(q, r, e)
<1>1. PICK place : /\ Order(q, r, place)
                   /\ \A k \in DOMAIN q : k # i => \E j \in DOMAIN r : place[j] = k
  <2>1. Lost(q, r, i)
    BY LossOrders
  <2>. QED
    BY <2>1 DEF Lost
<1>2. \A k \in DOMAIN q : First(q[k], e) => \E l \in DOMAIN r : place[l] = k
  BY <1>1
<1>. QED
  BY <1>1, <1>2 DEF AllKept

(* Frames come behind the others. *)
Grown(q, r) ==
  /\ \A i \in DOMAIN q : i \in DOMAIN r /\ r[i] = q[i]
  /\ \A j \in DOMAIN r : j \notin DOMAIN q => \A i \in DOMAIN q : i < j
  /\ DOMAIN r \subseteq Nat

LEMMA JoinGrows ==
  ASSUME NEW S, NEW q \in Seq(S), NEW t \in Seq(S), NEW r, r = q \o t
  PROVE  r \in Seq(S) /\ Grown(q, r)
<1>1. r \in Seq(S)
  OBVIOUS
<1>2. \A i \in DOMAIN q : i \in DOMAIN r /\ r[i] = q[i] /\ i <= Len(q)
  BY JoinFacts
<1>3. DOMAIN q = 1 .. Len(q) /\ Len(q) \in Nat
  OBVIOUS
<1>4. DOMAIN r = 1 .. Len(r) /\ Len(r) \in Nat
  BY <1>1
<1>5. ASSUME NEW j \in DOMAIN r, j \notin DOMAIN q, NEW i \in DOMAIN q PROVE i < j
  <2>. DEFINE l == Len(q)
  <2>1. j \in Nat /\ j > 0 /\ j \notin 1 .. l /\ l \in Nat /\ i \in 1 .. l
    BY <1>3, <1>4, <1>5
  <2>. HIDE DEF l
  <2>. QED
    BY <2>1
<1>6. DOMAIN r \subseteq Nat
  BY <1>4
<1>. QED
  BY <1>1, <1>2, <1>5, <1>6 DEF Grown

LEMMA AppendGrows ==
  ASSUME NEW S, NEW q \in Seq(S), NEW w \in S, NEW r, r = Append(q, w)
  PROVE  Grown(q, r) /\ \A j \in DOMAIN r : j \notin DOMAIN q => r[j] = w
<1>1. DOMAIN q = 1 .. Len(q) /\ Len(q) \in Nat
  OBVIOUS
<1>2. DOMAIN r = 1 .. Len(q) + 1 /\ r[Len(q) + 1] = w /\ \A i \in 1 .. Len(q) : r[i] = q[i]
  OBVIOUS
<1>. DEFINE l == Len(q)
<1>3. DOMAIN q = 1 .. l /\ l \in Nat /\ DOMAIN r = 1 .. l + 1 /\ r[l + 1] = w
      /\ \A i \in 1 .. l : r[i] = q[i]
  BY <1>1, <1>2
<1>. HIDE DEF l
<1>4. \A j \in 1 .. l + 1 : j \notin 1 .. l => j = l + 1
  BY <1>3
<1>5. \A i \in 1 .. l : i \in 1 .. l + 1 /\ i < l + 1
  BY <1>3
<1>6. 1 .. l + 1 \subseteq Nat
  BY <1>3
<1>. QED
  BY <1>3, <1>4, <1>5, <1>6 DEF Grown

LEMMA GrownRestarts ==
  ASSUME NEW q, NEW r, Grown(q, r), NEW e, NEW i, NEW j, Restarts(q, e, i, j)
  PROVE  Restarts(r, e, i, j)
BY DEF Grown, Restarts, First

(* What a module is waited for does not change when no consecutive frame comes. *)
LEMMA OrderGrown ==
  ASSUME NEW q, NEW r, Grown(q, r), NEW e, Ordered(q, e),
         \A j \in DOMAIN r : j \notin DOMAIN q => ~Goes(r[j], e)
  PROVE  Ordered(r, e)
<1>. SUFFICES ASSUME NEW i \in DOMAIN r, NEW j \in DOMAIN r, i < j,
                     First(r[i], e) \/ Goes(r[i], e), Goes(r[j], e), ~Follows(r[i], r[j])
              PROVE  Restarts(r, e, i, j)
  BY DEF Ordered
<1>1. j \in DOMAIN q /\ r[j] = q[j]
  BY DEF Grown
<1>2. i \in Nat /\ j \in Nat /\ ~(j < i)
  BY DEF Grown
<1>3. i \in DOMAIN q /\ r[i] = q[i]
  BY <1>1, <1>2 DEF Grown
<1>4. Restarts(q, e, i, j)
  BY <1>1, <1>3 DEF Ordered
<1>. QED
  BY <1>4, GrownRestarts

LEMMA ComesGrown ==
  ASSUME NEW q, NEW r, Grown(q, r), NEW e, NEW p, NEW n, Comes(q, e, p, n),
         \A j \in DOMAIN r : j \notin DOMAIN q => ~Goes(r[j], e)
  PROVE  Comes(r, e, p, n)
<1>. SUFFICES ASSUME NEW j \in DOMAIN r, Goes(r[j], e), ~Restarts(r, e, 0, j)
              PROVE  r[j].frame.payload = p /\ r[j].frame.index >= n
  BY DEF Comes
<1>1. j \in DOMAIN q /\ r[j] = q[j]
  BY DEF Grown
<1>2. ~Restarts(q, e, 0, j)
  BY GrownRestarts
<1>. QED
  BY <1>1, <1>2 DEF Comes

LEMMA LastGrown ==
  ASSUME NEW q, NEW r, Grown(q, r), NEW e, NEW p, HeldLast(q, e, p),
         \A j \in DOMAIN r : j \notin DOMAIN q => ~Part(r[j], e)
  PROVE  HeldLast(r, e, p)
<1>. SUFFICES ASSUME p # NoCall, NEW i \in DOMAIN r, First(r[i], e)
              PROVE  EndsWith(r, e, p)
  BY DEF HeldLast
<1>1. i \in DOMAIN q /\ r[i] = q[i]
  BY DEF Grown, First, Part
<1>2. EndsWith(q, e, p)
  BY <1>1 DEF HeldLast
<1>3. PICK k \in DOMAIN q : /\ First(q[k], e) /\ q[k].frame.payload = p
                            /\ \A j \in DOMAIN q : j > k => ~Part(q[j], e)
  BY <1>2 DEF EndsWith
<1>4. k \in DOMAIN r /\ r[k] = q[k]
  BY DEF Grown
<1>5. ASSUME NEW j \in DOMAIN r, j > k PROVE ~Part(r[j], e)
  BY <1>3, <1>5 DEF Grown
<1>. QED
  BY <1>3, <1>4, <1>5 DEF EndsWith

(* The rest of an answer comes behind its first frame, or alone. *)
Closes(q, e, p) ==
  IF \E i \in DOMAIN q : First(q[i], e) THEN EndsWith(q, e, p) ELSE NoPart(q, e)

Rests(q, r, e, p) ==
  /\ Grown(q, r)
  /\ \A j \in DOMAIN r : j \notin DOMAIN q => Goes(r[j], e) /\ r[j].frame.payload = p
                                              /\ r[j].frame.index \in Nat /\ r[j].frame.index > 0
  /\ \A i, j \in DOMAIN r : i \notin DOMAIN q /\ j \notin DOMAIN q /\ i < j =>
       r[i].frame.index < r[j].frame.index
  /\ \A i \in DOMAIN q : First(q[i], e) => q[i].frame.index = 0
  /\ Closes(q, e, p)

LEMMA RestOrdered ==
  ASSUME NEW q, NEW r, NEW e, NEW p, Rests(q, r, e, p), Ordered(q, e)
  PROVE  Ordered(r, e)
<1>. SUFFICES ASSUME NEW i \in DOMAIN r, NEW j \in DOMAIN r, i < j,
                     First(r[i], e) \/ Goes(r[i], e), Goes(r[j], e), ~Follows(r[i], r[j])
              PROVE  Restarts(r, e, i, j)
  BY DEF Ordered
<1>1. Grown(q, r) /\ i \in Nat /\ j \in Nat /\ ~(j < i)
  BY DEF Rests, Grown
<1>2. CASE j \in DOMAIN q
  <2>1. i \in DOMAIN q /\ r[i] = q[i] /\ r[j] = q[j]
    BY <1>1, <1>2 DEF Grown
  <2>2. Restarts(q, e, i, j)
    BY <1>2, <2>1 DEF Ordered
  <2>. QED
    BY <1>1, <2>2, GrownRestarts
<1>3. CASE j \notin DOMAIN q /\ i \notin DOMAIN q
  <2>1. r[i].frame.payload = p /\ r[j].frame.payload = p /\ r[i].frame.index < r[j].frame.index
    BY <1>3 DEF Rests
  <2>. QED
    BY <2>1 DEF Follows
<1>4. CASE j \notin DOMAIN q /\ i \in DOMAIN q
  <2>1. r[i] = q[i] /\ Part(q[i], e)
    BY <1>1, <1>4 DEF Grown, Part, First, Goes
  <2>2. EndsWith(q, e, p)
    BY <1>4, <2>1 DEF Rests, Closes, NoPart
  <2>3. PICK k \in DOMAIN q : /\ First(q[k], e) /\ q[k].frame.payload = p
                              /\ \A l \in DOMAIN q : l > k => ~Part(q[l], e)
    BY <2>2 DEF EndsWith
  <2>4. k \in DOMAIN r /\ r[k] = q[k] /\ k < j /\ k \in Nat /\ ~(i > k)
    BY <1>1, <1>4, <2>1, <2>3 DEF Grown
  <2>5. CASE i = k
    <3>1. r[i].frame.payload = p /\ r[i].frame.index = 0
      BY <2>3, <2>4, <2>5 DEF Rests
    <3>2. r[j].frame.payload = p /\ r[j].frame.index > 0
      BY <1>4 DEF Rests
    <3>. QED
      BY <3>1, <3>2 DEF Follows
  <2>6. CASE i # k
    <3>1. i < k
      BY <1>1, <2>4, <2>6
    <3>2. First(r[k], e)
      BY <2>3, <2>4
    <3>. QED
      BY <2>4, <3>1, <3>2 DEF Restarts
  <2>. QED
    BY <2>5, <2>6
<1>. QED
  BY <1>2, <1>3, <1>4

(* A reassembler that has just begun gets the rest of what it has begun. *)
LEMMA RestComes ==
  ASSUME NEW q, NEW r, NEW e, NEW p, NEW o, Rests(q, r, e, o), Comes(q, e, p, 1),
         (\E i \in DOMAIN q : First(q[i], e)) \/ o = p, \A i \in DOMAIN q : i > 0
  PROVE  Comes(r, e, p, 1)
<1>. SUFFICES ASSUME NEW j \in DOMAIN r, Goes(r[j], e), ~Restarts(r, e, 0, j)
              PROVE  r[j].frame.payload = p /\ r[j].frame.index >= 1
  BY DEF Comes
<1>1. Grown(q, r)
  BY DEF Rests
<1>2. CASE j \in DOMAIN q
  <2>1. r[j] = q[j]
    BY <1>1, <1>2 DEF Grown
  <2>2. ~Restarts(q, e, 0, j)
    BY <1>1, GrownRestarts
  <2>. QED
    BY <1>2, <2>1, <2>2 DEF Comes
<1>3. CASE j \notin DOMAIN q
  <2>1. ASSUME NEW i \in DOMAIN q, First(q[i], e) PROVE FALSE
    <3>1. i \in DOMAIN r /\ r[i] = q[i] /\ i < j
      BY <1>1, <1>3 DEF Grown
    <3>2. 0 < i
      BY <1>1, <3>1 DEF Grown
    <3>. QED
      BY <2>1, <3>1, <3>2 DEF Restarts
  <2>2. r[j].frame.payload = o /\ r[j].frame.index \in Nat /\ r[j].frame.index > 0
    BY <1>3 DEF Rests
  <2>. QED
    BY <2>1, <2>2
<1>. QED
  BY <1>2, <1>3

(* What comes behind the head of the wire. *)
LEMMA HeadComes ==
  ASSUME NEW S, NEW q \in Seq(S), q # <<>>, NEW e, Ordered(q, e),
         First(q[1], e) \/ Goes(q[1], e),
         \A i \in DOMAIN q : First(q[i], e) \/ Goes(q[i], e) => q[i].frame.index \in Nat
  PROVE  Comes(Tail(q), e, q[1].frame.payload, q[1].frame.index + 1)
<1>. DEFINE r == Tail(q)
<1>1. /\ 1 \in DOMAIN q /\ DOMAIN q \subseteq Nat
      /\ \A i \in DOMAIN r : i \in Nat /\ i > 0 /\ i + 1 \in DOMAIN q /\ r[i] = q[i + 1]
  <2>1. /\ 1 \in DOMAIN q
        /\ \A i \in DOMAIN r : i \in Nat /\ i > 0 /\ i + 1 \in DOMAIN q /\ r[i] = q[i + 1]
    BY TailFacts
  <2>. QED
    BY <2>1
<1>2. ASSUME NEW k \in DOMAIN q, k > 1 PROVE k - 1 \in DOMAIN r /\ r[k - 1] = q[k]
  <2>. DEFINE l == Len(q)
  <2>1. l \in Nat /\ DOMAIN q = 1 .. l /\ DOMAIN r = 1 .. l - 1
    <3>1. r \in Seq(S) /\ Len(r) = l - 1 /\ l \in Nat
      BY TailFacts
    <3>. QED
      BY <3>1
  <2>. HIDE DEF l, r
  <2>2. k - 1 \in 1 .. l - 1 /\ k - 1 + 1 = k
    BY <1>2, <2>1
  <2>. QED
    BY <1>1, <2>1, <2>2
<1>. HIDE DEF r
<1>3. ASSUME NEW j \in DOMAIN r, Goes(r[j], e), ~Restarts(r, e, 0, j)
      PROVE  r[j].frame.payload = q[1].frame.payload /\ r[j].frame.index >= q[1].frame.index + 1
  <2>1. j + 1 \in DOMAIN q /\ r[j] = q[j + 1] /\ 1 < j + 1 /\ j \in Nat
    BY <1>1
  <2>2. ~Restarts(q, e, 1, j + 1)
    <3>. SUFFICES ASSUME NEW k \in DOMAIN q, 1 < k, k < j + 1, First(q[k], e) PROVE FALSE
      BY DEF Restarts
    <3>1. k - 1 \in DOMAIN r /\ First(r[k - 1], e)
      BY <1>2
    <3>2. 0 < k - 1 /\ k - 1 < j
      BY <1>1, <2>1
    <3>. QED
      BY <1>3, <3>1, <3>2 DEF Restarts
  <2>3. Follows(q[1], q[j + 1])
    BY <1>1, <1>3, <2>1, <2>2 DEF Ordered
  <2>4. q[1].frame.index \in Nat /\ q[j + 1].frame.index \in Nat
    BY <1>1, <1>3, <2>1
  <2>. QED
    BY <2>1, <2>3, <2>4 DEF Follows
<1>4. Comes(r, e, q[1].frame.payload, q[1].frame.index + 1)
  BY <1>3 DEF Comes
<1>. QED
  BY <1>4 DEF r

-----------------------------------------------------------------------------
(* What a step tells the client of the message, and of the reassembler. *)
Telling == whole' = TRUE \/ UNCHANGED <<whole, answer>> \/ (headLost' /\ answer' # Waiting)

Resets ==
  ~written' \/ prefer' \/ ~(asm'.expected > 0) \/ UNCHANGED <<written, prefer, asm, call>>

LEMMA FailsTells ==
  ASSUME NEW failure, Fails(failure)
  PROVE  Telling /\ ~written'
BY DEF Fails, Returns, Telling

LEMMA ReceivesTells ==
  ASSUME NEW reply, NEW complete, Receives(reply, complete),
         complete = TRUE \/ (headLost' /\ reply # Waiting)
  PROVE  Telling
<1>1. CASE reply.kind # "pending"
  BY <1>1 DEF Receives, Returns, Telling
<1>2. CASE reply.kind = "pending" /\ TooMany(seen)
  BY <1>2, FailsTells DEF Receives
<1>3. CASE reply.kind = "pending" /\ ~TooMany(seen)
  BY <1>3 DEF Receives, Telling
<1>. QED
  BY <1>1, <1>2, <1>3

LEMMA IdleTells ==
  ASSUME Idle \/ UNCHANGED <<client, request>> \/ (\E e \in Ecus : Sent(e)) \/ SentUnheard
  PROVE  Telling
BY DEF Idle, vehicle, client, request, Sent, SentUnheard, Telling

LEMMA WholeStays ==
  ASSUME WholeInv, transport' = transport, headLost' = headLost, Telling,
         transport = "socketcan" => UNCHANGED <<wire, held>> /\ Resets
  PROVE  WholeInv'
<1>. SUFFICES ASSUME transport # "elm" PROVE WholeInv'
  BY DEF WholeInv
<1>1. /\ answer' = Waiting => whole'
      /\ ~headLost' => whole'
  BY DEF WholeInv, Telling
<1>2. ASSUME ~headLost, transport = "socketcan"
      PROVE  \A e \in Ecus : (Ordered(wire, e) /\ HeldLast(wire, e, held[e]))'
  BY <1>2 DEF WholeInv, Ordered, HeldLast, EndsWith, Follows, Restarts, First, Goes, Part
<1>3. ASSUME ~headLost, transport = "socketcan", written', ~prefer'
      PROVE  Assembled(wire, call.ecu)'
  <2>1. CASE ~(asm'.expected > 0)
    BY <2>1 DEF Assembled
  <2>2. CASE UNCHANGED <<written, prefer, asm, call>>
    <3>1. Assembled(wire, call.ecu)
      BY <1>3, <2>2 DEF WholeInv
    <3>. QED
      BY <1>3, <2>2, <3>1 DEF Assembled, Comes, Goes, Restarts, First
  <2>. QED
    BY <1>3, <2>1, <2>2 DEF Resets
<1>. QED
  BY <1>1, <1>2, <1>3 DEF WholeInv

LEMMA WholeInit ==
  ASSUME Init
  PROVE  WholeInv
<1>1. answer = Waiting /\ whole = TRUE /\ wire = <<>> /\ ~written
  BY DEF Init, VehicleInit, SocketCanInit
<1>. QED
  BY <1>1, EmptyIsWhole DEF WholeInv

LEMMA CommandWhole ==
  ASSUME IInv, WholeInv, Command \/ Silent
  PROVE  WholeInv'
<1>1. UNCHANGED <<transport, headLost, wire, held, asm, prefer>>
  BY DEF Command, Silent, socketcan
<1>2. CASE Ask \/ Take
  <2>1. Telling
    BY <1>2 DEF Ask, Take, Telling
  <2>2. ~written'
    BY <1>2 DEF Ask, Take, IInv, VehicleInv, CallInv
  <2>. QED
    BY <1>1, <2>1, <2>2, WholeStays DEF Resets
<1>3. CASE \E e \in Ecus : Ignore(e)
  <2>1. UNCHANGED <<whole, answer, written, call>>
    BY <1>3 DEF Ignore, client, request
  <2>. QED
    BY <1>1, <2>1, WholeStays DEF Resets, Telling
<1>. QED
  BY <1>2, <1>3 DEF Command, Silent

LEMMA J2534Whole ==
  ASSUME WholeInv, transport = "j2534", transport' = transport, J2534Next, headLost' = headLost
  PROVE  WholeInv'
<1>. SUFFICES Telling
  BY WholeStays
<1>1. CASE J2534Open \/ J2534Close \/ J2534OpenFails
  BY <1>1 DEF J2534Open, J2534Close, J2534OpenFails, Opened, Closed, OpenFails, vehicle, request, Telling
<1>2. CASE J2534Write
  BY <1>2 DEF J2534Write, Sent, Telling
<1>3. CASE J2534WriteFails \/ J2534ReadFails \/ J2534Timeout
  BY <1>3, FailsTells DEF J2534WriteFails, J2534ReadFails, J2534Timeout
<1>4. CASE J2534Read
  <2>1. Idle \/ \E i : Receives(rx[i].reply, TRUE)
    BY <1>4 DEF J2534Read
  <2>. QED
    BY <2>1, IdleTells, ReceivesTells
<1>5. ASSUME NEW e \in Ecus, NEW kind \in Kinds, J2534Hears(e, kind) PROVE Telling
  BY <1>5, IdleTells DEF J2534Hears, Says
<1>. QED
  BY <1>1, <1>2, <1>3, <1>4, <1>5 DEF J2534Next, J2534Step

(* The steps over SocketCAN that leave the wire alone. *)
LEMMA SocketCanClientWhole ==
  ASSUME IInv, WholeInv, transport = "socketcan", transport' = transport,
         \/ FallBack \/ BindFails \/ SocketFails \/ KernelWrite \/ KernelRead \/ KernelTimeout
         \/ RawWrite \/ RawTimeout
         \/ \E e \in Ecus, kind \in Kinds : KernelHears(e, kind)
  PROVE  WholeInv'
<1>1. CASE FallBack
  <2>1. UNCHANGED <<wire, held, headLost>> /\ ~written' /\ Idle
    BY <1>1 DEF FallBack, Idle, vehicle, request
  <2>. QED
    BY <2>1, IdleTells, WholeStays DEF Resets
<1>2. CASE BindFails \/ SocketFails \/ KernelTimeout \/ RawTimeout
  <2>1. UNCHANGED <<wire, held, headLost>> /\ \E failure : Fails(failure)
    BY <1>2 DEF BindFails, SocketFails, KernelTimeout, RawTimeout, socketcan
  <2>. QED
    BY <2>1, FailsTells, WholeStays DEF Resets
<1>3. CASE KernelWrite
  <2>1. UNCHANGED <<wire, held, headLost, whole, answer>> /\ prefer'
    BY <1>3 DEF KernelWrite, Sent
  <2>. QED
    BY <2>1, WholeStays DEF Resets, Telling
<1>4. CASE KernelRead
  <2>1. /\ UNCHANGED <<wire, held, headLost>> /\ prefer'
        /\ \E reply : Receives(reply, TRUE)
    BY <1>4 DEF KernelRead
  <2>. QED
    BY <2>1, ReceivesTells, WholeStays DEF Resets
<1>5. CASE RawWrite
  <2>1. UNCHANGED <<wire, held, headLost, whole, answer>> /\ ~(asm'.expected > 0)
    BY <1>5 DEF RawWrite, Sent, SentUnheard, Reset
  <2>. QED
    BY <2>1, WholeStays DEF Resets, Telling
<1>6. ASSUME NEW e \in Ecus, NEW kind \in Kinds, KernelHears(e, kind) PROVE WholeInv'
  <2>1. UNCHANGED <<wire, held, headLost, whole, answer, written, prefer, asm, call>>
    BY <1>6 DEF KernelHears, Says, client, request
  <2>. QED
    BY <2>1, WholeStays DEF Resets, Telling
<1>. QED
  BY <1>1, <1>2, <1>3, <1>4, <1>5, <1>6

LEMMA SessionWhole ==
  ASSUME IInv, StaleInv, WholeInv, transport = "socketcan", transport' = transport,
         SocketCanOpen \/ SocketCanClose
  PROVE  WholeInv'
<1>1. CASE SocketCanOpen
  <2>1. session = "closed" /\ UNCHANGED <<wire, held, answer, whole, written>>
    BY <1>1 DEF SocketCanOpen, Opened
  <2>2. wire = <<>> /\ ~written /\ answer = Waiting
    BY <2>1 DEF StaleInv, ModeInv, IInv, VehicleInv, CallInv, AnswerInv
  <2>3. whole
    BY <2>2 DEF WholeInv
  <2>4. wire' = <<>> /\ ~written' /\ whole'
    BY <2>1, <2>2, <2>3
  <2>5. \A e \in Ecus : (Ordered(wire, e) /\ HeldLast(wire, e, held[e]))'
    <3>. TAKE e \in Ecus
    <3>. QED
      BY <2>4, EmptyIsWhole DEF Ordered, HeldLast, EndsWith, Follows, Restarts, First, Goes, Part
  <2>. QED
    BY <2>4, <2>5 DEF WholeInv
<1>2. CASE SocketCanClose
  <2>1. wire' = <<>> /\ pos = Over /\ UNCHANGED <<held, answer, whole, written, headLost>>
    BY <1>2 DEF SocketCanClose, Closed, request
  <2>2. ~written'
    BY <2>1 DEF IInv, VehicleInv, CallInv
  <2>3. \A e \in Ecus : (Ordered(wire, e) /\ HeldLast(wire, e, held[e]))'
    <3>. TAKE e \in Ecus
    <3>. QED
      BY <2>1, EmptyIsWhole DEF Ordered, HeldLast, EndsWith, Follows, Restarts, First, Goes, Part
  <2>. QED
    BY <2>1, <2>2, <2>3 DEF WholeInv
<1>. QED
  BY <1>1, <1>2

(* The steps that touch the wire. *)
WireWhole(q) == \A e \in Ecus : Ordered(q, e) /\ HeldLast(q, e, held'[e])

LEMMA WireMoves ==
  ASSUME WholeInv, transport = "socketcan", transport' = transport, Telling, ~headLost' => ~headLost,
         ~headLost' => WireWhole(wire') /\ (written' /\ ~prefer' => Assembled(wire, call.ecu)')
  PROVE  WholeInv'
<1>1. /\ answer' = Waiting => whole'
      /\ ~headLost' => whole'
  BY DEF WholeInv, Telling
<1>2. ASSUME ~headLost'
      PROVE  \A e \in Ecus : (Ordered(wire, e) /\ HeldLast(wire, e, held[e]))'
  BY <1>2 DEF WireWhole, Ordered, HeldLast, EndsWith, Follows, Restarts, First, Goes, Part
<1>. QED
  BY <1>1, <1>2 DEF WholeInv

LEMMA AssembledStays ==
  ASSUME NEW e, Assembled(wire, e), asm' = asm,
         \A p, n : Comes(wire, e, p, n) => Comes(wire', e, p, n), call'.ecu = e
  PROVE  Assembled(wire, call.ecu)'
<1>1. CASE asm.expected > 0
  <2>1. PICK p \in Said(e) : Begun(asm.buffer, p, asm.next) /\ Comes(wire, e, p, asm.next)
    BY <1>1 DEF Assembled
  <2>2. Comes(wire', e, p, asm.next)
    BY <2>1
  <2>3. Comes(wire, call.ecu, p, asm.next)'
    BY <2>2 DEF Comes, Goes, Restarts, First
  <2>. QED
    BY <1>1, <2>1, <2>3 DEF Assembled, Begun
<1>2. CASE ~(asm.expected > 0)
  BY <1>2 DEF Assembled
<1>. QED
  BY <1>1, <1>2

LEMMA IdleKeepsCall ==
  ASSUME Idle
  PROVE  Telling /\ UNCHANGED <<call, written>>
BY IdleTells DEF Idle, vehicle, request

LEMMA LossWhole ==
  ASSUME IInv, WholeInv, transport = "socketcan", transport' = transport, LoseFrame
  PROVE  WholeInv'
<1>1. PICK i \in DOMAIN wire :
        /\ wire' = SubSeq(wire, 1, i - 1) \o SubSeq(wire, i + 1, Len(wire))
        /\ headLost' = (headLost \/ wire[i].frame.kind = "first")
  BY DEF LoseFrame
<1>2. Idle /\ UNCHANGED <<asm, held, prefer>>
  BY DEF LoseFrame
<1>3. Telling /\ UNCHANGED <<call, written>>
  BY <1>2, IdleKeepsCall
<1>4. wire \in Seq(Heard)
  BY DEF IInv, SocketCanInv
<1>5. ASSUME ~headLost', NEW e PROVE AllKept(wire, wire', e)
  <2>1. ~First(wire[i], e)
    BY <1>1, <1>5 DEF First
  <2>. QED
    BY <1>1, <1>4, <2>1, LossKeeps
<1>6. ASSUME ~headLost' PROVE WireWhole(wire')
  <2>. SUFFICES ASSUME NEW e \in Ecus PROVE Ordered(wire', e) /\ HeldLast(wire', e, held'[e])
    BY DEF WireWhole
  <2>1. Ordered(wire, e) /\ HeldLast(wire, e, held[e])
    BY <1>1, <1>6 DEF WholeInv
  <2>2. Kept(wire, wire', e)
    BY <1>5, <1>6, AllIsKept
  <2>3. HeldLast(wire', e, held[e])
    BY <2>1, <2>2, LastKept
  <2>. QED
    BY <1>2, <2>1, <2>2, <2>3, OrderKept
<1>7. ASSUME ~headLost', written', ~prefer' PROVE Assembled(wire, call.ecu)'
  <2>. DEFINE e == call.ecu
  <2>1. Assembled(wire, call.ecu)
    BY <1>1, <1>2, <1>3, <1>7 DEF WholeInv
  <2>2. \A p, n : Comes(wire, call.ecu, p, n) => Comes(wire', call.ecu, p, n)
    BY <1>5, <1>7, ComesKept
  <2>. QED
    BY <1>2, <1>3, <2>1, <2>2, AssembledStays
<1>. QED
  BY <1>1, <1>3, <1>6, <1>7, WireMoves

LEMMA AbandonWhole ==
  ASSUME IInv, WholeInv, transport = "socketcan", transport' = transport,
         NEW d \in Ecus, Abandon(d)
  PROVE  WholeInv'
<1>1. held' = [held EXCEPT ![d] = NoCall] /\ Idle /\ UNCHANGED <<wire, asm, prefer, headLost>>
  BY DEF Abandon
<1>2. Telling /\ UNCHANGED <<call, written>>
  BY <1>1, IdleKeepsCall
<1>3. held \in [Ecus -> Replies \cup {NoCall}]
  BY DEF IInv, SocketCanInv
<1>4. ASSUME ~headLost' PROVE WireWhole(wire')
  <2>. SUFFICES ASSUME NEW e \in Ecus PROVE Ordered(wire', e) /\ HeldLast(wire', e, held'[e])
    BY DEF WireWhole
  <2>1. Ordered(wire, e) /\ HeldLast(wire, e, held[e])
    BY <1>1, <1>4 DEF WholeInv
  <2>2. held'[e] = held[e] \/ held'[e] = NoCall
    BY <1>1, <1>3
  <2>3. HeldLast(wire, e, held'[e])
    BY <2>1, <2>2 DEF HeldLast
  <2>. QED
    BY <1>1, <2>1, <2>3
<1>5. ASSUME ~headLost', written', ~prefer' PROVE Assembled(wire, call.ecu)'
  <2>1. Assembled(wire, call.ecu)
    BY <1>1, <1>2, <1>5 DEF WholeInv
  <2>2. \A p, n : Comes(wire, call.ecu, p, n) => Comes(wire', call.ecu, p, n)
    BY <1>1
  <2>. QED
    BY <1>1, <1>2, <2>1, <2>2, AssembledStays
<1>. QED
  BY <1>1, <1>2, <1>4, <1>5, WireMoves

LEMMA GrantWhole ==
  ASSUME IInv, WholeInv, transport = "socketcan", transport' = transport,
         NEW d \in Ecus, NEW blockSize \in 0 .. 1, Grant(d, blockSize)
  PROVE  WholeInv'
<1>. DEFINE w == [ecu |-> d, frame |-> FlowControl(blockSize)]
<1>1. wire' = Append(wire, w) /\ Idle /\ UNCHANGED <<held, asm, prefer, headLost>>
  BY DEF Grant
<1>2. Telling /\ UNCHANGED <<call, written>>
  BY <1>1, IdleKeepsCall
<1>3. \A e : ~Part(w, e) /\ ~Goes(w, e)
  BY DEF Part, Goes, FlowControl, Frame
<1>4. Grown(wire, wire') /\ \A j \in DOMAIN wire' : j \notin DOMAIN wire => wire'[j] = w
  <2>1. wire \in Seq(Heard \cup {w}) /\ w \in Heard \cup {w}
    BY DEF IInv, SocketCanInv
  <2>. HIDE DEF w
  <2>. QED
    BY <1>1, <2>1, AppendGrows
<1>. HIDE DEF w
<1>5. ASSUME ~headLost' PROVE WireWhole(wire')
  <2>. SUFFICES ASSUME NEW e \in Ecus PROVE Ordered(wire', e) /\ HeldLast(wire', e, held'[e])
    BY DEF WireWhole
  <2>1. Ordered(wire, e) /\ HeldLast(wire, e, held[e])
    BY <1>1, <1>5 DEF WholeInv
  <2>2. Ordered(wire', e)
    BY <1>3, <1>4, <2>1, OrderGrown
  <2>3. HeldLast(wire', e, held[e])
    BY <1>3, <1>4, <2>1, LastGrown
  <2>. QED
    BY <1>1, <2>2, <2>3
<1>6. ASSUME ~headLost', written', ~prefer' PROVE Assembled(wire, call.ecu)'
  <2>1. Assembled(wire, call.ecu)
    BY <1>1, <1>2, <1>6 DEF WholeInv
  <2>2. \A p, n : Comes(wire, call.ecu, p, n) => Comes(wire', call.ecu, p, n)
    BY <1>3, <1>4, ComesGrown
  <2>. QED
    BY <1>1, <1>2, <2>1, <2>2, AssembledStays
<1>. QED
  BY <1>1, <1>2, <1>5, <1>6, WireMoves

LEMMA RawHearsWhole ==
  ASSUME IInv, WholeInv, transport = "socketcan", transport' = transport,
         NEW d \in Ecus, NEW kind \in Kinds, RawHears(d, kind)
  PROVE  WholeInv'
<1>. DEFINE reply == Reply(due[d][1], kind)
            head == Payload(reply)[1]
            w == [ecu |-> d, frame |-> head]
            t == OnWire(d, <<head>>)
<1>1. /\ held[d] = NoCall /\ Says(d, kind)
      /\ wire' = wire \o t
      /\ held' = IF Len(Payload(reply)) > 1 THEN [held EXCEPT ![d] = reply] ELSE held
      /\ UNCHANGED <<asm, prefer, headLost>> /\ UNCHANGED <<client, request>>
  BY DEF RawHears, Says
<1>2. Telling /\ UNCHANGED <<call, written>>
  BY <1>1, IdleTells DEF request
<1>3. /\ VehicleInv /\ wire \in Seq(Heard) /\ held \in [Ecus -> Replies \cup {NoCall}]
  BY DEF IInv, SocketCanInv
<1>4. reply \in Said(d)
  BY <1>1, <1>3, SayKeeps DEF Said, Says
<1>. HIDE DEF reply
<1>5. /\ head.payload = reply /\ head \in Spoken(d)
      /\ \/ head.kind = "single" /\ ~(Len(Payload(reply)) > 1)
         \/ head.kind = "first" /\ Len(Payload(reply)) > 1
  BY <1>4, HeadOfPayload, PayloadTyped
<1>. HIDE DEF head
<1>6. t \in Seq(Heard) /\ Len(t) = 1 /\ t[1] = w
  <2>1. <<head>> \in Seq(Spoken(d)) /\ Len(<<head>>) = 1
    BY <1>5
  <2>2. OnWire(d, <<head>>) \in Seq(Heard) /\ Len(OnWire(d, <<head>>)) = 1
    BY <2>1, WireTyped
  <2>. QED
    BY <2>2 DEF OnWire
<1>. HIDE DEF t
<1>7. w.ecu = d /\ w.frame = head
  OBVIOUS
<1>. HIDE DEF w
<1>8. Grown(wire, wire')
  BY <1>1, <1>3, <1>6, JoinGrows
<1>9. ASSUME NEW j \in DOMAIN wire', j \notin DOMAIN wire PROVE wire'[j] = w
  <2>1. \E u \in Seq(Heard) : Len(u) = 1 /\ u[1] = w /\ wire' = wire \o u
    BY <1>1, <1>6
  <2>2. Added(wire, wire', w)
    BY <1>3, <2>1, AppendAdds
  <2>. QED
    BY <1>9, <2>2 DEF Added
<1>10. \A e : ~Goes(w, e) /\ (e # d => ~Part(w, e))
  BY <1>5, <1>7 DEF Goes, Part
<1>11. ASSUME ~headLost' PROVE WireWhole(wire')
  <2>. SUFFICES ASSUME NEW e \in Ecus PROVE Ordered(wire', e) /\ HeldLast(wire', e, held'[e])
    BY DEF WireWhole
  <2>1. Ordered(wire, e) /\ HeldLast(wire, e, held[e])
    BY <1>1, <1>11 DEF WholeInv
  <2>2. Ordered(wire', e)
    BY <1>8, <1>9, <1>10, <2>1, OrderGrown
  <2>3. CASE e # d
    <3>1. held'[e] = held[e]
      BY <1>1, <1>3, <2>3
    <3>2. HeldLast(wire', e, held[e])
      BY <1>8, <1>9, <1>10, <2>1, <2>3, LastGrown
    <3>. QED
      BY <2>2, <3>1, <3>2
  <2>4. CASE e = d /\ head.kind = "single"
    <3>1. held'[e] = NoCall
      <4>1. head.kind # "first"
        BY <2>4
      <4>2. ~(Len(Payload(reply)) > 1)
        BY <1>5, <4>1, Zenon
      <4>. QED
        BY <1>1, <2>4, <4>2
    <3>. QED
      BY <2>2, <3>1 DEF HeldLast
  <2>5. CASE e = d /\ head.kind = "first"
    <3>1. held'[e] = reply
      <4>1. head.kind # "single"
        BY <2>5
      <4>2. Len(Payload(reply)) > 1
        BY <1>5, <4>1, Zenon
      <4>. QED
        BY <1>1, <1>3, <2>5, <4>2
    <3>2. PICK k \in DOMAIN wire' : wire'[k] = w /\ \A j \in DOMAIN wire' : ~(j > k)
      <4>1. Len(wire) + 1 \in DOMAIN wire' /\ wire'[Len(wire) + 1] = w
        <5>1. 1 \in DOMAIN t
          BY <1>6
        <5>2. \A j \in DOMAIN t : Len(wire) + j \in DOMAIN wire' /\ wire'[Len(wire) + j] = t[j]
          BY <1>1, <1>3, <1>6, JoinFacts
        <5>. QED
          BY <1>6, <5>1, <5>2
      <4>5. wire \in Seq(Heard) /\ t \in Seq(Heard) /\ wire' = wire \o t
        BY <1>1, <1>3, <1>6
      <4>2. wire' \in Seq(Heard) /\ Len(wire') = Len(wire) + Len(t)
        BY <4>5
      <4>3. Len(wire) \in Nat /\ DOMAIN wire' = 1 .. Len(wire')
        BY <1>3, <4>2
      <4>4. \A j \in DOMAIN wire' : ~(j > Len(wire) + 1)
        BY <1>6, <4>2, <4>3
      <4>. QED
        BY <4>1, <4>4
    <3>3. First(wire'[k], e) /\ wire'[k].frame.payload = reply
      BY <1>5, <1>7, <2>5, <3>2 DEF First
    <3>4. EndsWith(wire', e, reply)
      BY <3>2, <3>3 DEF EndsWith
    <3>. QED
      BY <2>2, <3>1, <3>4 DEF HeldLast
  <2>. QED
    BY <1>5, <2>3, <2>4, <2>5
<1>12. ASSUME ~headLost', written', ~prefer' PROVE Assembled(wire, call.ecu)'
  <2>1. Assembled(wire, call.ecu)
    BY <1>1, <1>2, <1>12 DEF WholeInv
  <2>2. \A p, n : Comes(wire, call.ecu, p, n) => Comes(wire', call.ecu, p, n)
    BY <1>8, <1>9, <1>10, ComesGrown
  <2>. QED
    BY <1>1, <1>2, <2>1, <2>2, AssembledStays
<1>. QED
  BY <1>1, <1>2, <1>11, <1>12, WireMoves

-----------------------------------------------------------------------------
(* A frame is read. *)
LEMMA WireFrames ==
  ASSUME NEW q \in Seq(Heard), NEW e, NEW i \in DOMAIN q, First(q[i], e) \/ Goes(q[i], e)
  PROVE  /\ q[i].frame \in Spoken(e) /\ q[i].frame.index \in Nat
         /\ First(q[i], e) => q[i].frame.index = 0
<1>1. q[i] \in Heard
  OBVIOUS
<1>2. q[i].frame \in Spoken(q[i].ecu) /\ q[i].ecu = e
  BY <1>1 DEF Heard, First, Goes, Granted, FlowControl, Frame
<1>. QED
  BY <1>2, FramesFacts DEF Spoken, First

LEMMA TailWhole ==
  ASSUME wire \in Seq(Heard), wire # <<>>, Passed, \A e \in Ecus : Ordered(wire, e) /\ HeldLast(wire, e, held[e])
  PROVE  WireWhole(wire')
<1>1. wire' = Tail(wire) /\ held' = held
  BY DEF Passed
<1>. SUFFICES ASSUME NEW e \in Ecus PROVE Ordered(wire', e) /\ HeldLast(wire', e, held'[e])
  BY DEF WireWhole
<1>2. Kept(wire, Tail(wire), e)
  BY TailKeeps
<1>3. Ordered(Tail(wire), e) /\ HeldLast(Tail(wire), e, held[e])
  BY <1>2, OrderKept, LastKept
<1>. QED
  BY <1>1, <1>3

LEMMA RestsJoin ==
  ASSUME NEW S, NEW q \in Seq(S), NEW t \in Seq(S), NEW r, r = q \o t, NEW e, NEW p,
         \A j \in DOMAIN t : t[j].ecu = e /\ t[j].frame = Frame("consecutive", j, p, Frames),
         \A i \in DOMAIN q : First(q[i], e) => q[i].frame.index = 0, Closes(q, e, p)
  PROVE  Rests(q, r, e, p)
<1>11. Grown(q, r)
  BY JoinGrows
<1>12. \A j \in DOMAIN t : Len(q) + j \in DOMAIN r /\ r[Len(q) + j] = t[j]
  BY JoinFacts
<1>13. ASSUME NEW i \in DOMAIN r, i \notin DOMAIN q
       PROVE  \E j \in DOMAIN t : i = Len(q) + j /\ r[i] = t[j]
  <2>1. r \in Seq(S) /\ Len(r) = Len(q) + Len(t)
    OBVIOUS
  <2>2. Len(q) \in Nat /\ Len(t) \in Nat /\ DOMAIN q = 1 .. Len(q) /\ DOMAIN t = 1 .. Len(t)
        /\ DOMAIN r = 1 .. Len(r)
    BY <2>1
  <2>. DEFINE l == Len(q)
              k == Len(t)
  <2>3. l \in Nat /\ k \in Nat /\ i \in 1 .. l + k /\ i \notin 1 .. l
    BY <1>13, <2>1, <2>2
  <2>. HIDE DEF l, k
  <2>4. i - l \in 1 .. k /\ i = l + (i - l)
    BY <2>3
  <2>5. i - l \in DOMAIN t /\ i = Len(q) + (i - l)
    BY <2>2, <2>4 DEF l, k
  <2>. QED
    BY <1>12, <2>5
<1>14. ASSUME NEW j \in DOMAIN t
       PROVE  j \in Nat /\ j > 0 /\ Goes(t[j], e) /\ t[j].frame.payload = p /\ t[j].frame.index = j
  <2>1. j \in Nat /\ t[j].ecu = e /\ t[j].frame = Frame("consecutive", j, p, Frames)
    OBVIOUS
  <2>. DEFINE f == t[j].frame
  <2>2. f.kind = "consecutive" /\ f.payload = p /\ f.index = j
    BY <2>1 DEF Frame
  <2>3. j > 0
    BY <2>1
  <2>. QED
    BY <2>1, <2>2, <2>3 DEF Goes
<1>15. ASSUME NEW j \in DOMAIN r, j \notin DOMAIN q
       PROVE  Goes(r[j], e) /\ r[j].frame.payload = p
              /\ r[j].frame.index \in Nat /\ r[j].frame.index > 0
  BY <1>13, <1>14, <1>15
<1>16. ASSUME NEW i \in DOMAIN r, NEW j \in DOMAIN r, i \notin DOMAIN q, j \notin DOMAIN q, i < j
       PROVE  r[i].frame.index < r[j].frame.index
  <2>1. PICK k \in DOMAIN t : i = Len(q) + k /\ r[i] = t[k]
    BY <1>13, <1>16
  <2>2. PICK l \in DOMAIN t : j = Len(q) + l /\ r[j] = t[l]
    BY <1>13, <1>16
  <2>3. k \in Nat /\ l \in Nat /\ Len(q) \in Nat
    BY <1>14
  <2>4. k < l
    BY <1>16, <2>1, <2>2, <2>3
  <2>. QED
    BY <1>14, <2>1, <2>2, <2>4
<1>. QED
  BY <1>11, <1>15, <1>16 DEF Rests

(* A module that holds the rest of the answer that begins is told to go on. *)
LEMMA FetchedRests ==
  ASSUME SocketCanInv, NEW e \in Ecus, held[e] # NoCall, wire # <<>>, First(wire[1], e),
         HeldLast(wire, e, held[e]), wire' = Tail(wire) \o Rest(e)
  PROVE  /\ Rests(Tail(wire), wire', e, held[e])
         /\ (\E i \in DOMAIN Tail(wire) : First(Tail(wire)[i], e))
              \/ wire[1].frame.payload = held[e]
         /\ \A j \in DOMAIN wire' : j \notin DOMAIN Tail(wire) => wire'[j].ecu = e
<1>. DEFINE q == Tail(wire)
            t == Rest(e)
            S == Heard
            p == held[e]
<1>1. wire \in Seq(S) /\ p \in Said(e)
  BY DEF SocketCanInv
<1>2. q \in Seq(S)
  BY <1>1, TailFacts
<1>3. /\ t \in Seq(S)
      /\ \A j \in DOMAIN t : j \in Nat /\ t[j].ecu = e /\ t[j].frame = Frame("consecutive", j, p, Frames)
  BY <1>1, RestFacts
<1>4. wire' = q \o t
  OBVIOUS
<1>5. \A i \in DOMAIN q : First(q[i], e) => q[i].frame.index = 0
  BY <1>2, WireFrames
<1>6. Kept(wire, q, e)
  BY <1>1, TailKeeps
<1>7. HeldLast(q, e, p)
  BY <1>6, LastKept
<1>8. (\E i \in DOMAIN q : First(q[i], e)) \/ (NoPart(q, e) /\ wire[1].frame.payload = p)
  <2>. SUFFICES ASSUME \A i \in DOMAIN q : ~First(q[i], e)
                PROVE  NoPart(q, e) /\ wire[1].frame.payload = p
    OBVIOUS
  <2>1. /\ 1 \in DOMAIN wire
        /\ \A i \in DOMAIN q : i \in Nat /\ i > 0 /\ i + 1 \in DOMAIN wire /\ q[i] = wire[i + 1]
    BY <1>1, TailFacts
  <2>2. EndsWith(wire, e, p)
    BY <2>1 DEF HeldLast
  <2>3. PICK k \in DOMAIN wire : /\ First(wire[k], e) /\ wire[k].frame.payload = p
                                 /\ \A j \in DOMAIN wire : j > k => ~Part(wire[j], e)
    BY <2>2 DEF EndsWith
  <2>4. k = 1
    <3>2. k # 1 => \E l \in DOMAIN q : q[l] = wire[k]
      <4>. SUFFICES ASSUME k # 1 PROVE \E l \in DOMAIN q : q[l] = wire[k]
        OBVIOUS
      <4>. DEFINE m == Len(wire)
      <4>1. q \in Seq(S) /\ Len(q) = m - 1 /\ m \in Nat
        BY <1>1, TailFacts
      <4>2. DOMAIN q = 1 .. m - 1 /\ DOMAIN wire = 1 .. m
        BY <1>1, <4>1
      <4>. HIDE DEF m, q
      <4>3. k - 1 \in 1 .. m - 1 /\ k - 1 + 1 = k
        BY <4>1, <4>2
      <4>4. q[k - 1] = wire[k]
        BY <2>1, <4>2, <4>3
      <4>. QED
        BY <4>2, <4>3, <4>4
    <3>. QED
      BY <2>3, <3>2
  <2>5. ASSUME NEW i \in DOMAIN q PROVE ~Part(q[i], e)
    <3>1. i + 1 > 1 /\ i + 1 \in DOMAIN wire /\ q[i] = wire[i + 1]
      BY <2>1
    <3>. QED
      BY <2>3, <2>4, <3>1
  <2>. QED
    BY <2>3, <2>4, <2>5 DEF NoPart
<1>9. Closes(q, e, p)
  BY <1>7, <1>8 DEF Closes, HeldLast
<1>10. /\ Rests(q, wire', e, p)
       /\ \A j \in DOMAIN wire' : j \notin DOMAIN q => wire'[j].ecu = e
  <2>1. q \in Seq(S) /\ t \in Seq(S) /\ wire' = q \o t
    BY <1>2, <1>3, <1>4
  <2>2. \A j \in DOMAIN t : t[j].ecu = e /\ t[j].frame = Frame("consecutive", j, p, Frames)
    BY <1>3
  <2>. HIDE DEF q, t, S, p
  <2>3. Rests(q, wire', e, p)
    BY <1>5, <1>9, <2>1, <2>2, RestsJoin
  <2>4. \A j \in DOMAIN wire' : j \notin DOMAIN q => wire'[j].ecu = e
    BY <2>3 DEF Rests, Goes
  <2>. QED
    BY <2>3, <2>4
<1>. QED
  BY <1>8, <1>10

LEMMA BeginsWhole ==
  ASSUME SocketCanInv, NEW e \in Ecus, NEW f \in Spoken(e), Begins(e, f), wire # <<>>, wire[1].ecu = e,
         f = wire[1].frame, call'.ecu = e,
         \A d \in Ecus : Ordered(wire, d) /\ HeldLast(wire, d, held[d])
  PROVE  WireWhole(wire') /\ Assembled(wire, call.ecu)'
<1>. DEFINE q == Tail(wire)
            p == f.payload
<1>1. wire \in Seq(Heard) /\ held \in [Ecus -> Replies \cup {NoCall}] /\ First(wire[1], e)
  BY DEF SocketCanInv, Begins, First
<1>2. f = Frame("first", 0, p, Frames) /\ p \in Said(e) /\ f.kind = "first" /\ f.index = 0 /\ f.total = Frames
  BY SpokenFrame DEF Begins, Spoken
<1>3. 1 \in DOMAIN wire /\ q \in Seq(Heard) /\ \A i \in DOMAIN q : i > 0
  BY <1>1, TailFacts
<1>4. Comes(q, e, p, 1)
  <2>1. \A i \in DOMAIN wire : First(wire[i], e) \/ Goes(wire[i], e) => wire[i].frame.index \in Nat
    BY <1>1, WireFrames
  <2>2. Comes(q, e, wire[1].frame.payload, wire[1].frame.index + 1)
    BY <1>1, <2>1, HeadComes
  <2>3. wire[1].frame.index + 1 = 1
    BY <1>2
  <2>. QED
    BY <2>2, <2>3
<1>5. ASSUME NEW d \in Ecus
      PROVE  Kept(wire, q, d) /\ Ordered(q, d) /\ HeldLast(q, d, held[d])
  <2>1. Kept(wire, q, d)
    BY <1>1, TailKeeps
  <2>. QED
    BY <2>1, OrderKept, LastKept
<1>. HIDE DEF q, p
<1>6. ASSUME held[e] = NoCall, Passed PROVE WireWhole(wire') /\ Comes(wire', e, p, 1)
  <2>1. wire' = q /\ held' = held
    BY <1>6 DEF Passed, q
  <2>. QED
    BY <1>4, <1>5, <2>1 DEF WireWhole
<1>7. ASSUME held[e] # NoCall, wire' = Tail(wire) \o Rest(e), held' = [held EXCEPT ![e] = NoCall]
      PROVE  WireWhole(wire') /\ Comes(wire', e, p, 1)
  <2>1. /\ Rests(q, wire', e, held[e])
        /\ (\E i \in DOMAIN q : First(q[i], e)) \/ p = held[e]
        /\ \A j \in DOMAIN wire' : j \notin DOMAIN q => wire'[j].ecu = e
    BY <1>1, <1>7, FetchedRests DEF q, p
  <2>2. Comes(wire', e, p, 1)
    BY <1>3, <1>4, <2>1, RestComes
  <2>3. ASSUME NEW d \in Ecus PROVE Ordered(wire', d) /\ HeldLast(wire', d, held'[d])
    <3>1. CASE d = e
      <4>1. Ordered(wire', e)
        BY <1>5, <2>1, RestOrdered
      <4>2. held'[e] = NoCall
        BY <1>1, <1>7
      <4>. QED
        BY <3>1, <4>1, <4>2 DEF HeldLast
    <3>2. CASE d # e
      <4>1. Grown(q, wire')
        BY <2>1 DEF Rests
      <4>2. \A j \in DOMAIN wire' : j \notin DOMAIN q => ~Goes(wire'[j], d) /\ ~Part(wire'[j], d)
        BY <2>1, <3>2 DEF Goes, Part
      <4>3. held'[d] = held[d]
        BY <1>1, <1>7, <3>2
      <4>4. Ordered(wire', d)
        BY <1>5, <4>1, <4>2, OrderGrown
      <4>5. HeldLast(wire', d, held[d])
        BY <1>5, <4>1, <4>2, LastGrown
      <4>. QED
        BY <4>3, <4>4, <4>5
    <3>. QED
      BY <3>1, <3>2
  <2>. QED
    BY <2>2, <2>3 DEF WireWhole
<1>8. WireWhole(wire') /\ Comes(wire', e, p, 1)
  BY <1>6, <1>7 DEF Begins
<1>9. asm' = Start(asm, f)
  BY DEF Begins
<1>10. asm'.expected = Frames /\ asm'.next = 1 /\ asm'.buffer = <<f>>
  BY <1>2, <1>9 DEF Start
<1>11. asm'.expected + asm'.next = Frames + 1 /\ Begun(asm'.buffer, p, asm'.next)
  BY <1>2, <1>10, BegunFirst
<1>12. Comes(wire, call.ecu, p, asm.next)'
  BY <1>8, <1>10 DEF Comes, Goes, Restarts, First, p
<1>13. Begun(asm.buffer, p, asm.next)'
  BY <1>11 DEF Begun, p
<1>. QED
  BY <1>2, <1>8, <1>11, <1>12, <1>13 DEF Assembled, Said

(* The frame the reassembler waits for is the next one of what it has. *)
LEMMA HeadFits ==
  ASSUME NEW e, asm \in Assembling(e), asm.expected > 0, Assembled(wire, e),
         wire \in Seq(Heard), wire # <<>>, wire[1].ecu = e,
         NEW f \in Spoken(e), f = wire[1].frame, f.kind = "consecutive", InOrder(asm, f)
  PROVE  \E p \in Said(e) : /\ Begun(asm.buffer, p, asm.next)
                            /\ f = Frame("consecutive", asm.next, p, Frames)
                            /\ f.payload = p /\ f.index = asm.next
<1>. DEFINE n == asm.next
            x == asm.expected
<1>1. n \in Nat /\ n > 0 /\ x \in Nat /\ x > 0
  BY DEF Assembling
<1>2. PICK p \in Said(e) : x + n = Frames + 1 /\ Begun(asm.buffer, p, n) /\ Comes(wire, e, p, n)
  BY DEF Assembled
<1>3. f.index = n % IndexMod
  BY DEF InOrder
<1>. HIDE DEF n, x
<1>4. n \in 1 .. Frames
  <2>1. Frames \in Nat
    BY FramesFacts
  <2>2. x + n = Frames + 1
    BY <1>2
  <2>. QED
    BY <1>1, <2>1, <2>2
<1>5. f.index = n
  BY <1>3, <1>4, FramesFacts
<1>6. 1 \in DOMAIN wire
  OBVIOUS
<1>7. Goes(wire[1], e) /\ ~Restarts(wire, e, 0, 1)
  <2>1. \A k \in DOMAIN wire : k \in Nat
    OBVIOUS
  <2>2. \A k \in Nat : ~(0 < k /\ k < 1)
    OBVIOUS
  <2>. QED
    BY <2>1, <2>2 DEF Goes, Restarts
<1>8. f.payload = p
  BY <1>2, <1>6, <1>7 DEF Comes
<1>9. f = Frame("consecutive", n, p, Frames)
  BY <1>5, <1>8, SpokenFrame
<1>. QED
  BY <1>2, <1>5, <1>8, <1>9 DEF n

LEMMA EndsWhole ==
  ASSUME NEW e, asm \in Assembling(e), ~headLost => Assembled(wire, e), headLost' = headLost,
         wire \in Seq(Heard), wire # <<>>, wire[1].ecu = e,
         NEW f \in Spoken(e), f = wire[1].frame, Ends(f)
  PROVE  Telling
<1>. DEFINE b == asm.buffer
            m == Append(b, f)
            reply == m[1].payload
            complete == IsWhole(m)
<1>1. asm.expected = 1 /\ f.kind = "consecutive" /\ InOrder(asm, f) /\ Receives(reply, complete)
  BY DEF Ends
<1>2. b \in Seq(Spoken(e)) /\ asm.next \in Nat /\ asm.next > 0
  BY DEF Assembling
<1>. HIDE DEF b
<1>3. CASE ~headLost
  <2>1. asm.expected > 0 /\ asm.next = Frames
    <3>1. asm.expected > 0 /\ asm.expected + asm.next = Frames + 1
      BY <1>1, <1>3 DEF Assembled
    <3>. DEFINE n == asm.next
    <3>2. 1 + n = Frames + 1 /\ n \in Nat /\ Frames \in Nat
      BY <1>1, <1>2, <3>1, FramesFacts
    <3>. HIDE DEF n
    <3>3. n = Frames
      BY <3>2
    <3>. QED
      BY <3>1, <3>3 DEF n
  <2>2. PICK p \in Said(e) : Begun(b, p, Frames) /\ f = Frame("consecutive", Frames, p, Frames)
    BY <1>1, <1>3, <2>1, HeadFits DEF b
  <2>3. Frames \in Nat /\ Frames > 0
    BY FramesFacts
  <2>4. m \in Seq(Spoken(e))
    BY <1>2
  <2>5. Begun(m, p, Frames + 1)
    BY <1>2, <2>2, <2>3, BegunAppend
  <2>. HIDE DEF m
  <2>6. IsWhole(m)
    BY <2>4, <2>5, BegunIsWhole
  <2>7. complete = TRUE
    BY <2>6 DEF IsWhole
  <2>. QED
    BY <1>1, <2>7, ReceivesTells
<1>4. CASE headLost
  <2>1. m \in Seq(Spoken(e)) /\ Len(m) = Len(b) + 1 /\ Len(b) \in Nat
    BY <1>2
  <2>2. m[1] \in Spoken(e)
    <3>. HIDE DEF m
    <3>1. 1 \in DOMAIN m
      BY <2>1
    <3>. QED
      BY <2>1, <3>1
  <2>3. reply \in Replies
    BY <2>2 DEF Spoken, Said
  <2>4. reply # Waiting
    BY <2>3, RepliesAreAnswers
  <2>. HIDE DEF m
  <2>. QED
    BY <1>1, <1>4, <2>4, ReceivesTells
<1>. QED
  BY <1>3, <1>4

LEMMA ContinuesWhole ==
  ASSUME NEW e, asm \in Assembling(e), Assembled(wire, e), Ordered(wire, e),
         wire \in Seq(Heard), wire # <<>>, wire[1].ecu = e, call'.ecu = e,
         NEW f \in Spoken(e), f = wire[1].frame, Continues(f)
  PROVE  Assembled(wire, call.ecu)'
<1>. DEFINE n == asm.next
            x == asm.expected
            b == asm.buffer
<1>1. /\ x > 1 /\ f.kind = "consecutive" /\ InOrder(asm, f) /\ asm' = Longer(asm, f)
      /\ wire' = Tail(wire)
  BY DEF Continues, Passed
<1>2. n \in Nat /\ n > 0 /\ x \in Nat /\ b \in Seq(Spoken(e))
  BY DEF Assembling
<1>3. asm.expected > 0
  BY <1>1, <1>2
<1>4. x + n = Frames + 1
  BY <1>3 DEF Assembled
<1>5. PICK p \in Said(e) : /\ Begun(b, p, n) /\ f = Frame("consecutive", n, p, Frames)
                           /\ f.payload = p /\ f.index = n
  BY <1>1, <1>3, HeadFits
<1>6. Goes(wire[1], e) /\ \A i \in DOMAIN wire : First(wire[i], e) \/ Goes(wire[i], e) => wire[i].frame.index \in Nat
  BY <1>1, WireFrames DEF Goes
<1>7. Comes(Tail(wire), e, p, n + 1)
  <2>1. wire[1].frame.payload = p /\ wire[1].frame.index = n
    BY <1>5
  <2>2. Comes(Tail(wire), e, wire[1].frame.payload, wire[1].frame.index + 1)
    BY <1>6, HeadComes
  <2>. QED
    BY <2>1, <2>2
<1>8. Begun(Append(b, f), p, n + 1)
  BY <1>2, <1>5, BegunAppend
<1>9. asm'.expected = x - 1 /\ asm'.next = n + 1 /\ asm'.buffer = Append(b, f)
  BY <1>1 DEF Longer
<1>. HIDE DEF n, x, b
<1>10. asm'.expected + asm'.next = Frames + 1
  <2>1. (x - 1) + (n + 1) = x + n
    BY <1>2
  <2>. QED
    BY <1>4, <1>9, <2>1
<1>11. Begun(asm.buffer, p, asm.next)'
  BY <1>8, <1>9 DEF Begun
<1>12. Comes(wire, call.ecu, p, asm.next)'
  <2>1. Comes(wire', e, p, asm'.next)
    BY <1>1, <1>7, <1>9
  <2>. QED
    BY <2>1 DEF Comes, Goes, Restarts, First
<1>. QED
  BY <1>10, <1>11, <1>12 DEF Assembled, Said

LEMMA RawReadWhole ==
  ASSUME IInv, StaleInv, WholeInv, transport = "socketcan", transport' = transport, RawRead
  PROVE  WholeInv'
<1>. DEFINE e == call.ecu
            f == wire[1].frame
<1>1. VehicleInv /\ SocketCanInv /\ headLost' = headLost
  BY DEF IInv, RawRead
<1>2. /\ Underway(e) /\ ~prefer /\ e \in Ecus /\ asm \in Assembling(e) /\ prefer' = prefer /\ written
      /\ wire \in Seq(Heard) /\ wire # <<>> /\ f \in Granted \cup Spoken(wire[1].ecu)
      /\ \/ wire[1].ecu # e /\ Idle /\ Passed /\ asm' = asm
         \/ /\ wire[1].ecu = e /\ f.kind = "flow" /\ (Sent(e) \/ Idle) /\ asm' = asm /\ Passed
         \/ wire[1].ecu = e /\ Fetches(e, f)
  BY <1>1, RawReads DEF SocketCanInv, Underway
<1>3. /\ ~headLost => Assembled(wire, e) /\ \A d \in Ecus : Ordered(wire, d) /\ HeldLast(wire, d, held[d])
      /\ ~headLost => (Passed => WireWhole(wire'))
  BY <1>2, TailWhole DEF WholeInv
<1>. HIDE DEF e, f
<1>4. CASE /\ asm' = asm /\ Passed /\ (Idle \/ Sent(e))
           /\ wire[1].ecu # e \/ f.kind # "first"
  <2>1. Telling /\ call' = call
    <3>1. CASE Idle
      BY <3>1, IdleKeepsCall
    <3>2. CASE Sent(e)
      BY <3>2 DEF Sent, Telling
    <3>. QED
      BY <1>4, <3>1, <3>2
  <2>2. ASSUME ~headLost PROVE Assembled(wire, call.ecu)'
    <3>1. ~First(wire[1], e)
      BY <1>4 DEF First, f
    <3>2. AllKept(wire, Tail(wire), e)
      BY <1>2, <3>1, TailKeeps
    <3>3. wire' = Tail(wire)
      BY <1>4 DEF Passed
    <3>4. \A p, n : Comes(wire, e, p, n) => Comes(wire', e, p, n)
      BY <3>2, <3>3, ComesKept
    <3>5. Assembled(wire, e) /\ asm' = asm /\ call'.ecu = e
      BY <1>3, <1>4, <2>1, <2>2 DEF e
    <3>. QED
      BY <3>4, <3>5, AssembledStays
  <2>. QED
    BY <1>1, <1>3, <1>4, <2>1, <2>2, WireMoves
<1>5. ASSUME wire[1].ecu = e, f.kind # "flow" PROVE f \in Spoken(e)
  BY <1>2, <1>5 DEF Granted, FlowControl, Frame
<1>6. CASE wire[1].ecu = e /\ Alone(f)
  <2>1. f.kind = "single" /\ Receives(f.payload, IsWhole(<<f>>)) /\ asm' = Reset /\ Passed
    BY <1>6 DEF Alone
  <2>2. f \in Spoken(e)
    BY <1>5, <1>6, <2>1
  <2>3. IsWhole(<<f>>)
    BY <2>1, <2>2, SpokenFrame, SingleIsWhole
  <2>4. Telling
    <3>1. IsWhole(<<f>>) = TRUE
      BY <2>3 DEF IsWhole
    <3>. QED
      BY <2>1, <3>1, ReceivesTells
  <2>5. Assembled(wire, call.ecu)'
    BY <2>1 DEF Assembled, Reset
  <2>. QED
    BY <1>1, <1>3, <2>1, <2>4, <2>5, WireMoves
<1>7. CASE wire[1].ecu = e /\ Begins(e, f)
  <2>1. Idle /\ f.kind = "first"
    BY <1>7 DEF Begins
  <2>2. Telling /\ call' = call
    BY <2>1, IdleKeepsCall
  <2>3. f \in Spoken(e)
    BY <1>5, <1>7, <2>1
  <2>4. ASSUME ~headLost PROVE WireWhole(wire') /\ Assembled(wire, call.ecu)'
    <3>1. call'.ecu = e /\ f = wire[1].frame
      BY <2>2 DEF e, f
    <3>. QED
      BY <1>1, <1>2, <1>3, <1>7, <2>3, <2>4, <3>1, BeginsWhole
  <2>. QED
    BY <1>1, <2>2, <2>4, WireMoves
<1>8. CASE Breaches(f)
  <2>1. Telling /\ ~written' /\ Passed
    BY <1>8, FailsTells DEF Breaches
  <2>. QED
    BY <1>1, <1>3, <2>1, WireMoves
<1>9. CASE wire[1].ecu = e /\ Ends(f)
  <2>1. f.kind = "consecutive" /\ asm' = Reset /\ Passed
    BY <1>9 DEF Ends
  <2>2. f \in Spoken(e) /\ f = wire[1].frame
    BY <1>5, <1>9, <2>1 DEF f
  <2>3. Telling
    BY <1>1, <1>2, <1>3, <1>9, <2>2, EndsWhole
  <2>4. Assembled(wire, call.ecu)'
    BY <2>1 DEF Assembled, Reset
  <2>. QED
    BY <1>1, <1>3, <2>1, <2>3, <2>4, WireMoves
<1>10. CASE wire[1].ecu = e /\ Continues(f)
  <2>1. f.kind = "consecutive" /\ Idle /\ Passed
    BY <1>10 DEF Continues
  <2>2. f \in Spoken(e) /\ f = wire[1].frame
    BY <1>5, <1>10, <2>1 DEF f
  <2>3. Telling /\ call' = call
    BY <2>1, IdleKeepsCall
  <2>4. ASSUME ~headLost PROVE Assembled(wire, call.ecu)'
    <3>1. call'.ecu = e /\ Ordered(wire, e) /\ Assembled(wire, e)
      BY <1>2, <1>3, <2>3, <2>4 DEF e
    <3>. QED
      BY <1>2, <1>10, <2>2, <3>1, ContinuesWhole
  <2>. QED
    BY <1>1, <1>3, <2>1, <2>3, <2>4, WireMoves
<1>11. CASE wire[1].ecu = e /\ Skipped(f)
  <2>1. asm' = asm /\ Passed /\ Idle /\ f.kind # "first"
    BY <1>11 DEF Skipped
  <2>. QED
    BY <1>4, <2>1
<1>. QED
  BY <1>2, <1>4, <1>6, <1>7, <1>8, <1>9, <1>10, <1>11 DEF Fetches

LEMMA SocketCanWhole ==
  ASSUME IInv, StaleInv, WholeInv, transport = "socketcan", transport' = transport, SocketCanNext
  PROVE  WholeInv'
<1>1. CASE SocketCanOpen \/ SocketCanClose
  BY <1>1, SessionWhole
<1>2. CASE \/ FallBack \/ BindFails \/ SocketFails \/ KernelWrite \/ KernelRead \/ KernelTimeout
           \/ RawWrite \/ RawTimeout
  BY <1>2, SocketCanClientWhole
<1>3. CASE RawRead
  BY <1>3, RawReadWhole
<1>4. CASE LoseFrame
  BY <1>4, LossWhole
<1>5. ASSUME NEW e \in Ecus, Abandon(e) PROVE WholeInv'
  BY <1>5, AbandonWhole
<1>6. ASSUME NEW e \in Ecus, NEW kind \in Kinds, KernelHears(e, kind) \/ RawHears(e, kind)
      PROVE  WholeInv'
  BY <1>6, SocketCanClientWhole, RawHearsWhole
<1>7. ASSUME NEW e \in Ecus, NEW blockSize \in 0 .. 1, Grant(e, blockSize) PROVE WholeInv'
  BY <1>7, GrantWhole
<1>. QED
  BY <1>1, <1>2, <1>3, <1>4, <1>5, <1>6, <1>7 DEF SocketCanNext, SocketCanStep

LEMMA WholeNext ==
  ASSUME IInv, StaleInv, WholeInv, [Next]_vars
  PROVE  WholeInv'
<1>1. CASE Command \/ Silent
  BY <1>1, CommandWhole
<1>2. CASE Build("j2534", J2534Next)
  <2>1. transport = "j2534" /\ transport' = transport /\ J2534Next /\ headLost' = headLost
    BY <1>2 DEF Build, socketcan
  <2>. QED
    BY <2>1, J2534Whole
<1>3. CASE Build("socketcan", SocketCanNext)
  <2>1. transport = "socketcan" /\ transport' = transport /\ SocketCanNext
    BY <1>3 DEF Build
  <2>. QED
    BY <2>1, SocketCanWhole
<1>4. CASE Build("elm", ElmNext)
  BY <1>4 DEF Build, WholeInv
<1>5. CASE UNCHANGED vars
  <2>1. UNCHANGED <<transport, headLost, whole, answer, wire, held, written, prefer, asm, call>>
    BY <1>5 DEF vars, vehicle, client, request, socketcan
  <2>. QED
    BY <2>1, WholeStays DEF Telling, Resets
<1>. QED
  BY <1>1, <1>2, <1>3, <1>4, <1>5 DEF Next

LEMMA WholeInvariance == Spec => []WholeInv
<1>1. Init => WholeInv
  BY WholeInit
<1>2. IInv /\ StaleInv /\ WholeInv /\ [Next]_vars => WholeInv'
  BY WholeNext
<1>. QED
  BY <1>1, <1>2, TransportsInvariance, StaleInvariance, PTL DEF Spec

(* Consecutive frames that are lost, first frames of late answers, answers of    *)
(* two modules at once and frames of requests given up: unless a first frame *)
(* was lost, what the client gets is one answer as one module sent it.       *)
THEOREM OnlyWholeAnswersAreShown == Spec => []AnswersWhole
<1>1. WholeInv => AnswersWhole
  BY DEF WholeInv, AnswersWhole
<1>. QED
  BY <1>1, WholeInvariance, PTL

(* All of this holds of the command line too.                                *)
THEOREM CommandLineShowsItsOwnAnswers ==
  CommandLineSpec => [](StaleOnlyAfterFailure /\ AnswersWhole)
BY CommandLineIsCommand, StaleAnswersNeedAFailure, OnlyWholeAnswersAreShown, PTL
=============================================================================
